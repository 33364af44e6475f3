------------------------------ MODULE MergeProofs ------------------------------
(***************************************************************************)
(* Theorems about MergeBatch, for any bids, batches and bounds, about      *)
(* QualificationFields, for any answers of the language model, and about   *)
(* Chunker, for any documents.                                             *)
(*                                                                         *)
(* MergeBatch has two layers: BaseInv, and RowInv, which says what is left *)
(* to a batch of a bid that no other batch has in hand.  That an older     *)
(* batch may take a merged row back is why RowInv excepts contested bids.  *)
(* QualificationFields needs one invariant, FieldsInv: the row is merged   *)
(* from documents that are stored.  Chunker needs ChunkInv: each line is   *)
(* in one place at least, from the document over sections and windows to   *)
(* the chunks, and each place stands behind the one it feeds.              *)
(***************************************************************************)
EXTENDS MergeBatch, QualificationFields, Chunker, FiniteSetTheorems, SequenceTheorems,
        WellFoundedInduction, TLAPS

-------------------------------------------------------------------------------
(* The strengthenings.                                                      *)

\* Outside listing and merging a batch has no targets.
Waiting ==
    \A e \in Batches :
        phase[e] \in {"idle", "sweeping", "selecting"} => targets[e] = {}

\* A listing is never ahead of the bucket: qualifications are never deleted.
InventoryBehind == \A e \in Batches, b \in Bids : inventory[e][b] <= arrived[b]

\* What is left to merge has documents in the listing.
Listed ==
    \A e \in Batches :
        phase[e] = "merging" => \A b \in targets[e] : inventory[e][b] > 0

BaseInv == TypeOK /\ Waiting /\ InventoryBehind /\ Listed /\ StatusBacked

\* A bid in the hands of two batches is contested.
Alone ==
    \A e, f \in Batches : e # f => targets[e] \intersect targets[f] \subseteq contested

\* Nobody else writes the rows a batch has to itself.
TargetsOpen ==
    \A e \in Batches : \A b \in targets[e] :
        /\ b \in Loaded
        /\ b \notin contested => b \in Incomplete

TargetsBehind ==
    \A e \in Batches :
        phase[e] = "merging" =>
            \A b \in targets[e] \ contested : content[b] <= inventory[e][b]

RowInv == Alone /\ TargetsOpen /\ TargetsBehind

-------------------------------------------------------------------------------
(* Lemmas about the operators.                                              *)

(* A LIMIT returns some of the rows.                                        *)
LEMMA LimitedSubset ==
    ASSUME NEW S, NEW n, NEW T \in Limited(S, n)
    PROVE  T \subseteq S
  BY DEF Limited

(* determine_qual_status returns one of four values, and "pending" only     *)
(* when one of its counts is zero.                                          *)
LEMMA QualStatusRange ==
    ASSUME NEW found \in Nat, NEW wanted \in Nat, NEW failed \in BOOLEAN
    PROVE  /\ QualStatus(found, wanted, failed) \in {"pending", "partial", "failed", "merged"}
           /\ found > 0 /\ wanted > 0 => QualStatus(found, wanted, failed) # "pending"
           /\ found = 0 \/ wanted = 0 => QualStatus(found, wanted, failed) = "pending"
  BY DEF QualStatus

(* A batch that leaves keeps the invariants: it forgets what it knew.       *)
LEMMA LeaveKeeps ==
    ASSUME BaseInv, NEW e \in Batches, NEW c \in Connections,
           Leave(e, c), UNCHANGED <<rows, tagged, arrived>>,
           contested' \subseteq Bids, faults' \in 0 .. MaxFaults
    PROVE  BaseInv'
<1> USE DEF BaseInv, Leave, rows
<1>1. TypeOK'
  BY BoundsAssumption DEF TypeOK, Nothing, Counts, Phases
<1>2. Waiting'
  BY DEF TypeOK, Waiting
<1>3. InventoryBehind'
  BY DEF TypeOK, InventoryBehind, Nothing, Counts
<1>4. Listed'
  BY DEF TypeOK, Listed
<1>5. StatusBacked'
  BY DEF StatusBacked
<1> QED
  BY <1>1, <1>2, <1>3, <1>4, <1>5

-------------------------------------------------------------------------------
(* BaseInv.                                                                 *)

LEMMA InitBase == Init => BaseInv
  BY BoundsAssumption
  DEF Init, BaseInv, TypeOK, Waiting, InventoryBehind, Listed, StatusBacked,
      Statuses, Phases, Connections, Counts, Nothing

LEMMA StepBase == BaseInv /\ [Next]_vars => BaseInv'
<1> SUFFICES ASSUME BaseInv, [Next]_vars PROVE BaseInv'
  OBVIOUS
<1> USE BoundsAssumption
<1>1. ASSUME NEW b \in Bids, NEW n \in Expectations, LoadRow(b, n)
      PROVE  BaseInv'
  <2> USE <1>1, ExpectationsAssumption DEF BaseInv, LoadRow, batch
  <2>1. TypeOK'
    BY DEF TypeOK, Counts, Statuses
  <2>2. Waiting' /\ InventoryBehind' /\ Listed'
    BY DEF Waiting, InventoryBehind, Listed
  <2>3. StatusBacked'
    BY DEF TypeOK, StatusBacked
  <2> QED
    BY <2>1, <2>2, <2>3
<1>2. ASSUME NEW b \in Bids, DocumentArrives(b)
      PROVE  BaseInv'
  <2> USE <1>2 DEF BaseInv, DocumentArrives, batch, rows
  <2>1. TypeOK'
    BY DEF TypeOK, Counts
  <2>2. Waiting' /\ Listed'
    BY DEF Waiting, Listed
  <2>3. \A x \in Bids : arrived[x] <= arrived'[x]
    BY DEF TypeOK, Counts
  <2>4. InventoryBehind'
    BY <2>1, <2>3 DEF TypeOK, InventoryBehind, Counts
  <2>5. StatusBacked'
    BY <2>1, <2>3 DEF TypeOK, StatusBacked, Counts
  <2> QED
    BY <2>1, <2>2, <2>4, <2>5
<1>3. ASSUME NEW b \in Bids, Verify(b)
      PROVE  BaseInv'
  BY <1>3
  DEF BaseInv, Verify, batch, TypeOK, Waiting, InventoryBehind, Listed, StatusBacked
<1>4. ASSUME NEW e \in Batches, Start(e)
      PROVE  BaseInv'
  BY <1>4
  DEF BaseInv, Start, rows, TypeOK, Waiting, InventoryBehind, Listed, StatusBacked,
      Phases, Connections
<1>5. ASSUME NEW e \in Batches, SweepTags(e)
      PROVE  BaseInv'
  <2>1. tagged' \subseteq Bids
    BY <1>5 DEF BaseInv, TypeOK, SweepTags, Untagged, Newest, Loaded
  <2> QED
    BY <1>5, <2>1
    DEF BaseInv, SweepTags, rows, TypeOK, Waiting, InventoryBehind, Listed,
        StatusBacked, Phases
<1>6. ASSUME NEW e \in Batches, SweepFails(e)
      PROVE  BaseInv'
  BY <1>6
  DEF BaseInv, SweepFails, Fault, rows, TypeOK, Waiting, InventoryBehind, Listed,
      StatusBacked, Phases, Connections
<1>7. ASSUME NEW e \in Batches, SelectTargets(e)
      PROVE  BaseInv'
  <2> DEFINE chosen == Incomplete \ verified
  <2>1. CASE chosen = {}
    <3>1. Leave(e, "ok")
      BY <1>7, <2>1 DEF SelectTargets
    <3>2. targets'[e] = {}
      BY <3>1 DEF Leave, BaseInv, TypeOK
    <3>3. UNCHANGED <<rows, contested, tagged, arrived, faults>>
      BY <1>7, <3>2 DEF SelectTargets, Contend
    <3> QED
      BY <3>1, <3>3, LeaveKeeps DEF Connections, BaseInv, TypeOK
  <2>2. CASE chosen # {}
    <3>1. /\ phase' = [phase EXCEPT ![e] = "listing"]
          /\ targets' = [targets EXCEPT ![e] = chosen]
          /\ seen' = [seen EXCEPT ![e] =
                         [b \in Bids |-> IF b \in chosen THEN expected[b] ELSE 0]]
          /\ UNCHANGED <<conn, inventory, rows, tagged, arrived, faults>>
          /\ contested' = contested \union
                 {b \in targets'[e] : \E f \in Batches \ {e} : b \in targets[f]}
      BY <1>7, <2>2 DEF SelectTargets, Contend
    <3>2. chosen \subseteq Bids
      BY DEF Incomplete
    <3>3. [b \in Bids |-> IF b \in chosen THEN expected[b] ELSE 0] \in Counts
      BY DEF BaseInv, TypeOK, Counts
    <3> HIDE DEF chosen
    <3>4. TypeOK'
      BY <3>1, <3>2, <3>3 DEF BaseInv, TypeOK, rows, Phases
    <3> QED
      BY <3>1, <3>4
      DEF BaseInv, TypeOK, rows, Waiting, InventoryBehind, Listed, StatusBacked
  <2> QED
    BY <2>1, <2>2
<1>8. ASSUME NEW e \in Batches, SelectFails(e)
      PROVE  BaseInv'
  BY <1>8, LeaveKeeps DEF SelectFails, Fault, Connections, BaseInv, TypeOK
<1>9. ASSUME NEW e \in Batches, BuildInventory(e)
      PROVE  BaseInv'
  <2> DEFINE matched == {b \in targets[e] : arrived[b] > 0}
  <2>1. CASE matched = {}
    BY <1>9, <2>1, LeaveKeeps DEF BuildInventory, BaseInv, TypeOK
  <2>2. CASE matched # {}
    <3>1. PICK T \in Limited(matched, MaxTargets) :
             /\ phase' = [phase EXCEPT ![e] = "merging"]
             /\ targets' = [targets EXCEPT ![e] = T]
             /\ inventory' = [inventory EXCEPT ![e] =
                                 [b \in Bids |-> IF b \in T THEN arrived[b] ELSE 0]]
             /\ UNCHANGED <<conn, seen, rows, contested, tagged, arrived, faults>>
      BY <1>9, <2>2 DEF BuildInventory
    <3>2. T \subseteq Bids /\ \A b \in T : arrived[b] > 0
      BY LimitedSubset DEF BaseInv, TypeOK
    <3>3. [b \in Bids |-> IF b \in T THEN arrived[b] ELSE 0] \in Counts
      BY DEF BaseInv, TypeOK, Counts
    <3>4. TypeOK'
      BY <3>1, <3>2, <3>3 DEF BaseInv, TypeOK, rows, Phases
    <3>5. InventoryBehind'
      BY <3>1, <3>2 DEF BaseInv, TypeOK, Counts, InventoryBehind
    <3>6. Waiting' /\ StatusBacked'
      BY <3>1 DEF BaseInv, TypeOK, rows, Waiting, StatusBacked
    <3>7. Listed'
      BY <3>1, <3>2 DEF BaseInv, TypeOK, Listed
    <3> QED
      BY <3>4, <3>5, <3>6, <3>7 DEF BaseInv
  <2> QED
    BY <2>1, <2>2
<1>10. ASSUME NEW e \in Batches, NEW b \in Bids, MergeTarget(e, b)
       PROVE  BaseInv'
  <2>1. /\ inventory[e][b] \in 0 .. MaxDocs
        /\ seen[e][b] \in 0 .. MaxDocs
        /\ inventory[e][b] > 0
        /\ inventory[e][b] <= arrived[b]
    BY <1>10 DEF BaseInv, TypeOK, Counts, MergeTarget, Listed, InventoryBehind
  <2>2. Verdict(e, b) \in {"pending", "partial", "failed", "merged"}
    <3>1. inventory[e][b] \in Nat /\ seen[e][b] \in Nat
      BY <2>1
    <3>2. (b \in FailedAttachment) \in BOOLEAN
      OBVIOUS
    <3> QED
      BY <3>1, <3>2, QualStatusRange, Zenon DEF Verdict, HasFailedAttachment
  <2>3. /\ status' = [status EXCEPT ![b] = Verdict(e, b)]
        /\ content' = [content EXCEPT ![b] = inventory[e][b]]
        /\ overwritten' = overwritten \union ({b} \intersect verified)
        /\ UNCHANGED <<expected, verified, contested, tagged, arrived, faults>>
    BY <1>10 DEF MergeTarget, ApplyMerge
  <2>4. StatusBacked'
    BY <2>1, <2>2, <2>3 DEF BaseInv, TypeOK, Counts, StatusBacked
  <2>5. TypeOK' /\ Waiting' /\ InventoryBehind' /\ Listed'
    <3>1. CASE Verdict(e, b) = "pending"
      <4>1. Leave(e, "ok")
        BY <1>10, <3>1 DEF MergeTarget
      <4>2. TypeOK'
        BY <2>1, <2>2, <2>3, <4>1
        DEF Leave, BaseInv, TypeOK, Statuses, Counts, Nothing, Phases, Connections
      <4>3. Waiting' /\ Listed'
        BY <4>1 DEF Leave, BaseInv, TypeOK, Waiting, Listed
      <4>4. InventoryBehind'
        BY <2>3, <4>1 DEF Leave, BaseInv, TypeOK, InventoryBehind, Nothing, Counts
      <4> QED
        BY <4>2, <4>3, <4>4
    <3>2. CASE Verdict(e, b) # "pending"
      <4>1. /\ targets' = [targets EXCEPT ![e] = @ \ {b}]
            /\ UNCHANGED <<phase, conn, seen, inventory>>
        BY <1>10, <3>2 DEF MergeTarget
      <4>2. TypeOK'
        BY <2>1, <2>2, <2>3, <4>1 DEF BaseInv, TypeOK, Statuses, Counts
      <4> QED
        BY <2>3, <4>1, <4>2 DEF BaseInv, TypeOK, Waiting, InventoryBehind, Listed
    <3> QED
      BY <3>1, <3>2
  <2> QED
    BY <2>4, <2>5 DEF BaseInv
<1>11. ASSUME NEW e \in Batches, NEW b \in Bids, TargetRaises(e, b)
       PROVE  BaseInv'
  BY <1>11
  DEF BaseInv, TargetRaises, Fault, rows, TypeOK, Waiting, InventoryBehind, Listed,
      StatusBacked
<1>12. ASSUME NEW e \in Batches, NEW b \in Bids, RollbackFails(e, b)
       PROVE  BaseInv'
  BY <1>12, LeaveKeeps DEF RollbackFails, Connections, BaseInv, TypeOK
<1>13. ASSUME NEW e \in Batches, Finish(e)
       PROVE  BaseInv'
  BY <1>13, LeaveKeeps DEF Finish, BaseInv, TypeOK
<1>14. ASSUME NEW e \in Batches, Dies(e)
       PROVE  BaseInv'
  BY <1>14, LeaveKeeps DEF Dies, Fault, Connections, BaseInv, TypeOK
<1>15. ASSUME NEW e \in Batches, LoseConnection(e)
       PROVE  BaseInv'
  BY <1>15
  DEF BaseInv, LoseConnection, Fault, rows, TypeOK, Waiting, InventoryBehind, Listed,
      StatusBacked, Connections
<1>16. CASE UNCHANGED vars
  BY <1>16
  DEF BaseInv, vars, rows, batch, TypeOK, Waiting, InventoryBehind, Listed, StatusBacked
<1> QED
  BY <1>1, <1>2, <1>3, <1>4, <1>5, <1>6, <1>7, <1>8, <1>9, <1>10, <1>11, <1>12,
     <1>13, <1>14, <1>15, <1>16
  DEF Next, Work, Misfortune, Environment

-------------------------------------------------------------------------------
(* RowInv: what a batch has to itself stays as it was until the batch writes it. *)

LEMMA LeaveRow ==
    ASSUME RowInv, BaseInv, NEW e \in Batches, NEW c, Leave(e, c),
           UNCHANGED <<status, content>>, contested \subseteq contested'
    PROVE  RowInv'
<1>1. \A f \in Batches : targets'[f] \subseteq targets[f]
  BY DEF BaseInv, TypeOK, Leave
<1>2. Alone'
  BY <1>1 DEF RowInv, Alone
<1>3. TargetsOpen'
  BY <1>1 DEF RowInv, TargetsOpen, Loaded, Incomplete
<1>4. TargetsBehind'
  BY <1>1 DEF RowInv, TargetsBehind, BaseInv, TypeOK, Leave
<1> QED
  BY <1>2, <1>3, <1>4 DEF RowInv

LEMMA InitRow == Init => RowInv
  BY DEF Init, RowInv, Alone, TargetsOpen, TargetsBehind

LEMMA StepRow ==
    ASSUME BaseInv, RowInv, [Next]_vars
    PROVE  RowInv'
<1> USE DEF RowInv
<1>1. ASSUME NEW b \in Bids, NEW n \in Expectations, LoadRow(b, n)
      PROVE  RowInv'
  BY <1>1
  DEF BaseInv, TypeOK, LoadRow, batch, Alone, TargetsOpen, TargetsBehind, Loaded, Incomplete
<1>2. ASSUME NEW b \in Bids, DocumentArrives(b) \/ Verify(b)
      PROVE  RowInv'
  BY <1>2
  DEF DocumentArrives, Verify, rows, batch, Alone, TargetsOpen, TargetsBehind, Loaded,
      Incomplete
<1>3. ASSUME NEW e \in Batches,
             Start(e) \/ SweepTags(e) \/ SweepFails(e) \/ LoseConnection(e)
      PROVE  RowInv'
  BY <1>3
  DEF BaseInv, TypeOK, Start, SweepTags, SweepFails, LoseConnection, rows,
      Alone, TargetsOpen, TargetsBehind, Loaded, Incomplete
<1>4. ASSUME NEW e \in Batches, SelectTargets(e)
      PROVE  RowInv'
  <2> DEFINE chosen == Incomplete \ verified
  <2>1. contested \subseteq contested' /\ UNCHANGED <<status, content>>
    BY <1>4 DEF SelectTargets, Contend, rows
  <2>2. CASE chosen = {}
    <3>1. Leave(e, "ok")
      BY <1>4, <2>2 DEF SelectTargets
    <3> QED
      BY <2>1, <3>1, LeaveRow
  <2>3. CASE chosen # {}
    <3>1. /\ targets' = [targets EXCEPT ![e] = chosen]
          /\ phase' = [phase EXCEPT ![e] = "listing"]
          /\ UNCHANGED inventory
          /\ contested' = contested \union
                 {b \in targets'[e] : \E f \in Batches \ {e} : b \in targets[f]}
      BY <1>4, <2>3 DEF SelectTargets, Contend
    <3>2. chosen \subseteq Incomplete
      OBVIOUS
    <3> HIDE DEF chosen
    <3>3. \A f \in Batches : targets'[f] = IF f = e THEN chosen ELSE targets[f]
      BY <3>1 DEF BaseInv, TypeOK
    <3>4. Alone'
      BY <3>1, <3>3 DEF Alone
    <3>5. TargetsOpen'
      BY <2>1, <3>2, <3>3 DEF TargetsOpen, Loaded, Incomplete
    <3>6. TargetsBehind'
      BY <2>1, <3>1, <3>3 DEF BaseInv, TypeOK, TargetsBehind
    <3> QED
      BY <3>4, <3>5, <3>6
  <2> QED
    BY <2>2, <2>3
<1>5. ASSUME NEW e \in Batches, SelectFails(e) \/ Finish(e) \/ Dies(e)
      PROVE  RowInv'
  <2>1. /\ \E c \in {"aborted", "closed", conn[e]} : Leave(e, c)
        /\ UNCHANGED <<status, content, contested>>
    BY <1>5 DEF SelectFails, Finish, Dies, rows
  <2> QED
    BY <2>1, LeaveRow
<1>6. ASSUME NEW e \in Batches, BuildInventory(e)
      PROVE  RowInv'
  <2> DEFINE matched == {b \in targets[e] : arrived[b] > 0}
  <2>1. UNCHANGED <<status, content, contested>>
    BY <1>6 DEF BuildInventory, rows
  <2>2. CASE matched = {}
    BY <1>6, <2>1, <2>2, LeaveRow DEF BuildInventory
  <2>3. CASE matched # {}
    <3>1. PICK T \in Limited(matched, MaxTargets) :
             /\ targets' = [targets EXCEPT ![e] = T]
             /\ phase' = [phase EXCEPT ![e] = "merging"]
             /\ inventory' = [inventory EXCEPT ![e] =
                                 [b \in Bids |-> IF b \in T THEN arrived[b] ELSE 0]]
      BY <1>6, <2>3 DEF BuildInventory
    <3>2. T \subseteq targets[e] /\ T \subseteq Bids
      BY LimitedSubset DEF BaseInv, TypeOK
    <3>3. \A f \in Batches : targets'[f] \subseteq targets[f]
      BY <3>1, <3>2 DEF BaseInv, TypeOK
    <3>4. Alone'
      BY <2>1, <3>3 DEF Alone
    <3>5. TargetsOpen'
      BY <2>1, <3>3 DEF TargetsOpen, Loaded, Incomplete
    <3>6. TargetsBehind'
      BY <2>1, <3>1, <3>2 DEF BaseInv, TypeOK, TargetsBehind, StatusBacked
    <3> QED
      BY <3>4, <3>5, <3>6
  <2> QED
    BY <2>2, <2>3
<1>7. ASSUME NEW e \in Batches, NEW b \in Bids, MergeTarget(e, b)
      PROVE  RowInv'
  <2>1. /\ status' = [status EXCEPT ![b] = Verdict(e, b)]
        /\ content' = [content EXCEPT ![b] = inventory[e][b]]
        /\ UNCHANGED contested
    BY <1>7 DEF MergeTarget, ApplyMerge
  <2>2. \A f \in Batches : targets'[f] \subseteq targets[f]
    BY <1>7 DEF BaseInv, TypeOK, MergeTarget, Leave
  <2>3. b \notin targets'[e]
    BY <1>7 DEF BaseInv, TypeOK, MergeTarget, Leave
  <2>4. \A f \in Batches : b \in targets'[f] => b \in contested
    BY <1>7, <2>2, <2>3 DEF Alone, MergeTarget
  <2>5. \A f \in Batches :
            phase'[f] = "merging" => phase[f] = "merging" /\ inventory'[f] = inventory[f]
    BY <1>7 DEF BaseInv, TypeOK, MergeTarget, Leave
  <2>6. Alone'
    BY <2>1, <2>2 DEF Alone
  <2>7. Verdict(e, b) # "absent"
    BY DEF Verdict, QualStatus
  <2>8. TargetsOpen'
    BY <2>1, <2>2, <2>4, <2>7 DEF BaseInv, TypeOK, TargetsOpen, Loaded, Incomplete
  <2>9. TargetsBehind'
    BY <2>1, <2>2, <2>4, <2>5 DEF BaseInv, TypeOK, TargetsBehind
  <2> QED
    BY <2>6, <2>8, <2>9
<1>8. ASSUME NEW e \in Batches, NEW b \in Bids, TargetRaises(e, b)
      PROVE  RowInv'
  BY <1>8
  DEF BaseInv, TypeOK, TargetRaises, rows, Alone, TargetsOpen, TargetsBehind, Loaded,
      Incomplete
<1>9. ASSUME NEW e \in Batches, NEW b \in Bids, RollbackFails(e, b)
      PROVE  RowInv'
  BY <1>9, LeaveRow DEF RollbackFails, rows
<1>10. CASE UNCHANGED vars
  BY <1>10
  DEF vars, rows, batch, Alone, TargetsOpen, TargetsBehind, Loaded, Incomplete
<1> QED
  BY <1>1, <1>2, <1>3, <1>4, <1>5, <1>6, <1>7, <1>8, <1>9, <1>10
  DEF Next, Work, Misfortune, Environment

-------------------------------------------------------------------------------
(* The theorems.                                                            *)

(* Type correctness of the merge batch, for any number of batches.          *)
THEOREM TypeCorrect == Spec => []TypeOK
<1>1. Init => BaseInv
  BY InitBase
<1>2. BaseInv /\ [Next]_vars => BaseInv'
  BY StepBase
<1>3. BaseInv => TypeOK
  BY DEF BaseInv
<1> QED
  BY <1>1, <1>2, <1>3, PTL DEF Spec

(* No status of bid_table claims more than the bucket holds, however many   *)
(* batches overlap and whatever fails in them (StatusBacked).               *)
THEOREM StatusBackedHolds == Spec => []StatusBacked
<1>1. Init => BaseInv
  BY InitBase
<1>2. BaseInv /\ [Next]_vars => BaseInv'
  BY StepBase
<1>3. BaseInv => StatusBacked
  BY DEF BaseInv
<1> QED
  BY <1>1, <1>2, <1>3, PTL DEF Spec

LEMMA StepProtected ==
    ASSUME TypeOK, [Next]_vars, NEW b \in Bids, Protected(b)
    PROVE  Protected(b)'
<1> USE DEF Protected
<1>1. ASSUME NEW x \in Bids, Environment(x)
      PROVE  Protected(b)'
  BY <1>1 DEF Environment, LoadRow, DocumentArrives, Verify, rows, batch
<1>2. ASSUME NEW e \in Batches, NEW c, Leave(e, c), UNCHANGED rows
      PROVE  Protected(b)'
  BY <1>2 DEF Leave, rows, TypeOK
<1>3. ASSUME NEW e \in Batches,
             Start(e) \/ SweepTags(e) \/ SweepFails(e) \/ LoseConnection(e)
      PROVE  Protected(b)'
  BY <1>3 DEF Start, SweepTags, SweepFails, LoseConnection, rows
<1>4. ASSUME NEW e \in Batches, SelectTargets(e)
      PROVE  Protected(b)'
  <2>1. CASE Incomplete \ verified = {}
    BY <1>2, <1>4, <2>1 DEF SelectTargets
  <2>2. CASE Incomplete \ verified # {}
    BY <1>4, <2>2 DEF SelectTargets, rows, TypeOK
  <2> QED
    BY <2>1, <2>2
<1>5. ASSUME NEW e \in Batches, SelectFails(e) \/ Finish(e) \/ Dies(e)
      PROVE  Protected(b)'
  <2>1. (\E c \in {"aborted", "closed", conn[e]} : Leave(e, c)) /\ UNCHANGED rows
    BY <1>5 DEF SelectFails, Finish, Dies
  <2> QED
    BY <1>2, <2>1
<1>6. ASSUME NEW e \in Batches, BuildInventory(e)
      PROVE  Protected(b)'
  <2> DEFINE matched == {x \in targets[e] : arrived[x] > 0}
  <2>1. CASE matched = {}
    BY <1>2, <1>6, <2>1 DEF BuildInventory
  <2>2. CASE matched # {}
    <3>1. PICK T \in Limited(matched, MaxTargets) :
             targets' = [targets EXCEPT ![e] = T] /\ UNCHANGED rows
      BY <1>6, <2>2 DEF BuildInventory
    <3>2. T \subseteq targets[e]
      BY LimitedSubset
    <3> QED
      BY <3>1, <3>2 DEF rows, TypeOK
  <2> QED
    BY <2>1, <2>2
<1>7. ASSUME NEW e \in Batches, NEW x \in Bids, MergeTarget(e, x)
      PROVE  Protected(b)'
  <2>1. /\ x # b
        /\ overwritten' = overwritten \union ({x} \intersect verified)
        /\ verified' = verified
    BY <1>7 DEF MergeTarget, ApplyMerge
  <2>2. \A f \in Batches : targets'[f] \subseteq targets[f]
    BY <1>7 DEF MergeTarget, Leave, TypeOK
  <2> QED
    BY <2>1, <2>2
<1>8. ASSUME NEW e \in Batches, NEW x \in Bids, TargetRaises(e, x)
      PROVE  Protected(b)'
  BY <1>8 DEF TargetRaises, rows, TypeOK
<1>9. ASSUME NEW e \in Batches, NEW x \in Bids, RollbackFails(e, x)
      PROVE  Protected(b)'
  BY <1>2, <1>9 DEF RollbackFails
<1>10. CASE UNCHANGED vars
  BY <1>10 DEF vars, rows, batch
<1> QED
  BY <1>1, <1>3, <1>4, <1>5, <1>6, <1>7, <1>8, <1>9, <1>10
  DEF Next, Work, Misfortune

(* A row a person had checked when no batch held it is never written again, *)
(* for any number of overlapping batches (ProtectedStays).                  *)
THEOREM ProtectedStaysHolds == Spec => ProtectedStays
<1>1. Init => BaseInv
  BY InitBase
<1>2. BaseInv /\ [Next]_vars => BaseInv'
  BY StepBase
<1>3. BaseInv /\ [Next]_vars => [\A b \in Bids : Protected(b) => Protected(b)']_vars
  BY StepProtected DEF BaseInv
<1> QED
  BY <1>1, <1>2, <1>3, PTL DEF Spec, ProtectedStays

(* Nothing of a set, or one element: at most one.                           *)
LEMMA AtMostOne ==
    ASSUME NEW S, NEW x, S \subseteq {x}
    PROVE  Cardinality(S) <= 1
<1>1. CASE S = {}
  BY <1>1, FS_EmptySet
<1>2. CASE S = {x}
  BY <1>2, FS_Singleton
<1> QED
  BY <1>1, <1>2

(* A verdict of "pending" on a listed bid comes from an estimate of 0.       *)
LEMMA PendingMeansZero ==
    ASSUME BaseInv, NEW e \in Batches, NEW b \in targets[e],
           phase[e] = "merging", Verdict(e, b) = "pending"
    PROVE  seen[e][b] = 0
<1>1. /\ inventory[e][b] \in Nat /\ inventory[e][b] > 0
      /\ seen[e][b] \in Nat
  BY BoundsAssumption DEF BaseInv, TypeOK, Counts, Listed
<1>2. (b \in FailedAttachment) \in BOOLEAN
  OBVIOUS
<1>3. ~(seen[e][b] > 0)
  BY <1>1, <1>2, QualStatusRange, Zenon DEF Verdict, HasFailedAttachment
<1> QED
  BY <1>1, <1>3

LEMMA StepIsolated ==
    ASSUME BaseInv, [Next]_vars, NEW e \in Batches, KeepsGoing(e)
    PROVE  LetsGoOfOne(e) \/ EndedByZero(e)
<1> SUFFICES ASSUME ~EndedByZero(e)
             PROVE  \E x : targets[e] \ targets'[e] \subseteq {x}
  BY AtMostOne DEF LetsGoOfOne
<1> USE DEF KeepsGoing
<1>1. TypeOK
  BY DEF BaseInv
<1>2. CASE UNCHANGED targets
  BY <1>2
<1>3. ASSUME NEW f \in Batches, f # e, Work(f) \/ Misfortune(f)
      PROVE  targets'[e] = targets[e]
  <2>1. UNCHANGED targets \/ \E T : targets' = [targets EXCEPT ![f] = T]
    BY <1>3 DEF Work, Misfortune, Start, SweepTags, SweepFails, SelectTargets, SelectFails,
        BuildInventory, MergeTarget, TargetRaises, RollbackFails, Finish, Dies,
        LoseConnection, Leave, batch
  <2> QED
    BY <1>1, <1>3, <2>1 DEF TypeOK
<1>4. ASSUME NEW c, c # "ok", Leave(e, c)
      PROVE  FALSE
  BY <1>1, <1>4 DEF Leave, TypeOK
<1>5. ASSUME NEW b \in Bids, MergeTarget(e, b)
      PROVE  targets'[e] = targets[e] \ {b}
  <2>1. CASE Verdict(e, b) = "pending"
    <3>1. b \in targets[e] /\ seen[e][b] = 0
      BY <1>5, <2>1, PendingMeansZero DEF MergeTarget
    <3>2. status'[b] = "pending" /\ content'[b] = inventory[e][b]
      BY <1>1, <1>5, <2>1 DEF MergeTarget, ApplyMerge, TypeOK, Counts
    <3> QED
      BY <3>1, <3>2 DEF EndedByZero
  <2>2. CASE Verdict(e, b) # "pending"
    BY <1>1, <1>5, <2>2 DEF MergeTarget, TypeOK
  <2> QED
    BY <2>1, <2>2
<1>6. ASSUME NEW b \in Bids, TargetRaises(e, b)
      PROVE  targets'[e] = targets[e] \ {b}
  BY <1>1, <1>6 DEF TargetRaises, TypeOK
<1>7. CASE Finish(e)
  BY <1>7 DEF Finish
<1>8. CASE Dies(e) \/ LoseConnection(e) \/ \E b \in Bids : RollbackFails(e, b)
  BY <1>1, <1>4, <1>8 DEF Dies, LoseConnection, RollbackFails, TypeOK
<1>9. ~(\/ Start(e) \/ SweepTags(e) \/ SweepFails(e) \/ SelectFails(e)
        \/ SelectTargets(e) \/ BuildInventory(e))
  BY DEF Start, SweepTags, SweepFails, SelectFails, SelectTargets, BuildInventory
<1>10. ASSUME Work(e) \/ Misfortune(e)
       PROVE  \E x : targets[e] \ targets'[e] \subseteq {x}
  BY <1>5, <1>6, <1>7, <1>8, <1>9, <1>10 DEF Work, Misfortune
<1>11. ASSUME NEW b \in Bids, Environment(b)
       PROVE  UNCHANGED targets
  BY <1>11 DEF Environment, LoadRow, DocumentArrives, Verify, batch
<1>12. UNCHANGED vars => UNCHANGED targets
  BY DEF vars, batch
<1> QED
  BY <1>2, <1>3, <1>10, <1>11, <1>12 DEF Next

(* A bid that fails keeps the batch from none of its other targets; only a  *)
(* bid with documents that was selected with an estimate of 0 ends it       *)
(* (OnlyZeroEndsBatch), whatever the estimates and however many batches.    *)
THEOREM OnlyZeroEndsBatchHolds == Spec => OnlyZeroEndsBatch
<1>1. Init => BaseInv
  BY InitBase
<1>2. BaseInv /\ [Next]_vars => BaseInv'
  BY StepBase
<1>3. BaseInv /\ [Next]_vars =>
        [\A e \in Batches : KeepsGoing(e) => LetsGoOfOne(e) \/ EndedByZero(e)]_vars
  BY StepIsolated
<1> QED
  BY <1>1, <1>2, <1>3, PTL DEF Spec, OnlyZeroEndsBatch

LEMMA StepRows ==
    ASSUME BaseInv, BaseInv', RowInv, [Next]_vars
    PROVE  [Rows!Next]_<<status, content, contested>>
<1>1. ASSUME NEW b \in Bids, NEW n \in Expectations, LoadRow(b, n)
      PROVE  [Rows!Next]_<<status, content, contested>>
  <2>1. CASE status[b] = "absent"
    BY <1>1, <2>1 DEF LoadRow, Rows!Next, Rows!Load
  <2>2. CASE status[b] # "absent"
    BY <1>1, <2>2 DEF LoadRow, BaseInv, TypeOK
  <2> QED
    BY <2>1, <2>2
<1>2. ASSUME NEW b \in Bids, DocumentArrives(b) \/ Verify(b)
      PROVE  UNCHANGED <<status, content, contested>>
  BY <1>2 DEF DocumentArrives, Verify, rows
<1>3. ASSUME NEW e \in Batches, NEW b \in Bids, MergeTarget(e, b)
      PROVE  Rows!Next
  <2>1. Verdict(e, b) \in Rows!Statuses \ {"absent"}
    BY DEF Verdict, QualStatus, Rows!Statuses
  <2>2. inventory[e][b] \in 1 .. MaxDocs
    BY <1>3, BoundsAssumption DEF MergeTarget, BaseInv, TypeOK, Counts, Listed
  <2>3. status[b] # "absent"
    BY <1>3 DEF MergeTarget, RowInv, TargetsOpen, Loaded
  <2>4. b \notin contested => status[b] # "merged" /\ inventory[e][b] >= content[b]
    BY <1>3, <2>2
    DEF MergeTarget, BaseInv, TypeOK, Counts, RowInv, TargetsOpen, TargetsBehind, Incomplete
  <2>5. /\ status' = [status EXCEPT ![b] = Verdict(e, b)]
        /\ content' = [content EXCEPT ![b] = inventory[e][b]]
        /\ UNCHANGED contested
    BY <1>3 DEF MergeTarget, ApplyMerge
  <2>6. Rows!Merge(b)
    BY <2>1, <2>2, <2>3, <2>4, <2>5 DEF Rows!Merge
  <2> QED
    BY <2>6 DEF Rows!Next
<1>4. ASSUME NEW e \in Batches, SelectTargets(e)
      PROVE  Rows!Next
  <2>1. /\ contested' = contested \union
               {b \in targets'[e] : \E f \in Batches \ {e} : b \in targets[f]}
        /\ UNCHANGED <<status, content>>
    BY <1>4 DEF SelectTargets, Contend, rows
  <2>2. targets'[e] \subseteq Bids
    BY DEF BaseInv, TypeOK
  <2> QED
    BY <2>1, <2>2 DEF Rows!Next, Rows!Contend
<1>5. ASSUME NEW e \in Batches,
             \/ Start(e) \/ SweepTags(e) \/ SweepFails(e) \/ SelectFails(e)
             \/ BuildInventory(e) \/ Finish(e) \/ Dies(e) \/ LoseConnection(e)
      PROVE  UNCHANGED <<status, content, contested>>
  BY <1>5
  DEF Start, SweepTags, SweepFails, SelectFails, BuildInventory, Finish, Dies,
      LoseConnection, rows
<1>6. ASSUME NEW e \in Batches, NEW b \in Bids, TargetRaises(e, b) \/ RollbackFails(e, b)
      PROVE  UNCHANGED <<status, content, contested>>
  BY <1>6 DEF TargetRaises, RollbackFails, rows
<1>7. CASE UNCHANGED vars
  BY <1>7 DEF vars, rows
<1> QED
  BY <1>1, <1>2, <1>3, <1>4, <1>5, <1>6, <1>7 DEF Next, Work, Misfortune, Environment

(* The batches implement BidRow, overlapping or not and whatever the        *)
(* estimates: rows only gain documents and a merged row is final, until two *)
(* batches have had the bid in hand at a time.                              *)
THEOREM Refinement == Spec => ImplementsBidRow
<1> DEFINE Inv == BaseInv /\ RowInv
<1>1. Init => Inv /\ Rows!Init
  BY InitBase, InitRow DEF Init, Rows!Init, Nothing
<1>2. Inv /\ [Next]_vars => Inv'
  BY StepBase, StepRow
<1>3. Inv /\ Inv' /\ [Next]_vars => [Rows!Next]_<<status, content, contested>>
  BY StepRows
<1> HIDE DEF Inv
<1> QED
  BY <1>1, <1>2, <1>3, PTL DEF Spec, ImplementsBidRow, Rows!Spec


-------------------------------------------------------------------------------
(* The fields of a row.  First, what is least and what is best.              *)

LEMMA Least ==
    ASSUME NEW S, S \subseteq Nat, S # {}
    PROVE  Min(S) \in S /\ \A n \in S : Min(S) <= n
  <1>1. PICK n \in S : \A m \in S : ~(<<m, n>> \in OpToRel(<, Nat))
    BY NatLessThanWellFounded, WFMin, Zenon
  <1>2. ASSUME NEW m \in S PROVE n <= m
    <2>1. ~(m < n)
      <3>1. <<m, n>> \in Nat \X Nat /\ <<m, n>>[1] = m /\ <<m, n>>[2] = n
        OBVIOUS
      <3> QED BY <1>1, <3>1, Zenon DEF OpToRel
    <2> QED BY <2>1
  <1> QED BY <1>2 DEF Min

\* Of finitely many things compared two by two one is as good as all others.
LEMMA BestExists ==
    ASSUME NEW S, IsFiniteSet(S), S # {}, NEW R,
           \A i, j \in S : <<i, j>> \in R \/ <<j, i>> \in R,
           \A i, j, k \in S : <<i, j>> \in R /\ <<j, k>> \in R => <<i, k>> \in R
    PROVE  \E i \in S : \A j \in S : <<i, j>> \in R
  <1> DEFINE Better(i) == {j \in S : <<i, j>> \notin R}
             sizes == {Cardinality(Better(i)) : i \in S}
  <1>1. \A i \in S : IsFiniteSet(Better(i)) /\ Cardinality(Better(i)) \in Nat
    BY FS_Subset, FS_CardinalityType
  <1>2. sizes \subseteq Nat /\ sizes # {}
    <2> HIDE DEF Better
    <2> QED BY <1>1
  <1>3. PICK i \in S : \A j \in S : Cardinality(Better(i)) <= Cardinality(Better(j))
    <2>1. PICK least : least \in sizes /\ \A n \in sizes : least <= n
      <3> HIDE DEF sizes
      <3> QED BY <1>2, Least
    <2> HIDE DEF Better
    <2> QED BY <2>1
  <1>4. Better(i) = {}
    <2> SUFFICES ASSUME NEW j \in Better(i) PROVE FALSE
      OBVIOUS
    <2>1. j \in S /\ <<i, j>> \notin R /\ <<j, i>> \in R /\ <<j, j>> \in R
      OBVIOUS
    <2>2. Better(j) \subseteq Better(i) /\ Better(j) # Better(i)
      BY <2>1
    <2>3. Cardinality(Better(j)) < Cardinality(Better(i))
      <3> HIDE DEF Better
      <3>1. IsFiniteSet(Better(i)) /\ Better(j) \in SUBSET Better(i) /\ Better(j) # Better(i)
        BY <1>1, <2>2
      <3>2. Cardinality(Better(i)) \in Nat /\ Cardinality(Better(j)) \in Nat
        BY <1>1, <2>1
      <3> QED BY <3>1, <3>2, FS_Subset
    <2> HIDE DEF Better
    <2> QED BY <1>1, <1>3, <2>1, <2>3
  <1> QED BY <1>4

LEMMA FirstPlace ==
    ASSUME NEW S, S \subseteq Nat \X Nat, S # {}
    PROVE  \E p \in S : \A q \in S : ~Before(q, p)
  <1> DEFINE documents == {p[1] : p \in S}
  <1>1. documents \subseteq Nat /\ documents # {}
    OBVIOUS
  <1>2. PICK i \in documents : \A j \in documents : i <= j
    <2> HIDE DEF documents
    <2> QED BY <1>1, Least
  <1> DEFINE positions == {p[2] : p \in {r \in S : r[1] = i}}
  <1>3. positions \subseteq Nat /\ positions # {}
    OBVIOUS
  <1>4. PICK k \in positions : \A n \in positions : k <= n
    <2> HIDE DEF positions
    <2> QED BY <1>3, Least
  <1>5. PICK p \in S : p[1] = i /\ p[2] = k
    OBVIOUS
  <1>6. ASSUME NEW q \in S PROVE ~Before(q, p)
    <2>1. q[1] \in documents /\ i <= q[1] /\ q[1] \in Nat /\ i \in Nat
      BY <1>1, <1>2
    <2>2. q[1] = i => q[2] \in positions /\ k <= q[2] /\ q[2] \in Nat /\ k \in Nat
      BY <1>3, <1>4
    <2> QED BY <1>5, <2>1, <2>2 DEF Before
  <1> QED BY <1>6

\* The places of a listing.
Pairs(S) == S \subseteq Nat \X Nat

\* The first of those with a key is kept.
LEMMA FirstKept ==
    ASSUME NEW S, Pairs(S), NEW key, NEW p \in S
    PROVE  \E q \in S : /\ key[q] = key[p]
                        /\ \A r \in S : Before(r, q) => key[r] # key[q]
  <1> DEFINE same == {q \in S : key[q] = key[p]}
  <1>1. same \subseteq Nat \X Nat /\ same # {}
    BY DEF Pairs
  <1>2. PICK q \in same : \A r \in same : ~Before(r, q)
    <2> HIDE DEF same
    <2> QED BY <1>1, FirstPlace
  <1> QED BY <1>2

-------------------------------------------------------------------------------
(* Documents and lists of them.                                             *)

Numbered(documents) ==
    /\ documents = [i \in DOMAIN documents |-> documents[i]]
    /\ IsFiniteSet(DOMAIN documents) /\ DOMAIN documents \subseteq Nat
    /\ \A i \in DOMAIN documents, f \in ListFields : DOMAIN documents[i].value[f] \subseteq Nat

LEMMA PlacesArePairs ==
    ASSUME NEW documents, Numbered(documents), NEW f \in ListFields
    PROVE  Pairs(Places(documents, f))
  BY DEF Numbered, Places, Pairs

LEMMA PlacesAre ==
    ASSUME NEW documents, NEW f
    PROVE  \A p : p \in Places(documents, f) <=>
               \E i \in DOMAIN documents : \E k \in DOMAIN documents[i].value[f] : p = <<i, k>>
  BY DEF Places

LEMMA ObjectsKept ==
    ASSUME NEW documents, Numbered(documents), NEW f \in ListFields
    PROVE  /\ DOMAIN MergeObjects(documents, f) \subseteq Places(documents, f)
           /\ \A q \in DOMAIN MergeObjects(documents, f) :
                MergeObjects(documents, f)[q] = AllItems(documents, f)[q]
           /\ \A p \in Places(documents, f) : \E q \in DOMAIN MergeObjects(documents, f) :
                KeyOf(AllItems(documents, f)[q]) = KeyOf(AllItems(documents, f)[p])
  <1>1. PICK items : items = AllItems(documents, f)
    OBVIOUS
  <1>2. DOMAIN items = Places(documents, f)
    BY <1>1 DEF AllItems
  <1>3. PICK kept : kept = {p \in DOMAIN items :
                              \A q \in DOMAIN items : Before(q, p) => KeyOf(items[q]) # KeyOf(items[p])}
    OBVIOUS
  <1>4. MergeObjects(documents, f) = [p \in kept |-> items[p]]
    BY <1>1, <1>3 DEF MergeObjects, FirstOfEachKey, Restrict
  <1>5. ASSUME NEW p \in Places(documents, f)
        PROVE  \E q \in kept : KeyOf(items[q]) = KeyOf(items[p])
    <2>1. PICK key : key = [q \in Places(documents, f) |-> KeyOf(items[q])]
      OBVIOUS
    <2>2. PICK q \in Places(documents, f) :
              /\ key[q] = key[p]
              /\ \A r \in Places(documents, f) : Before(r, q) => key[r] # key[q]
      <3>1. PICK places : places = Places(documents, f)
        OBVIOUS
      <3>2. Pairs(places) /\ p \in places
        BY <3>1, PlacesArePairs
      <3>3. \E q \in places : /\ key[q] = key[p]
                            /\ \A r \in places : Before(r, q) => key[r] # key[q]
        BY <3>2, FirstKept
      <3> QED BY <3>1, <3>3
    <2>3. \A r \in Places(documents, f) : key[r] = KeyOf(items[r])
      BY <2>1
    <2>4. q \in kept
      BY <1>2, <1>3, <2>2, <2>3
    <2> QED BY <2>2, <2>3, <2>4
  <1> QED BY <1>1, <1>2, <1>3, <1>4, <1>5

LEMMA StringsKept ==
    ASSUME NEW documents, Numbered(documents), NEW f \in ListFields,
           NEW p \in Places(documents, f)
    PROVE  AllItems(documents, f)[p] \in Range(MergeStrings(documents, f))
  <1>1. PICK items : items = AllItems(documents, f)
    OBVIOUS
  <1>2. DOMAIN items = Places(documents, f)
    BY <1>1 DEF AllItems
  <1>3. PICK kept : kept = {r \in DOMAIN items :
                              \A q \in DOMAIN items : Before(q, r) => items[q] # items[r]}
    OBVIOUS
  <1>4. MergeStrings(documents, f) = [r \in kept |-> items[r]]
    BY <1>1, <1>3 DEF MergeStrings, FirstOfEachKey, Restrict
  <1>5. PICK q \in Places(documents, f) :
            /\ items[q] = items[p]
            /\ \A r \in Places(documents, f) : Before(r, q) => items[r] # items[q]
    <2>1. PICK places : places = Places(documents, f)
      OBVIOUS
    <2>2. Pairs(places) /\ p \in places
      BY <2>1, PlacesArePairs
    <2>3. \E q \in places : /\ items[q] = items[p]
                          /\ \A r \in places : Before(r, q) => items[r] # items[q]
      BY <2>2, FirstKept
    <2> QED BY <2>1, <2>3
  <1>6. q \in kept
    BY <1>2, <1>3, <1>5
  <1> QED BY <1>1, <1>4, <1>5, <1>6 DEF Range

\* The columns of a merged row.
LEMMA MergeIs ==
    ASSUME NEW documents
    PROVE  /\ \A f \in ScalarFields : Merge(documents).value[f] = MergeScalar(documents, f)
           /\ Merge(documents).value["performance_reqs"]
                  = MergeObjects(documents, "performance_reqs")
           /\ Merge(documents).value["required_certs"]
                  = MergeStrings(documents, "required_certs")
           /\ Merge(documents).conflicts
                  = {f \in ScalarFields : ScalarConflict(documents, f)}
                    \union {f \in {"performance_reqs"} : ObjectConflicts(documents, f) # {}}
           /\ \A f \in DomainFields : Merge(documents).evidence[f] = EvidenceOf(documents, f)
           /\ Merge(documents).meta = Meta(documents)
  <1>1. ScalarFields \subseteq DomainFields
    BY DEF DomainFields
  <1>2. "performance_reqs" \in DomainFields \ ScalarFields
        /\ "required_certs" \in DomainFields \ ScalarFields
    BY DEF DomainFields, ListFields, ScalarFields, EnumFields, BoolFields, UncheckedFields
  <1> QED BY <1>1, <1>2 DEF Merge

\* A scalar of the row is that of the first document that has one.
LEMMA ScalarKept ==
    ASSUME NEW documents, Numbered(documents), NEW f
    PROVE  /\ NonNull(documents, f) = {} => MergeScalar(documents, f) = Null
           /\ NonNull(documents, f) # {} =>
                /\ Min(NonNull(documents, f)) \in NonNull(documents, f)
                /\ MergeScalar(documents, f) = documents[Min(NonNull(documents, f))].value[f]
                /\ MergeScalar(documents, f) # Null
  <1>1. NonNull(documents, f) \subseteq Nat
    BY DEF NonNull, Numbered
  <1>2. NonNull(documents, f) # {} => Min(NonNull(documents, f)) \in NonNull(documents, f)
    BY <1>1, Least
  <1>3. \A i \in NonNull(documents, f) : documents[i].value[f] # Null
    BY DEF NonNull
  <1> QED BY <1>2, <1>3 DEF MergeScalar

\* Of two objects with one key that differ one is missed.
LEMMA ObjectsMissed ==
    ASSUME NEW documents, Numbered(documents), ~Raises(documents),
           NEW p \in Places(documents, "performance_reqs"),
           NEW q \in Places(documents, "performance_reqs"),
           LET items == AllItems(documents, "performance_reqs")
           IN  KeyOf(items[p]) = KeyOf(items[q]) /\ items[p] # items[q]
    PROVE  ObjectConflicts(documents, "performance_reqs") # {}
  <1> DEFINE f == "performance_reqs"
  <1>1. PICK items : items = AllItems(documents, f)
    OBVIOUS
  <1>2. DOMAIN items = Places(documents, f)
    BY <1>1 DEF AllItems
  <1>3. f \in ListFields
    BY DEF ListFields
  <1>4. PICK kept : kept = MergeObjects(documents, f)
    OBVIOUS
  <1>5. PICK k \in DOMAIN kept : KeyOf(items[k]) = KeyOf(items[p])
    BY <1>1, <1>3, <1>4, ObjectsKept
  <1>6. k \in Places(documents, f) /\ kept[k] = items[k]
    BY <1>1, <1>3, <1>4, ObjectsKept
  <1>7. ASSUME NEW r \in Places(documents, f), IsRecord(items[r]) PROVE items[r].key # Odd
    <2>1. PICK i \in DOMAIN documents : \E n \in DOMAIN documents[i].value[f] : r = <<i, n>>
      BY PlacesAre
    <2>2. items[r] \in Range(documents[i].value[f])
      BY <1>1, <2>1 DEF AllItems, Range
    <2> QED BY <1>7, <2>2 DEF Raises
  <1>8. IsRecord(items[p]) /\ IsRecord(items[q])
    BY <1>1, <1>7 DEF KeyOf, IsRecord
  <1>9. ASSUME NEW r \in {p, q}, items[r] # items[k] PROVE ObjectConflicts(documents, f) # {}
    <2>1. items[r] \in Range(items) /\ IsRecord(items[r]) /\ KeyOf(items[k]) = KeyOf(items[r])
      BY <1>1, <1>2, <1>5, <1>8 DEF Range
    <2>2. items[r] \in ObjectConflicts(documents, f)
      BY <1>1, <1>4, <1>6, <1>9, <2>1 DEF ObjectConflicts
    <2> QED BY <2>2
  <1> QED BY <1>1, <1>9

-------------------------------------------------------------------------------
(* A further document.                                                      *)

LEMMA MoreDocuments ==
    ASSUME NEW documents, Numbered(documents), ~Raises(documents), DOMAIN documents # {},
           NEW more, Numbered(more), ~Raises(more),
           DOMAIN documents \subseteq DOMAIN more,
           \A i \in DOMAIN documents : more[i] = documents[i]
    PROVE  /\ \A f \in ScalarFields :
                Merge(documents).value[f] # Null => Merge(more).value[f] # Null
           /\ {KeyOf(item) : item \in Range(Merge(documents).value["performance_reqs"])}
                \subseteq {KeyOf(item) : item \in Range(Merge(more).value["performance_reqs"])}
           /\ Merge(documents).conflicts \subseteq Merge(more).conflicts
           /\ Merge(more).meta.notFound \subseteq Merge(documents).meta.notFound
  <1> DEFINE o == "performance_reqs"
  <1>o. o \in ListFields
    BY DEF ListFields
  <1>1. ASSUME NEW f \in ScalarFields, MergeScalar(documents, f) # Null
        PROVE  MergeScalar(more, f) # Null
    <2>1. NonNull(documents, f) # {}
      BY <1>1, ScalarKept
    <2>2. NonNull(more, f) # {}
      BY <2>1 DEF NonNull
    <2> QED BY <2>2, ScalarKept
  <1>2. PICK items : items = AllItems(documents, o)
    OBVIOUS
  <1>3. PICK further : further = AllItems(more, o)
    OBVIOUS
  <1>4. /\ Places(documents, o) \subseteq Places(more, o)
        /\ \A p \in Places(documents, o) : further[p] = items[p]
    <2>1. ASSUME NEW p \in Places(documents, o)
          PROVE  p \in Places(more, o) /\ further[p] = items[p]
      <3>1. PICK i \in DOMAIN documents : \E k \in DOMAIN documents[i].value[o] : p = <<i, k>>
        BY PlacesAre
      <3>2. PICK k \in DOMAIN documents[i].value[o] : p = <<i, k>>
        BY <3>1
      <3>3. i \in DOMAIN more /\ more[i] = documents[i]
        OBVIOUS
      <3>4. p \in Places(more, o)
        BY <3>2, <3>3, PlacesAre
      <3>5. items[p] = documents[i].value[o][k] /\ further[p] = more[i].value[o][k]
        BY <1>2, <1>3, <3>2, <3>4 DEF AllItems
      <3> QED BY <3>3, <3>4, <3>5
    <2> QED BY <2>1
  <1>5. ASSUME NEW item \in Range(MergeObjects(documents, o))
        PROVE  \E other \in Range(MergeObjects(more, o)) : KeyOf(other) = KeyOf(item)
    <2>1. PICK p \in DOMAIN MergeObjects(documents, o) : item = MergeObjects(documents, o)[p]
      BY DEF Range
    <2>2. p \in Places(documents, o) /\ item = items[p]
      BY <1>o, <1>2, <2>1, ObjectsKept
    <2>3. p \in Places(more, o) /\ item = further[p]
      BY <1>4, <2>2
    <2>4. PICK q \in DOMAIN MergeObjects(more, o) : KeyOf(further[q]) = KeyOf(further[p])
      BY <1>o, <1>3, <2>3, ObjectsKept
    <2>5. MergeObjects(more, o)[q] = further[q]
      BY <1>o, <1>3, ObjectsKept
    <2> QED BY <2>3, <2>4, <2>5 DEF Range
  <1>6. ASSUME NEW f \in ScalarFields, ScalarConflict(documents, f)
        PROVE  ScalarConflict(more, f)
    BY <1>6 DEF ScalarConflict, NonNull
  <1>7. ASSUME ObjectConflicts(documents, o) # {} PROVE ObjectConflicts(more, o) # {}
    <2>1. PICK item \in Range(items), q \in DOMAIN MergeObjects(documents, o) :
              KeyOf(MergeObjects(documents, o)[q]) = KeyOf(item)
              /\ MergeObjects(documents, o)[q] # item
      BY <1>2, <1>7 DEF ObjectConflicts
    <2>2. PICK p \in Places(documents, o) : item = items[p]
      BY <1>2 DEF Range, AllItems
    <2>3. q \in Places(documents, o) /\ MergeObjects(documents, o)[q] = items[q]
      BY <1>o, <1>2, ObjectsKept
    <2>4. /\ p \in Places(more, o) /\ q \in Places(more, o)
          /\ KeyOf(further[p]) = KeyOf(further[q]) /\ further[p] # further[q]
      BY <1>4, <2>1, <2>2, <2>3
    <2> QED BY <1>3, <2>4, ObjectsMissed
  <1>8. NotFound(more) \subseteq NotFound(documents)
    BY DEF NotFound
  <1>9. Merge(documents).conflicts \subseteq Merge(more).conflicts
    <2>1. ASSUME NEW f \in Merge(documents).conflicts PROVE f \in Merge(more).conflicts
      BY <1>6, <1>7, MergeIs
    <2> QED BY <2>1
  <1>10. Merge(more).meta.notFound \subseteq Merge(documents).meta.notFound
    <2>1. /\ Meta(more).notFound = NotFound(more)
          /\ Meta(documents).notFound = NotFound(documents)
      BY DEF Meta
    <2>2. Merge(more).meta = Meta(more) /\ Merge(documents).meta = Meta(documents)
      BY MergeIs, Zenon
    <2> QED BY <1>8, <2>1, <2>2
  <1> QED BY <1>1, <1>5, <1>9, <1>10, MergeIs

-------------------------------------------------------------------------------
(* A document and its evidence.                                             *)

LEMMA DocumentIs ==
    ASSUME NEW answer
    PROVE  /\ \A f \in DomainFields :
                Document(answer).value[f] =
                    IF f \in GroundedFields(KeepGrounded(answer.evidence))
                    THEN answer.value[f] ELSE NoValue(f)
           /\ Document(answer).evidence = KeepGrounded(answer.evidence)
           /\ Document(answer).demoted
                = Cardinality({f \in DomainFields : answer.value[f] # Document(answer).value[f]})
  <1>1. PICK evidence : evidence = KeepGrounded(answer.evidence)
    OBVIOUS
  <1>2. /\ Document(answer).value = Demote(answer.value, evidence)
        /\ Document(answer).evidence = evidence
        /\ Document(answer).demoted = Cardinality(Demoted(answer.value, evidence))
    BY <1>1 DEF Document
  <1>3. \A f \in DomainFields :
            Document(answer).value[f] =
                IF f \in GroundedFields(evidence) THEN answer.value[f] ELSE NoValue(f)
    BY <1>2 DEF Demote
  <1>4. Demoted(answer.value, evidence)
          = {f \in DomainFields : answer.value[f] # Document(answer).value[f]}
    BY <1>3 DEF Demoted
  <1> QED BY <1>1, <1>2, <1>3, <1>4

LEMMA EvidenceKept ==
    ASSUME NEW evidence, NEW f \in GroundedFields(KeepGrounded(evidence))
    PROVE  \E k \in DOMAIN KeepGrounded(evidence) :
              /\ KeepGrounded(evidence)[k].field = f
              /\ k \in DOMAIN evidence
              /\ evidence[k].field = f /\ evidence[k].grounded
  <1>1. PICK kept : kept = {k \in DOMAIN evidence : evidence[k].grounded}
    OBVIOUS
  <1>2. KeepGrounded(evidence) = [k \in kept |-> evidence[k]]
    BY <1>1 DEF KeepGrounded, Restrict
  <1> QED BY <1>1, <1>2 DEF GroundedFields

\* What is no null or no empty list has evidence.
LEMMA ValueHasEvidence ==
    ASSUME NEW answer, NEW f \in DomainFields, Document(answer).value[f] # NoValue(f)
    PROVE  /\ f \in GroundedFields(Document(answer).evidence)
           /\ Document(answer).value[f] = answer.value[f]
  BY DocumentIs

LEMMA ListingIs ==
    ASSUME NEW S
    PROVE  /\ DOMAIN Listing(S) = S
           /\ \A i \in S : Listing(S)[i] = Document(answers[i])
  BY DEF Listing

LEMMA ListingNumbered ==
    ASSUME answers \in Inputs, NEW S, S \subseteq DOMAIN answers
    PROVE  Numbered(Listing(S))
  <1>1. IsFiniteSet(DOMAIN answers) /\ DOMAIN answers \subseteq Nat
    BY AnswersAssumption
  <1>2. IsFiniteSet(S) /\ S \subseteq Nat
    BY <1>1, FS_Subset
  <1>3. ASSUME NEW i \in S, NEW f \in ListFields
        PROVE  DOMAIN Document(answers[i]).value[f] \subseteq Nat
    <2>1. f \in DomainFields
      BY DEF DomainFields
    <2>2. CASE Document(answers[i]).value[f] = NoValue(f)
      BY <2>2 DEF NoValue
    <2>3. CASE Document(answers[i]).value[f] # NoValue(f)
      <3>1. Document(answers[i]).value[f] = answers[i].value[f]
        BY <2>1, <2>3, ValueHasEvidence
      <3>2. PICK list : list = answers[i].value[f]
        OBVIOUS
      <3>3. list \in Seq(Range(list))
        BY <3>2, AnswersAssumption
      <3>4. DOMAIN list \subseteq Nat
        BY <3>3
      <3> QED BY <3>1, <3>2, <3>4
    <2> QED BY <2>2, <2>3
  <1> QED BY <1>2, <1>3, ListingIs DEF Numbered, Listing

-------------------------------------------------------------------------------
(* The row is merged from the documents that were there.                    *)

FieldsInv ==
    /\ answers \in Inputs
    /\ stored \subseteq DOMAIN answers
    /\ included \subseteq stored
    /\ row # Null => /\ included # {}
                     /\ ~Raises(Listing(included))
                     /\ row = Merge(Listing(included))

LEMMA FieldsInitial == FieldsInit => FieldsInv
  BY DEF FieldsInit, FieldsInv

LEMMA FieldsStep == FieldsInv /\ [FieldsNext]_fieldsVars => FieldsInv'
  <1> SUFFICES ASSUME FieldsInv, [FieldsNext]_fieldsVars PROVE FieldsInv'
    OBVIOUS
  <1>1. ASSUME UNCHANGED <<answers, row, included>>, stored \subseteq stored',
               stored' \subseteq DOMAIN answers
        PROVE  FieldsInv'
    BY <1>1 DEF FieldsInv, Listing
  <1>2. CASE ProcessTarget
    BY <1>2 DEF ProcessTarget, FieldsInv, Listing
  <1>3. ASSUME NEW i \in DOMAIN answers, Store(i) PROVE FieldsInv'
    BY <1>1, <1>3 DEF Store, FieldsInv
  <1>4. CASE UNCHANGED fieldsVars
    BY <1>1, <1>4 DEF fieldsVars, FieldsInv
  <1> QED BY <1>2, <1>3, <1>4 DEF FieldsNext

\* A merge batch adds to a row that is merged from fewer documents.
LEMMA StepAdds ==
    ASSUME FieldsInv, [FieldsNext]_fieldsVars, row # Null
    PROVE  /\ \A f \in ScalarFields : row.value[f] # Null => row'.value[f] # Null
           /\ {KeyOf(item) : item \in Range(row.value["performance_reqs"])}
                \subseteq {KeyOf(item) : item \in Range(row'.value["performance_reqs"])}
           /\ row.conflicts \subseteq row'.conflicts
           /\ row'.meta.notFound \subseteq row.meta.notFound
  <1>1. CASE ProcessTarget
    <2>1. PICK documents : documents = Listing(included)
      OBVIOUS
    <2>2. PICK more : more = Listing(stored)
      OBVIOUS
    <2>3. row = Merge(documents) /\ row' = Merge(more)
      BY <1>1, <2>1, <2>2 DEF FieldsInv, ProcessTarget
    <2>4. Numbered(documents) /\ Numbered(more)
      BY <2>1, <2>2, ListingNumbered DEF FieldsInv
    <2>5. ~Raises(documents) /\ ~Raises(more)
      BY <1>1, <2>1, <2>2 DEF FieldsInv, ProcessTarget
    <2>6. /\ DOMAIN documents # {} /\ DOMAIN documents \subseteq DOMAIN more
          /\ \A i \in DOMAIN documents : more[i] = documents[i]
      BY <2>1, <2>2, ListingIs DEF FieldsInv
    <2> QED BY <2>3, <2>4, <2>5, <2>6, MoreDocuments
  <1>2. CASE row' = row
    BY <1>2
  <1> QED BY <1>1, <1>2 DEF FieldsNext, Store, fieldsVars

\* Whatever the documents of a bid say and in whatever order they arrive, a later merge
\* takes nothing back: values, objects, conflicts and what was found stay.
THEOREM LaterDocumentsAddHolds == FieldsSpec => LaterDocumentsAdd
  <1>1. FieldsInv /\ [FieldsNext]_fieldsVars =>
        [row # Null =>
            /\ \A f \in ScalarFields : row.value[f] # Null => row'.value[f] # Null
            /\ {KeyOf(item) : item \in Range(row.value["performance_reqs"])}
                 \subseteq {KeyOf(item) : item \in Range(row'.value["performance_reqs"])}
            /\ row.conflicts \subseteq row'.conflicts
            /\ row'.meta.notFound \subseteq row.meta.notFound]_fieldsVars
    BY StepAdds, Zenon
  <1> QED BY <1>1, FieldsInitial, FieldsStep, PTL DEF FieldsSpec, LaterDocumentsAdd

-------------------------------------------------------------------------------
(* The row is true to its documents.                                        *)

LEMMA Grounded == FieldsInv => ValuesGrounded
  <1> SUFFICES ASSUME FieldsInv, row # Null, NEW f \in ScalarFields, row.value[f] # Null
               PROVE  \E i \in row.evidence[f] \intersect included :
                        /\ Document(answers[i]).value[f] = row.value[f]
                        /\ \E k \in DOMAIN answers[i].evidence :
                                answers[i].evidence[k].field = f /\ answers[i].evidence[k].grounded
    BY DEF ValuesGrounded
  <1>1. f \in DomainFields /\ NoValue(f) = Null
    BY DEF DomainFields, NoValue, ListFields, ScalarFields, EnumFields, BoolFields, UncheckedFields
  <1>2. PICK documents : documents = Listing(included)
    OBVIOUS
  <1>3. row = Merge(documents) /\ Numbered(documents)
    BY <1>2, ListingNumbered DEF FieldsInv
  <1>4. /\ row.value[f] = MergeScalar(documents, f)
        /\ row.evidence[f] = EvidenceOf(documents, f)
    BY <1>1, <1>3, MergeIs
  <1>5. PICK i \in NonNull(documents, f) : row.value[f] = documents[i].value[f]
    BY <1>3, <1>4, ScalarKept
  <1>6. i \in included /\ documents[i] = Document(answers[i]) /\ documents[i].value[f] # Null
    BY <1>2, <1>5, ListingIs DEF NonNull
  <1>7. f \in GroundedFields(KeepGrounded(answers[i].evidence))
    BY <1>1, <1>6, ValueHasEvidence, DocumentIs
  <1>8. PICK k \in DOMAIN KeepGrounded(answers[i].evidence) :
            /\ KeepGrounded(answers[i].evidence)[k].field = f
            /\ k \in DOMAIN answers[i].evidence
            /\ answers[i].evidence[k].field = f /\ answers[i].evidence[k].grounded
    BY <1>7, EvidenceKept
  <1>9. i \in EvidenceOf(documents, f)
    <2>1. documents[i].evidence = KeepGrounded(answers[i].evidence)
      BY <1>6, DocumentIs
    <2>2. i \in DOMAIN documents
      BY <1>5 DEF NonNull
    <2> QED BY <1>8, <2>1, <2>2 DEF EvidenceOf
  <1> QED BY <1>4, <1>5, <1>6, <1>8, <1>9

LEMMA NothingSilent == FieldsInv => NothingLostInSilence
  <1> DEFINE o == "performance_reqs"
             c == "required_certs"
  <1> SUFFICES ASSUME FieldsInv, row # Null PROVE NothingLostInSilence
    BY DEF NothingLostInSilence
  <1>1. PICK documents : documents = Listing(included)
    OBVIOUS
  <1>2. row = Merge(documents) /\ Numbered(documents) /\ ~Raises(documents)
    BY <1>1, ListingNumbered DEF FieldsInv
  <1>3. /\ DOMAIN documents = included
        /\ \A i \in included : documents[i] = Document(answers[i])
    BY <1>1, ListingIs
  <1>4. o \in ListFields /\ c \in ListFields
    BY DEF ListFields
  <1>5. ASSUME NEW f \in ScalarFields
        PROVE  Values(f) \subseteq {row.value[f], Null} \/ f \in row.conflicts
    <2>1. row.value[f] = MergeScalar(documents, f)
      BY <1>2, MergeIs
    <2>2. ScalarConflict(documents, f) => f \in row.conflicts
      BY <1>2, MergeIs
    <2>3. SUFFICES ASSUME ~ScalarConflict(documents, f), NEW i \in included,
                          documents[i].value[f] # Null
                   PROVE  documents[i].value[f] = row.value[f]
      BY <1>3, <2>2 DEF Values
    <2>4. i \in NonNull(documents, f)
      BY <1>3, <2>3 DEF NonNull
    <2>5. PICK j \in NonNull(documents, f) : MergeScalar(documents, f) = documents[j].value[f]
      BY <1>2, <2>4, ScalarKept
    <2> QED BY <2>1, <2>3, <2>4, <2>5 DEF ScalarConflict
  <1>6. ASSUME NEW i \in included, NEW l \in ListFields,
               NEW k \in DOMAIN documents[i].value[l]
        PROVE  /\ <<i, k>> \in Places(documents, l)
               /\ AllItems(documents, l)[<<i, k>>] = documents[i].value[l][k]
    <2>1. <<i, k>> \in Places(documents, l)
      BY <1>3, PlacesAre
    <2> QED BY <2>1 DEF AllItems
  <1>7. ASSUME NEW items \in Values(o), NEW item \in Range(items)
        PROVE  item \in Range(row.value[o]) \/ o \in row.conflicts
    <2>1. PICK i \in included : items = documents[i].value[o]
      BY <1>3 DEF Values
    <2>2. PICK k \in DOMAIN items : item = items[k]
      BY DEF Range
    <2>3. PICK all : all = AllItems(documents, o)
      OBVIOUS
    <2>4. PICK p \in Places(documents, o) : item = all[p]
      BY <1>4, <1>6, <2>1, <2>2, <2>3
    <2>5. PICK q \in DOMAIN MergeObjects(documents, o) : KeyOf(all[q]) = KeyOf(all[p])
      BY <1>2, <1>4, <2>3, ObjectsKept
    <2>6. q \in Places(documents, o) /\ MergeObjects(documents, o)[q] = all[q]
      BY <1>2, <1>4, <2>3, ObjectsKept
    <2>7. CASE all[q] = all[p]
      <3>1. item \in Range(MergeObjects(documents, o))
        BY <2>4, <2>6, <2>7 DEF Range
      <3> QED BY <1>2, <3>1, MergeIs
    <2>8. CASE all[q] # all[p]
      <3>1. ObjectConflicts(documents, o) # {}
        BY <1>2, <2>3, <2>5, <2>6, <2>8, ObjectsMissed
      <3> QED BY <1>2, <3>1, MergeIs
    <2> QED BY <2>7, <2>8
  <1>8. ASSUME NEW names \in Values(c) PROVE Range(names) \subseteq Range(row.value[c])
    <2>1. PICK i \in included : names = documents[i].value[c]
      BY <1>3 DEF Values
    <2>2. ASSUME NEW k \in DOMAIN names PROVE names[k] \in Range(row.value[c])
      <3>1. <<i, k>> \in Places(documents, c)
            /\ AllItems(documents, c)[<<i, k>>] = names[k]
        BY <1>4, <1>6, <2>1
      <3>2. names[k] \in Range(MergeStrings(documents, c))
        BY <1>2, <1>4, <3>1, StringsKept
      <3> QED BY <1>2, <3>2, MergeIs
    <2> QED BY <2>2 DEF Range
  <1>9. ASSUME NEW i \in included
        PROVE  row.meta.perDocument[i].demoted =
                 Cardinality({f \in DomainFields :
                                 answers[i].value[f] # Document(answers[i]).value[f]})
    <2>1. row.meta = Meta(documents)
      BY <1>2, MergeIs
    <2>2. row.meta.perDocument[i].demoted = documents[i].demoted
      BY <1>3, <2>1 DEF Meta
    <2> QED BY <1>3, <2>2, DocumentIs
  <1> QED BY <1>5, <1>7, <1>8, <1>9 DEF NothingLostInSilence

-------------------------------------------------------------------------------
(* The loader of the backfill.                                              *)

\* What the loader relies on: a scalar has evidence and a length.
Scalars(documents) ==
    \A i \in DOMAIN documents, f \in ScalarFields :
        documents[i].value[f] # Null =>
            /\ f \in GroundedFields(documents[i].evidence)
            /\ Width[documents[i].value[f]] \in Nat

LEMMA SameFunctions ==
    /\ \A S : Loader!Min(S) = Min(S)
    /\ \A S : Loader!Cardinality(S) = Cardinality(S)
  <1>1. \A S : Loader!Min(S) = Min(S)
    BY Zenon DEF Loader!Min, Min
  <1>2. \A S : Loader!Cardinality(S) = Cardinality(S)
    BY Zenon DEF Loader!Cardinality, Cardinality
  <1> QED BY <1>1, <1>2

LEMMA SameCandidates ==
    ASSUME NEW documents, NEW f \in ScalarFields
    PROVE  /\ Loader!Candidates(documents, f) = NonNull(documents, f)
           /\ \A d : Loader!Missing(d, f) <=> d.value[f] = Null
  <1>1. f \notin Loader!ListFields
    BY DEF Loader!ListFields, ScalarFields, EnumFields, BoolFields, UncheckedFields
  <1>2. \A d : Loader!Missing(d, f) <=> d.value[f] = Null
    BY <1>1 DEF Loader!Missing, Loader!NoValue
  <1> QED BY <1>2 DEF Loader!Candidates, NonNull

LEMMA IndependentScalarsAgree ==
    ASSUME NEW documents, Scalars(documents), NEW f \in ScalarFields
    PROVE  Loader!IndependentScalar(documents, f) = MergeScalar(documents, f)
  <1>1. PICK given : given = NonNull(documents, f)
    OBVIOUS
  <1>2. Loader!Candidates(documents, f) = given
    BY <1>1, SameCandidates
  <1>3. \A i \in given : Loader!HasEvidence(documents[i], f)
    <2>1. \A i \in given : f \in GroundedFields(documents[i].evidence)
      BY <1>1 DEF Scalars, NonNull
    <2>2. \A evidence : Loader!GroundedFields(evidence) = GroundedFields(evidence)
      BY DEF Loader!GroundedFields, GroundedFields
    <2> QED BY <2>1, <2>2 DEF Loader!HasEvidence
  <1>4. {i \in given : Loader!HasEvidence(documents[i], f)} = given
    BY <1>3
  <1>5. Loader!IndependentScalar(documents, f) =
            IF given = {} THEN Null ELSE documents[Loader!Min(given)].value[f]
    BY <1>2, <1>4 DEF Loader!IndependentScalar
  <1> QED BY <1>1, <1>5, SameFunctions DEF MergeScalar

LEMMA CutlineGroupIs ==
    /\ Loader!CutlineGroup = {"award_cutline_type", "award_cutline_value"}
    /\ Loader!CutlineGroup \subseteq ScalarFields
  BY DEF Loader!CutlineGroup, ScalarFields, EnumFields, UncheckedFields

\* How many fields of the group a document fills.
LEMMA FilledIs ==
    ASSUME NEW d
    PROVE  /\ Loader!Filled(d) \in 0..2
           /\ (\A f \in Loader!CutlineGroup : d.value[f] # Null) <=> Loader!Filled(d) = 2
  <1>1. PICK given : given = {f \in Loader!CutlineGroup : ~Loader!Missing(d, f)}
    OBVIOUS
  <1>2. given = {f \in Loader!CutlineGroup : d.value[f] # Null}
    BY <1>1, SameCandidates, CutlineGroupIs
  <1>3. IsFiniteSet(Loader!CutlineGroup) /\ Cardinality(Loader!CutlineGroup) = 2
    <2>1. IsFiniteSet({"award_cutline_type"}) /\ Cardinality({"award_cutline_type"}) = 1
      BY FS_Singleton
    <2>2. Loader!CutlineGroup = {"award_cutline_type"} \union {"award_cutline_value"}
      BY CutlineGroupIs
    <2>3. "award_cutline_value" \notin {"award_cutline_type"}
      OBVIOUS
    <2> QED BY <2>1, <2>2, <2>3, FS_AddElement
  <1>4. given \in SUBSET Loader!CutlineGroup
    BY <1>1
  <1>5. IsFiniteSet(given)
    BY <1>3, <1>4, FS_Subset
  <1>6. Cardinality(given) \in Nat
    BY <1>5, FS_CardinalityType
  <1>7. /\ Cardinality(given) <= 2
        /\ Cardinality(given) = 2 => given = Loader!CutlineGroup
    BY <1>3, <1>4, FS_Subset
  <1>8. Loader!Filled(d) = Cardinality(given)
    BY <1>1, SameFunctions DEF Loader!Filled
  <1> QED BY <1>2, <1>3, <1>6, <1>7, <1>8

LEMMA GroupWidthIs ==
    ASSUME NEW documents, Scalars(documents), NEW i \in DOMAIN documents
    PROVE  Loader!GroupWidth(documents[i]) \in Nat
  <1>1. \A f \in ScalarFields : Loader!WidthOf(documents[i].value[f]) \in Nat
    BY DEF Scalars, Loader!WidthOf
  <1>2. "award_cutline_type" \in ScalarFields /\ "award_cutline_value" \in ScalarFields
    BY CutlineGroupIs
  <1> QED BY <1>1, <1>2 DEF Loader!GroupWidth

\* The loader takes the group from a document that fills all of it, when one does.
LEMMA BestIsWhole ==
    ASSUME NEW documents, Numbered(documents), Scalars(documents),
           NEW w \in DOMAIN documents,
           \A f \in Loader!CutlineGroup : documents[w].value[f] # Null
    PROVE  \E b \in DOMAIN documents : \A f \in Loader!CutlineGroup :
              /\ documents[b].value[f] # Null
              /\ Loader!MergeGroup(documents)[f] = documents[b].value[f]
  <1>1. PICK candidates :
            candidates = {i \in DOMAIN documents : Loader!Filled(documents[i]) > 0}
    OBVIOUS
  <1>2. PICK best :
            best = {i \in candidates : \A j \in candidates :
                        Loader!Fuller(documents[i], documents[j])}
    OBVIOUS
  <1>3. \A i \in DOMAIN documents : /\ Loader!Filled(documents[i]) \in 0..2
                                    /\ Loader!GroupWidth(documents[i]) \in Nat
    BY FilledIs, GroupWidthIs
  <1>4. Loader!Filled(documents[w]) = 2 /\ w \in candidates
    BY <1>1, FilledIs
  <1>5. IsFiniteSet(candidates) /\ candidates \subseteq DOMAIN documents
        /\ candidates \subseteq Nat
    BY <1>1, FS_Subset DEF Numbered
  <1>6. PICK R : R = {p \in candidates \X candidates :
                        Loader!Fuller(documents[p[1]], documents[p[2]])}
    OBVIOUS
  <1>7. \A i, j \in candidates :
            <<i, j>> \in R <=> Loader!Fuller(documents[i], documents[j])
    BY <1>6
  <1>8. \A i, j \in candidates :
            Loader!Fuller(documents[i], documents[j]) \/ Loader!Fuller(documents[j], documents[i])
    BY <1>3, <1>5 DEF Loader!Fuller
  <1>9. \A i, j, k \in candidates :
            Loader!Fuller(documents[i], documents[j]) /\ Loader!Fuller(documents[j], documents[k])
                => Loader!Fuller(documents[i], documents[k])
    BY <1>3, <1>5 DEF Loader!Fuller
  <1>10. \E i \in candidates : \A j \in candidates : <<i, j>> \in R
    <2>1. \A i, j \in candidates : <<i, j>> \in R \/ <<j, i>> \in R
      BY <1>7, <1>8
    <2>2. \A i, j, k \in candidates : <<i, j>> \in R /\ <<j, k>> \in R => <<i, k>> \in R
      BY <1>7, <1>9
    <2> QED BY <1>4, <1>5, <2>1, <2>2, BestExists
  <1>11. best # {} /\ best \subseteq Nat
    BY <1>2, <1>5, <1>7, <1>10
  <1>12. PICK b : b = Min(best)
    OBVIOUS
  <1>13. b \in best
    BY <1>11, <1>12, Least
  <1>14. Loader!Fuller(documents[b], documents[w]) /\ b \in DOMAIN documents
    BY <1>2, <1>4, <1>5, <1>13
  <1>15. Loader!Filled(documents[b]) = 2
    BY <1>3, <1>4, <1>14 DEF Loader!Fuller
  <1>16. \A f \in Loader!CutlineGroup : Loader!MergeGroup(documents)[f] = documents[b].value[f]
    BY <1>1, <1>2, <1>4, <1>12, SameFunctions DEF Loader!MergeGroup
  <1> QED BY <1>14, <1>15, <1>16, FilledIs

LEMMA LoaderIs ==
    ASSUME NEW documents, NEW f \in ScalarFields
    PROVE  Loader!MergeDocs(documents).value[f] =
              IF f \in Loader!CutlineGroup THEN Loader!MergeGroup(documents)[f]
              ELSE Loader!IndependentScalar(documents, f)
  <1>1. f \in Loader!DomainFields /\ f \in Loader!ScalarFields
    BY DEF Loader!DomainFields, Loader!ScalarFields, Loader!EnumFields, Loader!BoolFields,
           Loader!UncheckedFields, ScalarFields, EnumFields, BoolFields, UncheckedFields
  <1> QED BY <1>1 DEF Loader!MergeDocs

LEMMA ListingScalars ==
    ASSUME answers \in Inputs, NEW S, S \subseteq DOMAIN answers
    PROVE  Scalars(Listing(S))
  <1>1. ASSUME NEW i \in S, NEW f \in ScalarFields, Document(answers[i]).value[f] # Null
        PROVE  /\ f \in GroundedFields(Document(answers[i]).evidence)
               /\ Width[Document(answers[i]).value[f]] \in Nat
    <2>1. f \in DomainFields /\ NoValue(f) = Null
      BY DEF DomainFields, NoValue, ListFields, ScalarFields, EnumFields, BoolFields,
             UncheckedFields
    <2>2. /\ f \in GroundedFields(Document(answers[i]).evidence)
          /\ Document(answers[i]).value[f] = answers[i].value[f]
      BY <1>1, <2>1, ValueHasEvidence
    <2>3. i \in DOMAIN answers
      OBVIOUS
    <2> QED BY <1>1, <2>2, <2>3, AnswersAssumption
  <1> QED BY <1>1, ListingIs DEF Scalars

LEMMA Agree == FieldsInv => MergersAgree
  <1> SUFFICES ASSUME FieldsInv, row # Null, included = stored PROVE MergersAgree
    BY DEF MergersAgree
  <1>1. PICK documents : documents = Listing(stored)
    OBVIOUS
  <1>2. /\ row = Merge(documents)
        /\ Numbered(documents) /\ Scalars(documents)
        /\ DOMAIN documents = stored
        /\ \A i \in stored : documents[i] = Document(answers[i])
    BY <1>1, ListingNumbered, ListingScalars, ListingIs DEF FieldsInv
  <1>3. PICK loaded : loaded = Loader!MergeDocs(documents)
    OBVIOUS
  <1>4. ASSUME NEW f \in ScalarFields \ Loader!CutlineGroup
        PROVE  loaded.value[f] = row.value[f]
    BY <1>2, <1>3, LoaderIs, IndependentScalarsAgree, MergeIs
  <1>5. ASSUME row.conflicts \intersect Loader!CutlineGroup = {}, NEW w \in stored,
               \A f \in Loader!CutlineGroup : documents[w].value[f] # Null,
               NEW f \in Loader!CutlineGroup
        PROVE  loaded.value[f] = row.value[f]
    <2>1. PICK b \in DOMAIN documents : \A g \in Loader!CutlineGroup :
              /\ documents[b].value[g] # Null
              /\ Loader!MergeGroup(documents)[g] = documents[b].value[g]
      BY <1>2, <1>5, BestIsWhole
    <2>2. f \in ScalarFields
      BY CutlineGroupIs
    <2>3. loaded.value[f] = documents[b].value[f]
      BY <1>3, <2>1, <2>2, LoaderIs
    <2>4. b \in NonNull(documents, f)
      BY <2>1 DEF NonNull
    <2>5. PICK i \in NonNull(documents, f) : row.value[f] = documents[i].value[f]
      BY <1>2, <2>2, <2>4, MergeIs, ScalarKept
    <2>6. ~ScalarConflict(documents, f)
      BY <1>2, <1>5, <2>2, MergeIs
    <2> QED BY <2>3, <2>4, <2>5, <2>6 DEF ScalarConflict
  <1> QED BY <1>1, <1>2, <1>3, <1>4, <1>5 DEF MergersAgree

\* Whatever the documents of a bid say and in whatever order they arrive: every scalar of
\* the row has a document with evidence for it, no difference between documents is lost in
\* silence, and the loader of the backfill would give the row the same scalars outside the
\* award line.
THEOREM RowIsTrueHolds == FieldsSpec => []RowIsTrue
  <1>1. FieldsInv => RowIsTrue
    BY Grounded, NothingSilent, Agree DEF RowIsTrue, RowSaysDocuments
  <1> QED BY <1>1, FieldsInitial, FieldsStep, PTL DEF FieldsSpec

-------------------------------------------------------------------------------
(* The chunks of a document.  First, what is least and what is greatest.     *)

LEMMA LeastOf ==
    ASSUME NEW S, S \subseteq Nat, S # {}
    PROVE  Min(S) \in S /\ \A n \in S : Min(S) <= n
  <1>1. PICK n \in S : \A m \in S : ~(<<m, n>> \in OpToRel(<, Nat))
    BY NatLessThanWellFounded, WFMin, Zenon
  <1>2. ASSUME NEW m \in S PROVE n <= m
    <2>1. ~(m < n)
      <3>1. <<m, n>> \in Nat \X Nat /\ <<m, n>>[1] = m /\ <<m, n>>[2] = n
        OBVIOUS
      <3> QED BY <1>1, <3>1, Zenon DEF OpToRel
    <2> QED BY <2>1
  <1> QED BY <1>2 DEF Min

\* Whatever holds of 0 and of the successor of what it holds of, holds of every number.
LEMMA NumberInduction ==
    ASSUME NEW G, 0 \in G, \A n \in Nat : n \in G => n + 1 \in G
    PROVE  \A n \in Nat : n \in G
  <1> DEFINE Others == {n \in Nat : n \notin G}
  <1> SUFFICES ASSUME Others # {} PROVE FALSE
    OBVIOUS
  <1>1. PICK n \in Others : \A m \in Others : ~(<<m, n>> \in OpToRel(<, Nat))
    BY NatLessThanWellFounded, WFMin, Zenon
  <1>2. \A m \in Others : ~(m < n)
    BY <1>1 DEF OpToRel
  <1>3. n \in Nat /\ n # 0 /\ n - 1 \in Nat /\ n - 1 < n
    OBVIOUS
  <1>4. n - 1 \in G
    BY <1>2, <1>3
  <1>5. (n - 1) + 1 \in G
    BY <1>3, <1>4
  <1>6. (n - 1) + 1 = n
    BY <1>3
  <1> QED BY <1>5, <1>6

LEMMA GreatestOf ==
    ASSUME NEW S, S \subseteq Nat, S # {}, IsFiniteSet(S)
    PROVE  Max(S) \in S /\ \A n \in S : n <= Max(S)
  <1> DEFINE G == {k \in Nat : \A T \in SUBSET Nat :
                     T # {} /\ IsFiniteSet(T) /\ Cardinality(T) <= k
                       => \E m \in T : \A n \in T : n <= m}
  <1>1. 0 \in G
    BY FS_EmptySet, FS_CardinalityType
  <1>2. ASSUME NEW k \in Nat, k \in G PROVE k + 1 \in G
    <2> SUFFICES ASSUME NEW T \in SUBSET Nat, T # {}, IsFiniteSet(T), Cardinality(T) <= k + 1
                 PROVE  \E m \in T : \A n \in T : n <= m
      OBVIOUS
    <2>1. PICK a \in T : TRUE
      OBVIOUS
    <2> DEFINE U == T \ {a}
    <2>2. IsFiniteSet(U) /\ Cardinality(U) = Cardinality(T) - 1 /\ U \subseteq Nat
      BY <2>1, FS_RemoveElement
    <2>3. Cardinality(U) <= k
      BY <2>2, FS_CardinalityType
    <2>4. CASE U = {}
      BY <2>4
    <2>5. CASE U # {}
      <3>1. PICK m \in U : \A n \in U : n <= m
        BY <1>2, <2>2, <2>3, <2>5
      <3>2. CASE a <= m
        BY <3>1, <3>2
      <3>3. CASE ~(a <= m)
        <4>1. \A n \in T : n <= a
          BY <3>1, <3>3
        <4> QED BY <4>1
      <3> QED BY <3>2, <3>3
    <2> QED BY <2>4, <2>5
  <1>3. \A k \in Nat : k \in G
    <2> HIDE DEF G
    <2> QED BY <1>1, <1>2, NumberInduction
  <1>4. Cardinality(S) \in Nat
    BY FS_CardinalityType
  <1>5. \E m \in S : \A n \in S : n <= m
    BY <1>3, <1>4
  <1>6. \E m \in S : \A n \in S : m >= n
    BY <1>5
  <1> QED BY <1>6 DEF Max

-------------------------------------------------------------------------------
(* Lines: what taking some of them away, or one more, makes of them.        *)

\* Of A each is below each of B.
Less(A, B) == \A a \in A, b \in B : a < b

Sound(s) == s \in Seq(Line) /\ Rising(s)

LEMMA LineIs ==
    \A l \in Line : l.id \in Nat /\ l.len \in Nat /\ (l.id = 0 <=> l.len = 0) /\ (l.id = 0 => ~l.words)
  BY DEF Line

LEMMA EmptyIsLine == Empty \in Line /\ Empty.id = 0
  BY DEF Empty, Line

LEMMA IdsAre ==
    ASSUME NEW s \in Seq(Line)
    PROVE  /\ \A x : x \in Ids(s) <=> x # 0 /\ \E i \in 1 .. Len(s) : s[i].id = x
           /\ Ids(s) \subseteq Nat
           /\ Len(s) \in Nat /\ DOMAIN s = 1 .. Len(s) /\ \A i \in 1 .. Len(s) : s[i] \in Line
  <1>1. Len(s) \in Nat /\ DOMAIN s = 1 .. Len(s) /\ \A i \in 1 .. Len(s) : s[i] \in Line
    OBVIOUS
  <1>2. \A x : x \in Ids(s) <=> x # 0 /\ \E i \in 1 .. Len(s) : s[i].id = x
    BY <1>1 DEF Ids
  <1> QED BY <1>1, <1>2, LineIs

LEMMA NoLines == Sound(<<>>) /\ Ids(<<>>) = {} /\ <<>> \in Seq(Line)
  <1>1. <<>> \in Seq(Line) /\ Len(<<>>) = 0 /\ DOMAIN <<>> = {}
    OBVIOUS
  <1> QED BY <1>1 DEF Sound, Rising, Ids

\* The lines from the m-th to the n-th.
PartOf(t, s, m, n) ==
    /\ Sound(t)
    /\ \A x : x \in Ids(t) <=> x # 0 /\ \E i \in m .. n : s[i].id = x
    /\ Ids(t) \subseteq Ids(s)
    /\ Len(t) = IF m <= n THEN n - m + 1 ELSE 0

LEMMA SomeLines ==
    ASSUME NEW s, Sound(s), NEW m, NEW n, m \in 1 .. Len(s) + 1, n \in 0 .. Len(s),
           NEW t, t = SubSeq(s, m, n)
    PROVE  PartOf(t, s, m, n)
  <1>1. s \in Seq(Line) /\ Rising(s)
    BY DEF Sound
  <1>2. Len(s) \in Nat /\ DOMAIN s = 1 .. Len(s) /\ m \in Nat /\ n \in Nat
    BY <1>1
  <1>3. \A i \in m .. n : i \in 1 .. Len(s) /\ s[i] \in Line
    BY <1>1, <1>2
  <1>4. /\ t \in Seq(Line)
        /\ Len(t) = IF m <= n THEN n - m + 1 ELSE 0
        /\ \A i \in 1 .. n - m + 1 : t[i] = s[m + i - 1]
    BY <1>2, <1>3, SubSeqProperties
  <1>5. DOMAIN t = 1 .. Len(t) /\ \A i \in 1 .. Len(t) : m + i - 1 \in m .. n /\ t[i] = s[m + i - 1]
    BY <1>2, <1>4
  <1>6. Rising(t)
    <2> SUFFICES ASSUME NEW i \in 1 .. Len(t), NEW j \in 1 .. Len(t), i < j, t[i].id # 0, t[j].id # 0
                 PROVE  t[i].id < t[j].id
      BY <1>5 DEF Rising
    <2>1. m + i - 1 \in DOMAIN s /\ m + j - 1 \in DOMAIN s /\ m + i - 1 < m + j - 1
      BY <1>2, <1>3, <1>5
    <2>2. t[i] = s[m + i - 1] /\ t[j] = s[m + j - 1]
      BY <1>5
    <2> QED BY <1>1, <2>1, <2>2 DEF Rising
  <1>7. ASSUME NEW i \in m .. n PROVE \E j \in 1 .. Len(t) : t[j] = s[i]
    <2>1. i - m + 1 \in 1 .. Len(t) /\ m + (i - m + 1) - 1 = i
      BY <1>2, <1>4
    <2> QED BY <2>1, <1>5
  <1>8. \A x : x \in Ids(t) <=> x # 0 /\ \E i \in m .. n : s[i].id = x
    <2>1. \A x : x \in Ids(t) <=> x # 0 /\ \E i \in 1 .. Len(t) : t[i].id = x
      BY <1>4, IdsAre
    <2>2. \A i \in 1 .. Len(t) : \E k \in m .. n : t[i] = s[k]
      BY <1>5
    <2>3. \A x : (\E i \in 1 .. Len(t) : t[i].id = x) <=> (\E i \in m .. n : s[i].id = x)
      <3> SUFFICES ASSUME NEW x
                   PROVE  (\E i \in 1 .. Len(t) : t[i].id = x) <=> (\E i \in m .. n : s[i].id = x)
        OBVIOUS
      <3>1. ASSUME NEW i \in 1 .. Len(t), t[i].id = x PROVE \E k \in m .. n : s[k].id = x
        BY <2>2, <3>1
      <3>2. ASSUME NEW i \in m .. n, s[i].id = x PROVE \E k \in 1 .. Len(t) : t[k].id = x
        BY <1>7, <3>2
      <3> QED BY <3>1, <3>2
    <2> QED BY ONLY <2>1, <2>3
  <1>9. Ids(t) \subseteq Ids(s)
    BY <1>1, <1>3, <1>8, IdsAre
  <1> QED BY <1>4, <1>6, <1>8, <1>9 DEF Sound, PartOf

\* A line more, which is empty or above all others.
LEMMA LineMore ==
    ASSUME NEW s, Sound(s), NEW l \in Line, Less(Ids(s), {l.id} \ {0}),
           NEW t, t = Append(s, l)
    PROVE  Sound(t) /\ Ids(t) = Ids(s) \cup ({l.id} \ {0}) /\ t # <<>>
  <1>1. s \in Seq(Line) /\ Rising(s)
    BY DEF Sound
  <1>2. Len(s) \in Nat /\ DOMAIN s = 1 .. Len(s)
    BY <1>1
  <1>3. /\ t \in Seq(Line) /\ t # <<>> /\ Len(t) = Len(s) + 1
        /\ \A i \in 1 .. Len(s) : t[i] = s[i]
        /\ t[Len(s) + 1] = l
    BY <1>1, AppendProperties
  <1>4. DOMAIN t = 1 .. Len(s) + 1
    BY <1>2, <1>3
  <1>5. \A x : x \in Ids(t) <=> x \in Ids(s) \/ (x # 0 /\ x = l.id)
    <2>1. \A x : x \in Ids(t) <=> x # 0 /\ \E i \in 1 .. Len(s) + 1 : t[i].id = x
      BY <1>3, IdsAre
    <2>2. \A x : x \in Ids(s) <=> x # 0 /\ \E i \in 1 .. Len(s) : s[i].id = x
      BY <1>1, IdsAre
    <2>3. \A i \in 1 .. Len(s) + 1 : i \in 1 .. Len(s) \/ i = Len(s) + 1
      BY <1>2
    <2>4. \A i \in 1 .. Len(s) : i \in 1 .. Len(s) + 1
      BY <1>2
    <2>5. Len(s) + 1 \in 1 .. Len(s) + 1
      BY <1>2
    <2> QED BY <2>1, <2>2, <2>3, <2>4, <2>5, <1>3
  <1>6. Rising(t)
    <2> SUFFICES ASSUME NEW i \in 1 .. Len(s) + 1, NEW j \in 1 .. Len(s) + 1, i < j,
                        t[i].id # 0, t[j].id # 0
                 PROVE  t[i].id < t[j].id
      BY <1>4 DEF Rising
    <2>1. i \in 1 .. Len(s)
      BY <1>2
    <2>2. CASE j \in 1 .. Len(s)
      BY <2>1, <2>2, <1>1, <1>2, <1>3 DEF Rising
    <2>3. CASE j = Len(s) + 1
      <3>1. s[i].id \in Ids(s)
        BY <2>1, <1>1, <1>3, IdsAre
      <3> QED BY <2>1, <2>3, <3>1, <1>3 DEF Less
    <2> QED BY <2>2, <2>3, <1>2
  <1> QED BY <1>3, <1>5, <1>6 DEF Sound

\* The first line and the others.
LEMMA HeadAndTail ==
    ASSUME NEW s, Sound(s), s # <<>>
    PROVE  /\ Head(s) \in Line /\ Sound(Tail(s))
           /\ Ids(s) = Ids(Tail(s)) \cup ({Head(s).id} \ {0})
           /\ Less({Head(s).id} \ {0}, Ids(Tail(s)))
  <1>1. s \in Seq(Line) /\ Rising(s)
    BY DEF Sound
  <1>2. Len(s) \in Nat /\ Len(s) # 0 /\ DOMAIN s = 1 .. Len(s)
    BY <1>1
  <1>3. Head(s) = s[1] /\ s[1] \in Line
    BY <1>1, <1>2
  <1>4. PICK t : t = SubSeq(s, 2, Len(s))
    OBVIOUS
  <1>5. t = Tail(s)
    BY <1>1, <1>4, TailIsSubSeq
  <1>6. 2 \in 1 .. Len(s) + 1 /\ Len(s) \in 0 .. Len(s)
    BY <1>2
  <1>7. Sound(t) /\ \A x : x \in Ids(t) <=> x # 0 /\ \E i \in 2 .. Len(s) : s[i].id = x
    <2>1. PICK n : n = Len(s)
      OBVIOUS
    <2>2. PartOf(t, s, 2, n)
      BY <2>1, <1>4, <1>6, SomeLines
    <2> QED BY <2>1, <2>2 DEF PartOf
  <1>8. \A x : x \in Ids(s) <=> x # 0 /\ \E i \in 1 .. Len(s) : s[i].id = x
    BY <1>1, IdsAre
  <1>9. \A i : i \in 1 .. Len(s) <=> i = 1 \/ i \in 2 .. Len(s)
    BY <1>2
  <1>10. Ids(s) = Ids(t) \cup ({s[1].id} \ {0})
    BY <1>7, <1>8, <1>9
  <1>11. Less({s[1].id} \ {0}, Ids(t))
    <2> SUFFICES ASSUME NEW i \in 2 .. Len(s), s[1].id # 0, s[i].id # 0 PROVE s[1].id < s[i].id
      BY <1>7 DEF Less
    <2>1. 1 \in DOMAIN s /\ i \in DOMAIN s /\ 1 < i
      BY <1>2
    <2> QED BY <1>1, <2>1 DEF Rising
  <1> QED BY <1>3, <1>5, <1>7, <1>10, <1>11

\* strip() leaves every line that has something on it.
LEMMA StripIs ==
    ASSUME NEW s, Sound(s)
    PROVE  Sound(Strip(s)) /\ Ids(Strip(s)) = Ids(s) /\ (Strip(s) = <<>> => Ids(s) = {})
  <1>1. s \in Seq(Line) /\ Len(s) \in Nat /\ DOMAIN s = 1 .. Len(s)
    BY DEF Sound
  <1>2. PICK full : full = {i \in 1 .. Len(s) : s[i].len > 0}
    OBVIOUS
  <1>3. Strip(s) = IF full = {} THEN <<>> ELSE SubSeq(s, Min(full), Max(full))
    BY <1>1, <1>2 DEF Strip
  <1>4. \A i \in 1 .. Len(s) : s[i] \in Line
    BY <1>1
  <1>5. \A i \in 1 .. Len(s) : i \in full <=> s[i].id # 0
    <2> SUFFICES ASSUME NEW i \in 1 .. Len(s) PROVE i \in full <=> s[i].id # 0
      OBVIOUS
    <2>1. s[i].len \in Nat /\ (s[i].id = 0 <=> s[i].len = 0)
      BY <1>4, LineIs
    <2> QED BY <2>1, <1>2
  <1>6. \A x : x \in Ids(s) <=> x # 0 /\ \E i \in 1 .. Len(s) : s[i].id = x
    BY <1>1, IdsAre
  <1>7. CASE full = {}
    <2>1. Ids(s) = {}
      BY <1>5, <1>6, <1>7
    <2> QED BY <2>1, <1>3, <1>7, NoLines
  <1>8. CASE full # {}
    <2>1. full \subseteq Nat /\ full \subseteq 1 .. Len(s)
      BY <1>1, <1>2
    <2>2. IsFiniteSet(full)
      <3>1. IsFiniteSet(1 .. Len(s))
        BY <1>1, FS_Interval
      <3> QED BY <2>1, <3>1, FS_Subset
    <2>3. Min(full) \in full /\ \A n \in full : Min(full) <= n
      BY <1>8, <2>1, LeastOf
    <2>4. Max(full) \in full /\ \A n \in full : n <= Max(full)
      BY <1>8, <2>1, <2>2, GreatestOf
    <2>5. PICK a, b : a = Min(full) /\ b = Max(full)
      OBVIOUS
    <2>6. PICK t : t = SubSeq(s, a, b)
      OBVIOUS
    <2>7. a \in 1 .. Len(s) + 1 /\ b \in 0 .. Len(s) /\ a <= b
      <3>1. a \in 1 .. Len(s) /\ b \in 1 .. Len(s) /\ a <= b
        BY <2>1, <2>3, <2>4, <2>5
      <3> QED BY <1>1, <3>1
    <2>8. /\ Sound(t) /\ Len(t) = b - a + 1
          /\ \A x : x \in Ids(t) <=> x # 0 /\ \E i \in a .. b : s[i].id = x
      <3>1. PartOf(t, s, a, b)
        BY <2>6, <2>7, SomeLines
      <3> QED BY <3>1, <2>7 DEF PartOf
    <2>9. \A i \in 1 .. Len(s) : s[i].id # 0 => i \in a .. b
      BY <1>1, <1>5, <2>1, <2>3, <2>4, <2>5
    <2>10. \A i \in a .. b : i \in 1 .. Len(s)
      BY <1>1, <2>7
    <2>11. Ids(t) = Ids(s)
      BY <1>6, <2>8, <2>9, <2>10
    <2>12. t # <<>>
      BY <1>1, <2>7, <2>8
    <2> QED BY <1>3, <1>8, <2>5, <2>6, <2>8, <2>11, <2>12
  <1> QED BY <1>7, <1>8

-------------------------------------------------------------------------------
(* Cutting before headers, overlapping, and putting chunks together.        *)

LEMMA CutInTwo ==
    ASSUME NEW s, Sound(s), s # <<>>, NEW head,
           NEW first, first = FirstPart(s, head), NEW others, others = OtherParts(s, head)
    PROVE  /\ Sound(first) /\ Sound(others)
           /\ Ids(s) = Ids(first) \cup Ids(others)
           /\ Less(Ids(first), Ids(others))
  <1>1. s \in Seq(Line) /\ Rising(s) /\ Len(s) \in Nat /\ Len(s) # 0 /\ DOMAIN s = 1 .. Len(s)
    BY DEF Sound
  <1>2. PICK n : n = UpToHeader(s, head)
    OBVIOUS
  <1>3. n \in 1 .. Len(s)
    <2>1. PICK S : S = {Len(s)} \cup {i \in 1 .. Len(s) - 1 : s[i + 1].head = head}
      OBVIOUS
    <2>2. S \subseteq 1 .. Len(s) /\ S # {} /\ S \subseteq Nat
      BY <1>1, <2>1
    <2>3. Min(S) \in S
      BY <2>2, LeastOf
    <2>4. n = Min(S)
      BY <1>2, <2>1 DEF UpToHeader
    <2> QED BY <2>2, <2>3, <2>4
  <1>4. PICK t : t = SubSeq(s, 1, n)
    OBVIOUS
  <1>5. PICK m, last : m = n + 1 /\ last = Len(s)
    OBVIOUS
  <1>6. PartOf(t, s, 1, n)
    <2>1. 1 \in 1 .. Len(s) + 1 /\ n \in 0 .. Len(s)
      BY <1>1, <1>3
    <2> QED BY <2>1, <1>4, SomeLines
  <1>7. others = SubSeq(s, m, last)
    BY <1>2, <1>5 DEF OtherParts
  <1>8. PartOf(others, s, m, last)
    <2>1. m \in 1 .. Len(s) + 1 /\ last \in 0 .. Len(s)
      BY <1>1, <1>3, <1>5
    <2> QED BY <2>1, <1>7, SomeLines
  <1>9. Sound(first) /\ Ids(first) = Ids(t)
    <2>1. CASE n = Len(s)
      <3>1. first = s
        BY <2>1, <1>2 DEF FirstPart
      <3>2. t = s
        BY <2>1, <1>1, <1>4, SubSeqFull
      <3> QED BY <3>1, <3>2
    <2>2. CASE n # Len(s)
      <3>1. first = Append(t, Empty)
        BY <2>2, <1>2, <1>4 DEF FirstPart
      <3>2. Less(Ids(t), {Empty.id} \ {0})
        BY EmptyIsLine DEF Less
      <3>3. Sound(t)
        BY <1>6 DEF PartOf
      <3>4. Sound(first) /\ Ids(first) = Ids(t) \cup ({Empty.id} \ {0})
        BY <3>1, <3>2, <3>3, EmptyIsLine, LineMore
      <3> QED BY <3>4, EmptyIsLine
    <2> QED BY <2>1, <2>2
  <1>10. \A x : x \in Ids(s) <=> x # 0 /\ \E i \in 1 .. Len(s) : s[i].id = x
    BY <1>1, IdsAre
  <1>11. \A i : i \in 1 .. Len(s) <=> i \in 1 .. n \/ i \in m .. last
    BY <1>1, <1>3, <1>5
  <1>12. /\ \A x : x \in Ids(t) <=> x # 0 /\ \E i \in 1 .. n : s[i].id = x
         /\ \A x : x \in Ids(others) <=> x # 0 /\ \E i \in m .. last : s[i].id = x
    BY <1>6, <1>8 DEF PartOf
  <1>13. Ids(s) = Ids(t) \cup Ids(others)
    BY <1>10, <1>11, <1>12
  <1>14. Less(Ids(t), Ids(others))
    <2> SUFFICES ASSUME NEW i \in 1 .. n, NEW j \in m .. last, s[i].id # 0, s[j].id # 0
                 PROVE  s[i].id < s[j].id
      BY <1>12 DEF Less
    <2>1. i \in DOMAIN s /\ j \in DOMAIN s /\ i < j
      BY <1>1, <1>3, <1>5
    <2> QED BY <2>1, <1>1 DEF Rising
  <1>15. Sound(others)
    BY <1>8 DEF PartOf
  <1> QED BY <1>9, <1>13, <1>14, <1>15

\* Of a window, what comes again in the next one.
LEMMA LastOnes ==
    ASSUME NEW s, Sound(s), NEW n \in Nat, NEW t, t = LastLines(n, s)
    PROVE  Sound(t) /\ Ids(t) \subseteq Ids(s) /\ (n = 0 => Ids(t) = {})
  <1>1. s \in Seq(Line) /\ Len(s) \in Nat
    BY DEF Sound
  <1>2. PICK last : last = Len(s)
    OBVIOUS
  <1>3. PICK m : m = Max({1, last - n + 1})
    OBVIOUS
  <1>4. m = IF 1 >= last - n + 1 THEN 1 ELSE last - n + 1
    <2>1. PICK k : k = last - n + 1
      OBVIOUS
    <2>2. k \in Int
      BY <1>1, <1>2, <2>1
    <2>3. m = CHOOSE x \in {1, k} : \A y \in {1, k} : x >= y
      BY <1>3, <2>1 DEF Max
    <2>4. \E x \in {1, k} : \A y \in {1, k} : x >= y
      BY <2>2
    <2>5. m \in {1, k} /\ \A y \in {1, k} : m >= y
      BY <2>3, <2>4
    <2> QED BY <2>1, <2>2, <2>5
  <1>5. m \in 1 .. Len(s) + 1 /\ last \in 0 .. Len(s)
    BY <1>1, <1>2, <1>4
  <1>6. t = SubSeq(s, m, last)
    BY <1>2, <1>3 DEF LastLines
  <1>7. PartOf(t, s, m, last)
    BY <1>5, <1>6, SomeLines
  <1>8. n = 0 => ~\E i \in m .. last : TRUE
    BY <1>1, <1>2, <1>4
  <1> QED BY <1>7, <1>8 DEF PartOf

\* Of A, what is below a line of X has been there before that line.
GoesOn(X, A) ==
    \A i \in DOMAIN X, y \in A : y < X[i].id => \E k \in 1 .. i - 1 : X[k].id = y

\* Of A, what is below something of C is in C.
Known(C, A) == \A x \in C, y \in A : y < x => y \in C

\* A chunk behind others.
LEMMA ChunkBehind ==
    ASSUME NEW X \in Seq(Line), OnlyRepeatsGoBack(X), NEW c, Sound(c), GoesOn(X, Ids(c)),
           NEW Z, Z = X \o c
    PROVE  /\ Z \in Seq(Line) /\ OnlyRepeatsGoBack(Z)
           /\ \A A \in SUBSET (Nat \ {0}) : GoesOn(X, A) /\ Known(Ids(c), A) => GoesOn(Z, A)
  <1>1. c \in Seq(Line) /\ Rising(c) /\ Len(c) \in Nat /\ DOMAIN c = 1 .. Len(c)
    BY DEF Sound
  <1>2. Len(X) \in Nat /\ DOMAIN X = 1 .. Len(X)
    OBVIOUS
  <1>3. PICK a, b : a = Len(X) /\ b = Len(c)
    OBVIOUS
  <1>4. Z \in Seq(Line) /\ Len(Z) = a + b /\ DOMAIN Z = 1 .. a + b
    BY <1>1, <1>3, ConcatProperties
  <1>5. /\ \A i \in 1 .. a : Z[i] = X[i]
        /\ \A i \in 1 .. b : Z[a + i] = c[i]
        /\ \A i \in 1 .. a + b : i \in 1 .. a \/ (i > a /\ i - a \in 1 .. b /\ Z[i] = c[i - a])
    <2>1. \A i \in 1 .. a + b : Z[i] = IF i <= a THEN X[i] ELSE c[i - a]
      BY <1>1, <1>3, ConcatProperties
    <2> QED BY <2>1, <1>1, <1>2, <1>3
  <1>6. a \in Nat /\ b \in Nat /\ DOMAIN X = 1 .. a /\ DOMAIN c = 1 .. b
    BY <1>1, <1>2, <1>3
  <1>7. /\ \A i \in 1 .. a : X[i].id \in Nat
        /\ \A i \in 1 .. b : c[i].id \in Nat
        /\ \A y : y \in Ids(c) <=> y # 0 /\ \E i \in 1 .. b : c[i].id = y
    <2>1. \A i \in 1 .. a : X[i] \in Line
      BY <1>3
    <2>2. \A i \in 1 .. b : c[i] \in Line
      BY <1>1, <1>3
    <2> QED BY <2>1, <2>2, <1>1, <1>3, LineIs, IdsAre
  <1>8. OnlyRepeatsGoBack(Z)
    <2> DEFINE there(i, y) == \E k \in 1 .. i - 1 : Z[k].id = y
    <2>d. \A i, y : there(i, y) <=> \E k \in 1 .. i - 1 : Z[k].id = y
      OBVIOUS
    <2>e. OnlyRepeatsGoBack(Z) <=> \A i, j \in DOMAIN Z :
             i < j /\ Z[j].id # 0 /\ Z[j].id < Z[i].id => there(i, Z[j].id)
      BY DEF OnlyRepeatsGoBack
    <2> HIDE DEF there
    <2> SUFFICES ASSUME NEW i \in 1 .. a + b, NEW j \in 1 .. a + b, i < j,
                        Z[j].id # 0, Z[j].id < Z[i].id
                 PROVE  there(i, Z[j].id)
      BY <1>4, <2>e
    <2> SUFFICES \E k \in 1 .. i - 1 : Z[k].id = Z[j].id
      BY <2>d
    <2>1. CASE j \in 1 .. a
      <3>1. i \in 1 .. a
        BY <2>1, <1>6
      <3>2. PICK k \in 1 .. i - 1 : X[k].id = X[j].id
        BY <2>1, <3>1, <1>5, <1>6 DEF OnlyRepeatsGoBack
      <3>3. k \in 1 .. a
        BY <3>1, <1>6
      <3> QED BY <2>1, <3>2, <3>3, <1>5
    <2>2. CASE i \in 1 .. a /\ j \notin 1 .. a
      <3>1. j - a \in 1 .. b /\ Z[j] = c[j - a]
        BY <2>2, <1>5
      <3>2. Z[j].id \in Ids(c)
        BY <3>1, <1>7
      <3>3. PICK k \in 1 .. i - 1 : X[k].id = Z[j].id
        BY <2>2, <3>2, <1>5, <1>6 DEF GoesOn
      <3>4. k \in 1 .. a
        BY <2>2, <1>6
      <3> QED BY <3>3, <3>4, <1>5
    <2>3. CASE i \notin 1 .. a
      <3>1. i - a \in 1 .. b /\ Z[i] = c[i - a]
        BY <2>3, <1>5
      <3>2. j \notin 1 .. a
        BY <2>3, <1>6
      <3>3. j - a \in 1 .. b /\ Z[j] = c[j - a]
        BY <3>2, <1>5
      <3>4. i - a < j - a
        BY <1>6
      <3>5. c[i - a].id \in Nat /\ c[j - a].id \in Nat
        BY <3>1, <3>3, <1>7
      <3>6. c[i - a].id # 0
        BY <3>1, <3>3, <3>5
      <3>7. c[i - a].id < c[j - a].id
        BY <3>1, <3>3, <3>4, <3>6, <1>1, <1>6 DEF Rising
      <3> QED BY <3>1, <3>3, <3>5, <3>7
    <2> QED BY <2>1, <2>2, <2>3
  <1>9. ASSUME NEW A \in SUBSET (Nat \ {0}), GoesOn(X, A), Known(Ids(c), A) PROVE GoesOn(Z, A)
    <2> SUFFICES ASSUME NEW i \in 1 .. a + b, NEW y \in A, y < Z[i].id
                 PROVE  \E k \in 1 .. i - 1 : Z[k].id = y
      BY <1>4 DEF GoesOn
    <2>1. CASE i \in 1 .. a
      <3>1. PICK k \in 1 .. i - 1 : X[k].id = y
        BY <2>1, <1>5, <1>6, <1>9 DEF GoesOn
      <3>2. k \in 1 .. a
        BY <2>1, <1>6
      <3> QED BY <3>1, <3>2, <1>5
    <2>2. CASE i \notin 1 .. a
      <3>1. i - a \in 1 .. b /\ Z[i] = c[i - a]
        BY <2>2, <1>5
      <3>2. y \in Nat /\ y # 0 /\ c[i - a].id \in Nat
        BY <3>1, <1>7
      <3>n. c[i - a].id # 0
        BY <3>1, <3>2
      <3>3. c[i - a].id \in Ids(c)
        BY <3>1, <3>n, <1>7, Zenon
      <3>4. y \in Ids(c)
        BY <3>1, <3>3, <1>9 DEF Known
      <3>5. PICK k \in 1 .. b : c[k].id = y
        BY <3>4, <1>7
      <3>6. k < i - a
        <4> SUFFICES ASSUME ~(k < i - a) PROVE FALSE
          OBVIOUS
        <4>1. k # i - a
          BY <3>1, <3>2, <3>5
        <4>2. i - a < k
          BY <4>1, <3>1, <1>6
        <4>3. c[i - a].id < c[k].id
          <5>1. i - a \in DOMAIN c /\ k \in DOMAIN c /\ c[i - a].id # 0 /\ c[k].id # 0
            BY <3>1, <3>n, <3>2, <3>5, <1>6
          <5> QED BY <5>1, <4>2, <1>1, Zenon DEF Rising
        <4> QED BY <4>3, <3>1, <3>2, <3>5
      <3>7. a + k \in 1 .. i - 1 /\ Z[a + k] = c[k]
        BY <3>1, <3>6, <1>5, <1>6
      <3> QED BY <3>5, <3>7
    <2> QED BY <2>1, <2>2
  <1> QED BY <1>4, <1>8, <1>9

\* Rows behind others.
LEMMA RowsBehind ==
    ASSUME NEW X, Sound(X), NEW c, Sound(c), Less(Ids(X), Ids(c)), NEW Z, Z = X \o c
    PROVE  Sound(Z)
  <1>1. c \in Seq(Line) /\ Rising(c) /\ X \in Seq(Line) /\ Rising(X)
    BY DEF Sound
  <1>2. PICK a, b : a = Len(X) /\ b = Len(c)
    OBVIOUS
  <1>3. a \in Nat /\ b \in Nat /\ DOMAIN X = 1 .. a /\ DOMAIN c = 1 .. b
    BY <1>1, <1>2
  <1>4. Z \in Seq(Line) /\ Len(Z) = a + b /\ DOMAIN Z = 1 .. a + b
    BY <1>1, <1>2, ConcatProperties
  <1>5. \A i \in 1 .. a + b : Z[i] = IF i <= a THEN X[i] ELSE c[i - a]
    BY <1>1, <1>2, ConcatProperties
  <1>6. Rising(Z)
    <2> SUFFICES ASSUME NEW i \in 1 .. a + b, NEW j \in 1 .. a + b, i < j,
                        Z[i].id # 0, Z[j].id # 0
                 PROVE  Z[i].id < Z[j].id
      BY <1>4 DEF Rising
    <2>1. CASE j <= a
      <3>1. i \in 1 .. a /\ j \in 1 .. a /\ Z[i] = X[i] /\ Z[j] = X[j]
        BY <2>1, <1>3, <1>5
      <3> QED BY <3>1, <1>1, <1>3 DEF Rising
    <2>2. CASE i <= a /\ j > a
      <3>1. i \in 1 .. a /\ j - a \in 1 .. b /\ Z[i] = X[i] /\ Z[j] = c[j - a]
        BY <2>2, <1>3, <1>5
      <3>2. Z[i].id \in Ids(X) /\ Z[j].id \in Ids(c)
        BY <3>1, <1>1, <1>2, IdsAre
      <3> QED BY <3>2 DEF Less
    <2>3. CASE i > a
      <3>1. i - a \in 1 .. b /\ j - a \in 1 .. b /\ i - a < j - a
            /\ Z[i] = c[i - a] /\ Z[j] = c[j - a]
        BY <2>3, <1>3, <1>5
      <3> QED BY <3>1, <1>1, <1>3 DEF Rising
    <2> QED BY <2>1, <2>2, <2>3, <1>3
  <1> QED BY <1>4, <1>6 DEF Sound

LEMMA IdsOfBoth ==
    ASSUME NEW X \in Seq(Line), NEW c \in Seq(Line)
    PROVE  X \o c \in Seq(Line) /\ Ids(X \o c) = Ids(X) \cup Ids(c)
  <1>1. PICK Z : Z = X \o c
    OBVIOUS
  <1>2. PICK a, b : a = Len(X) /\ b = Len(c)
    OBVIOUS
  <1>3. a \in Nat /\ b \in Nat
    BY <1>2
  <1>4. /\ Z \in Seq(Line) /\ Len(Z) = a + b
        /\ \A i \in 1 .. a + b : Z[i] = IF i <= a THEN X[i] ELSE c[i - a]
    BY <1>1, <1>2, ConcatProperties
  <1>5. /\ \A x : x \in Ids(Z) <=> x # 0 /\ \E i \in 1 .. a + b : Z[i].id = x
        /\ \A x : x \in Ids(X) <=> x # 0 /\ \E i \in 1 .. a : X[i].id = x
        /\ \A x : x \in Ids(c) <=> x # 0 /\ \E i \in 1 .. b : c[i].id = x
    BY <1>2, <1>4, IdsAre
  <1>6. ASSUME NEW x \in Ids(Z) PROVE x \in Ids(X) \cup Ids(c)
    <2>1. PICK i \in 1 .. a + b : Z[i].id = x /\ x # 0
      BY <1>5
    <2>2. i \in 1 .. a \/ i - a \in 1 .. b
      BY <1>3
    <2>3. ASSUME i \in 1 .. a PROVE Z[i] = X[i]
      BY <2>3, <1>3, <1>4
    <2>4. ASSUME i \notin 1 .. a PROVE i - a \in 1 .. b /\ Z[i] = c[i - a]
      BY <2>4, <2>2, <1>3, <1>4
    <2> QED BY <2>1, <2>3, <2>4, <1>5, Zenon
  <1>7. ASSUME NEW x \in Ids(X) PROVE x \in Ids(Z)
    <2>1. PICK i \in 1 .. a : X[i].id = x /\ x # 0
      BY <1>5
    <2>2. i \in 1 .. a + b /\ Z[i] = X[i]
      BY <1>3, <1>4
    <2> QED BY <2>1, <2>2, <1>5
  <1>8. ASSUME NEW x \in Ids(c) PROVE x \in Ids(Z)
    <2>1. PICK i \in 1 .. b : c[i].id = x /\ x # 0
      BY <1>5
    <2>2. a + i \in 1 .. a + b /\ Z[a + i] = c[i]
      <3>1. a + i \in 1 .. a + b /\ ~(a + i <= a) /\ (a + i) - a = i
        BY <1>3
      <3> QED BY <3>1, <1>4
    <2> QED BY <2>1, <2>2, <1>5
  <1> QED BY <1>1, <1>4, <1>6, <1>7, <1>8

-------------------------------------------------------------------------------
(* The lines of all chunks.                                                 *)

\* The lines up to each chunk.
More(type, s, i, before) == IF s[i].type = type THEN before \o s[i].lines ELSE before

Collects(type, s, n, f) ==
    f = [i \in 0 .. n |-> IF i = 0 THEN <<>> ELSE More(type, s, i, f[i - 1])]

LEMMA CollectExists ==
    ASSUME NEW type, NEW s, NEW last \in Nat
    PROVE  \E f : Collects(type, s, last, f)
  <1> DEFINE G == {n \in Nat : \E f : Collects(type, s, n, f)}
  <1>1. 0 \in G
    <2> DEFINE f == [i \in 0 .. 0 |-> <<>>]
    <2>1. \A i \in 0 .. 0 : i = 0
      OBVIOUS
    <2>2. f = [i \in 0 .. 0 |-> IF i = 0 THEN <<>> ELSE More(type, s, i, f[i - 1])]
      BY <2>1
    <2>3. Collects(type, s, 0, f)
      BY <2>2 DEF Collects
    <2> QED BY <2>3
  <1>2. ASSUME NEW n \in Nat, n \in G PROVE n + 1 \in G
    <2>1. PICK f : Collects(type, s, n, f)
      BY <1>2
    <2>2. \A i \in 0 .. n : f[i] = IF i = 0 THEN <<>> ELSE More(type, s, i, f[i - 1])
      BY <2>1 DEF Collects
    <2> DEFINE g == [i \in 0 .. n + 1 |-> IF i = n + 1 THEN More(type, s, n + 1, f[n]) ELSE f[i]]
    <2>3. \A i \in 0 .. n + 1 : g[i] = IF i = 0 THEN <<>> ELSE More(type, s, i, g[i - 1])
      <3> SUFFICES ASSUME NEW i \in 0 .. n + 1
                   PROVE  g[i] = IF i = 0 THEN <<>> ELSE More(type, s, i, g[i - 1])
        OBVIOUS
      <3>1. CASE i = n + 1
        <4>1. i # 0 /\ i - 1 = n /\ n \in 0 .. n + 1 /\ n # n + 1
          BY <3>1
        <4>2. g[i - 1] = f[n] /\ g[i] = More(type, s, i, f[n])
          BY <4>1, <3>1
        <4> HIDE DEF g
        <4> QED BY <4>1, <4>2
      <3>2. CASE i # n + 1
        <4>1. i \in 0 .. n /\ (i # 0 => i - 1 \in 0 .. n + 1 /\ i - 1 # n + 1)
          BY <3>2
        <4>2. g[i] = f[i] /\ (i # 0 => g[i - 1] = f[i - 1])
          BY <4>1, <3>2
        <4> HIDE DEF g
        <4> QED BY <4>1, <4>2, <2>2
      <3> QED BY <3>1, <3>2
    <2>4. g = [i \in 0 .. n + 1 |-> g[i]]
      OBVIOUS
    <2>5. Collects(type, s, n + 1, g)
      <3> HIDE DEF g
      <3> QED BY <2>3, <2>4 DEF Collects
    <2> QED BY <2>5
  <1>3. \A n \in Nat : n \in G
    <2> HIDE DEF G
    <2> QED BY <1>1, <1>2, NumberInduction
  <1> QED BY <1>3

Collected(type, s, f) ==
    /\ f[0] = <<>>
    /\ \A i \in 1 .. Len(s) : f[i] = More(type, s, i, f[i - 1])
    /\ LinesOf(type, s) = f[Len(s)]

LEMMA CollectedIs ==
    ASSUME NEW type, NEW s \in Seq(Item)
    PROVE  \E f : Collected(type, s, f)
  <1>1. PICK last : last = Len(s)
    OBVIOUS
  <1>2. last \in Nat
    BY <1>1
  <1>3. PICK f : f = CHOOSE g : Collects(type, s, last, g)
    OBVIOUS
  <1>4. Collects(type, s, last, f)
    BY <1>2, <1>3, CollectExists
  <1>5. LinesOf(type, s) = f[last]
    BY <1>1, <1>3 DEF LinesOf, Collects, More
  <1>6. \A i \in 0 .. last : f[i] = IF i = 0 THEN <<>> ELSE More(type, s, i, f[i - 1])
    BY <1>4 DEF Collects
  <1>7. 0 \in 0 .. last /\ \A i \in 1 .. last : i \in 0 .. last /\ i # 0
    BY <1>2
  <1>8. f[0] = <<>> /\ \A i \in 1 .. last : f[i] = More(type, s, i, f[i - 1])
    BY <1>6, <1>7, Zenon
  <1> QED BY <1>1, <1>5, <1>8 DEF Collected

\* What some chunks hold of a type.
IdsOf(type, s) == UNION {Ids(s[i].lines) : i \in {j \in DOMAIN s : s[j].type = type}}

\* Each line is a line of a chunk of the type.
FromChunks(lines, type, s) ==
    \A p \in DOMAIN lines : \E i \in DOMAIN s :
        s[i].type = type /\ \E m \in DOMAIN s[i].lines : lines[p] = s[i].lines[m]

HeldUpTo(lines, type, s, n) ==
    /\ lines \in Seq(Line) /\ FromChunks(lines, type, s)
    /\ \A x : x \in Ids(lines) <=> \E i \in 1 .. n : s[i].type = type /\ x \in Ids(s[i].lines)

LEMMA ItemsAre ==
    ASSUME NEW s \in Seq(Item)
    PROVE  /\ Len(s) \in Nat /\ DOMAIN s = 1 .. Len(s)
           /\ \A i \in 1 .. Len(s) : s[i] \in Item /\ s[i].type \in {"text", "table"} /\ s[i].lines \in Seq(Line)
  <1>1. Len(s) \in Nat /\ DOMAIN s = 1 .. Len(s) /\ \A i \in 1 .. Len(s) : s[i] \in Item
    OBVIOUS
  <1>2. \A c \in Item : c.type \in {"text", "table"} /\ c.lines \in Seq(Line)
    BY DEF Item
  <1> QED BY <1>1, <1>2

LEMMA HeldMore ==
    ASSUME NEW type, NEW s \in Seq(Item), NEW n \in Nat, n + 1 <= Len(s),
           NEW lines, HeldUpTo(lines, type, s, n)
    PROVE  HeldUpTo(More(type, s, n + 1, lines), type, s, n + 1)
  <1>1. PICK c : c = s[n + 1]
    OBVIOUS
  <1>2. n + 1 \in 1 .. Len(s) /\ DOMAIN s = 1 .. Len(s) /\ c.lines \in Seq(Line)
    BY <1>1, ItemsAre
  <1>3. \A i : i \in 1 .. n + 1 <=> i \in 1 .. n \/ i = n + 1
    OBVIOUS
  <1>4. CASE c.type # type
    <2>1. More(type, s, n + 1, lines) = lines
      BY <1>1, <1>4 DEF More
    <2> QED BY <2>1, <1>1, <1>3, <1>4 DEF HeldUpTo
  <1>5. CASE c.type = type
    <2>1. PICK all : all = lines \o c.lines
      OBVIOUS
    <2>2. More(type, s, n + 1, lines) = all
      BY <1>1, <1>5, <2>1 DEF More
    <2>3. lines \in Seq(Line)
      BY DEF HeldUpTo
    <2>4. all \in Seq(Line) /\ Ids(all) = Ids(lines) \cup Ids(c.lines)
      BY <2>1, <2>3, <1>2, IdsOfBoth
    <2>5. \A x : x \in Ids(all) <=> \E i \in 1 .. n + 1 : s[i].type = type /\ x \in Ids(s[i].lines)
      BY <2>4, <1>1, <1>3, <1>5 DEF HeldUpTo
    <2>6. FromChunks(all, type, s)
      <3> SUFFICES ASSUME NEW p \in DOMAIN all
                   PROVE  \E i \in DOMAIN s : s[i].type = type /\ \E m \in DOMAIN s[i].lines : all[p] = s[i].lines[m]
        BY DEF FromChunks
      <3>1. PICK a, b : a = Len(lines) /\ b = Len(c.lines)
        OBVIOUS
      <3>2. /\ a \in Nat /\ b \in Nat /\ DOMAIN lines = 1 .. a /\ DOMAIN c.lines = 1 .. b
            /\ p \in 1 .. a + b
            /\ all[p] = IF p <= a THEN lines[p] ELSE c.lines[p - a]
        BY <3>1, <2>1, <2>3, <1>2, ConcatProperties
      <3>3. CASE p <= a
        <4>1. p \in DOMAIN lines /\ all[p] = lines[p]
          BY <3>2, <3>3
        <4>2. FromChunks(lines, type, s)
          BY DEF HeldUpTo
        <4> QED BY <4>1, <4>2 DEF FromChunks
      <3>4. CASE ~(p <= a)
        <4>1. p - a \in DOMAIN c.lines /\ all[p] = c.lines[p - a]
          BY <3>2, <3>4
        <4> QED BY <4>1, <1>1, <1>2, <1>5
      <3> QED BY <3>3, <3>4
    <2> QED BY <2>2, <2>4, <2>5, <2>6 DEF HeldUpTo
  <1> QED BY <1>4, <1>5

LEMMA LinesAre ==
    ASSUME NEW type, NEW s \in Seq(Item)
    PROVE  /\ LinesOf(type, s) \in Seq(Line)
           /\ Ids(LinesOf(type, s)) = IdsOf(type, s)
           /\ FromChunks(LinesOf(type, s), type, s)
  <1>1. PICK f : Collected(type, s, f)
    BY CollectedIs
  <1>2. PICK last : last = Len(s)
    OBVIOUS
  <1>3. last \in Nat /\ DOMAIN s = 1 .. last
    BY <1>2
  <1>4. f[0] = <<>> /\ LinesOf(type, s) = f[last] /\ \A i \in 1 .. last : f[i] = More(type, s, i, f[i - 1])
    BY <1>1, <1>2 DEF Collected
  <1> DEFINE G == {n \in Nat : n <= last => HeldUpTo(f[n], type, s, n)}
  <1>5. 0 \in G
    <2>1. <<>> \in Seq(Line) /\ Ids(<<>>) = {} /\ DOMAIN <<>> = {}
      BY NoLines
    <2>2. ~\E i \in 1 .. 0 : TRUE
      OBVIOUS
    <2>3. HeldUpTo(<<>>, type, s, 0)
      BY <2>1, <2>2 DEF HeldUpTo, FromChunks
    <2> QED BY <2>3, <1>4
  <1>6. ASSUME NEW n \in Nat, n \in G PROVE n + 1 \in G
    <2> SUFFICES ASSUME n + 1 <= last PROVE HeldUpTo(f[n + 1], type, s, n + 1)
      OBVIOUS
    <2>1. HeldUpTo(f[n], type, s, n)
      BY <1>3, <1>6
    <2>2. n + 1 \in 1 .. last /\ (n + 1) - 1 = n
      BY <1>3
    <2>3. f[n + 1] = More(type, s, n + 1, f[n])
      BY <2>2, <1>4
    <2> QED BY <2>1, <2>3, <1>2, HeldMore
  <1>7. \A n \in Nat : n \in G
    <2> HIDE DEF G
    <2> QED BY <1>5, <1>6, NumberInduction
  <1>8. HeldUpTo(f[last], type, s, last)
    BY <1>3, <1>7
  <1>9. Ids(f[last]) = IdsOf(type, s)
    BY <1>3, <1>8 DEF HeldUpTo, IdsOf
  <1> QED BY <1>4, <1>8, <1>9 DEF HeldUpTo

LEMMA LinesOfNone == ASSUME NEW type PROVE LinesOf(type, <<>>) = <<>>
  <1>1. <<>> \in Seq(Item) /\ Len(<<>>) = 0
    OBVIOUS
  <1>2. PICK f : Collected(type, <<>>, f)
    BY <1>1, CollectedIs
  <1> QED BY <1>1, <1>2 DEF Collected

AlikeUpTo(type, s, t, n) ==
    \A i \in 1 .. n : /\ s[i].type = type <=> t[i].type = type
                      /\ s[i].type = type => s[i].lines = t[i].lines

\* Two sequences of chunks that are alike up to n hold the same lines up to n.
LEMMA SameUpTo ==
    ASSUME NEW type, NEW s \in Seq(Item), NEW t \in Seq(Item), NEW f, NEW g,
           Collected(type, s, f), Collected(type, t, g),
           NEW n \in Nat, n <= Len(s), n <= Len(t),
           AlikeUpTo(type, s, t, n)
    PROVE  f[n] = g[n]
  <1> DEFINE G == {i \in Nat : i <= n => f[i] = g[i]}
  <1>1. 0 \in G
    BY DEF Collected
  <1>2. ASSUME NEW i \in Nat, i \in G PROVE i + 1 \in G
    <2> SUFFICES ASSUME i + 1 <= n PROVE f[i + 1] = g[i + 1]
      OBVIOUS
    <2>1. f[i] = g[i]
      BY <1>2
    <2>2. i + 1 \in 1 .. n /\ i + 1 \in 1 .. Len(s) /\ i + 1 \in 1 .. Len(t) /\ (i + 1) - 1 = i
      BY ItemsAre
    <2>3. f[i + 1] = More(type, s, i + 1, f[i]) /\ g[i + 1] = More(type, t, i + 1, g[i])
      BY <2>2 DEF Collected
    <2>4. More(type, s, i + 1, f[i]) = More(type, t, i + 1, f[i])
      BY <2>2 DEF AlikeUpTo, More
    <2> QED BY <2>1, <2>3, <2>4
  <1>3. \A i \in Nat : i \in G
    <2> HIDE DEF G
    <2> QED BY <1>1, <1>2, NumberInduction
  <1> QED BY <1>3

LEMMA LinesOfMore ==
    ASSUME NEW type, NEW s \in Seq(Item), NEW c \in Item, NEW t, t = Append(s, c)
    PROVE  LinesOf(type, t) = IF c.type = type THEN LinesOf(type, s) \o c.lines ELSE LinesOf(type, s)
  <1>1. PICK n : n = Len(s)
    OBVIOUS
  <1>2. /\ t \in Seq(Item) /\ Len(t) = n + 1 /\ n \in Nat
        /\ \A i \in 1 .. n : t[i] = s[i]
        /\ t[n + 1] = c
    BY <1>1, AppendProperties
  <1>3. PICK f : Collected(type, s, f)
    BY CollectedIs
  <1>4. PICK g : Collected(type, t, g)
    BY <1>2, CollectedIs
  <1>5. AlikeUpTo(type, s, t, n)
    BY <1>2 DEF AlikeUpTo
  <1>a. s \in Seq(Item) /\ t \in Seq(Item) /\ n \in Nat /\ n <= Len(s) /\ n <= Len(t)
    BY <1>1, <1>2
  <1>6. f[n] = g[n]
    BY ONLY <1>a, <1>3, <1>4, <1>5, SameUpTo
  <1>7. n + 1 \in 1 .. Len(t) /\ (n + 1) - 1 = n
    BY <1>2
  <1>8. LinesOf(type, t) = More(type, t, n + 1, f[n])
    BY <1>2, <1>4, <1>6, <1>7 DEF Collected
  <1>9. LinesOf(type, s) = f[n]
    BY <1>1, <1>3 DEF Collected
  <1> QED BY <1>2, <1>8, <1>9 DEF More

LEMMA InAnyOrder ==
    \A x, y, z \in Seq(Line) : x \o (y \o z) = (x \o y) \o z
  BY ConcatAssociative

JoinsAt(s, k, d, t) == t = [s EXCEPT ![k] = Joined(s[k], d)]

\* A chunk at the end of the last text chunk: as if it stood at the end.
LEMMA LinesOfJoined ==
    ASSUME NEW s \in Seq(Item), NEW k \in 1 .. Len(s), s[k].type = "text",
           \A j \in 1 .. Len(s) : j > k => s[j].type # "text", NEW d \in Item,
           NEW t, JoinsAt(s, k, d, t)
    PROVE  /\ t \in Seq(Item)
           /\ LinesOf("text", t) = LinesOf("text", s) \o d.lines
           /\ LinesOf("table", t) = LinesOf("table", s)
  <1>1. PICK n : n = Len(s)
    OBVIOUS
  <1>2. n \in Nat /\ DOMAIN s = 1 .. n /\ k \in 1 .. n /\ s[k] \in Item /\ s[k].lines \in Seq(Line)
        /\ d.lines \in Seq(Line)
    BY <1>1, ItemsAre DEF Item
  <1>3. PICK e : e = Joined(s[k], d)
    OBVIOUS
  <1>4. e \in Item /\ e.type = "text" /\ e.lines = s[k].lines \o d.lines
    <2>1. s[k].lines \o d.lines \in Seq(Line)
      BY <1>2, IdsOfBoth
    <2>2. s[k] = [type |-> s[k].type, lines |-> s[k].lines]
      BY <1>2 DEF Item
    <2>3. e = [type |-> s[k].type, lines |-> s[k].lines \o d.lines]
      BY <1>3, <2>2 DEF Joined
    <2> QED BY <2>1, <2>3 DEF Item
  <1>5. /\ t \in Seq(Item) /\ Len(t) = n
        /\ \A j \in 1 .. n : t[j] = IF j = k THEN e ELSE s[j]
    <2>1. t = [s EXCEPT ![k] = e]
      BY <1>3 DEF JoinsAt
    <2> QED BY <2>1, <1>1, <1>2, <1>4, ExceptSeq
  <1>6. LinesOf("table", t) = LinesOf("table", s)
    <2>1. PICK f : Collected("table", s, f)
      BY CollectedIs
    <2>2. PICK g : Collected("table", t, g)
      BY <1>5, CollectedIs
    <2>3. AlikeUpTo("table", s, t, n)
      BY <1>4, <1>5 DEF AlikeUpTo
    <2>a. s \in Seq(Item) /\ t \in Seq(Item) /\ n \in Nat /\ n <= Len(s) /\ n <= Len(t)
      BY <1>1, <1>2, <1>5
    <2>4. f[n] = g[n]
      BY ONLY <2>a, <2>1, <2>2, <2>3, SameUpTo
    <2> QED BY <1>1, <1>5, <2>1, <2>2, <2>4 DEF Collected
  <1>7. LinesOf("text", t) = LinesOf("text", s) \o d.lines
    <2>1. PICK f : Collected("text", s, f)
      BY CollectedIs
    <2>2. PICK g : Collected("text", t, g)
      BY <1>5, CollectedIs
    <2>3. \A i \in 1 .. n : /\ f[i] = More("text", s, i, f[i - 1])
                            /\ g[i] = More("text", t, i, g[i - 1])
      BY <1>1, <1>5, <2>1, <2>2 DEF Collected
    <2>4. f[k - 1] = g[k - 1]
      <3>1. PICK m : m = k - 1
        OBVIOUS
      <3>2. m \in Nat /\ m <= Len(s) /\ m <= Len(t) /\ \A i \in 1 .. m : i \in 1 .. n /\ i # k
        BY <3>1, <1>1, <1>2, <1>5
      <3>3. AlikeUpTo("text", s, t, m)
        BY <3>2, <1>5 DEF AlikeUpTo
      <3>a. s \in Seq(Item) /\ t \in Seq(Item) /\ m \in Nat /\ m <= Len(s) /\ m <= Len(t)
        BY <3>2, <1>5
      <3>4. f[m] = g[m]
        BY ONLY <3>a, <3>3, <2>1, <2>2, SameUpTo
      <3> QED BY <3>1, <3>4
    <2>5. f[k - 1] \in Seq(Line)
      <3>1. PICK u : u = SubSeq(s, 1, k - 1)
        OBVIOUS
      <3>2. u \in Seq(Item) /\ Len(u) = k - 1 /\ \A i \in 1 .. k - 1 : u[i] = s[i]
        <4>1. \A i \in 1 .. k - 1 : s[i] \in Item
          BY <1>1, <1>2
        <4>2. 1 \in Int /\ k - 1 \in Int /\ k - 1 >= 0
          BY <1>2
        <4> QED BY <3>1, <4>1, <4>2, SubSeqProperties
      <3>3. PICK h : Collected("text", u, h)
        BY <3>2, CollectedIs
      <3>4. PICK m : m = k - 1
        OBVIOUS
      <3>5. AlikeUpTo("text", s, u, m)
        BY <3>2, <3>4 DEF AlikeUpTo
      <3>6. m \in Nat /\ m <= Len(s) /\ m <= Len(u)
        BY <3>2, <3>4, <1>1, <1>2
      <3>7. f[m] = h[m]
        BY <3>2, <3>3, <3>5, <3>6, <2>1, SameUpTo
      <3>8. LinesOf("text", u) = h[m]
        BY <3>2, <3>3, <3>4 DEF Collected
      <3> QED BY <3>2, <3>4, <3>7, <3>8, LinesAre
    <2>6. g[k] = f[k] \o d.lines
      <3>1. f[k] = f[k - 1] \o s[k].lines
        BY <1>2, <2>3 DEF More
      <3>2. g[k] = f[k - 1] \o (s[k].lines \o d.lines)
        BY <1>2, <1>4, <1>5, <2>3, <2>4 DEF More
      <3>3. f[k - 1] \o (s[k].lines \o d.lines) = (f[k - 1] \o s[k].lines) \o d.lines
        <4>1. f[k - 1] \in Seq(Line) /\ s[k].lines \in Seq(Line) /\ d.lines \in Seq(Line)
          BY ONLY <2>5, <1>2
        <4> QED BY ONLY <4>1, InAnyOrder, Zenon
      <3> QED BY <3>1, <3>2, <3>3
    <2> DEFINE behind(i) == g[i] = f[i] \o d.lines
               G == {i \in Nat : k <= i /\ i <= n => behind(i)}
    <2>7. 0 \in G
      <3> HIDE DEF behind
      <3> QED BY <1>2
    <2>8. ASSUME NEW i \in Nat, i \in G PROVE i + 1 \in G
      <3> SUFFICES ASSUME k <= i + 1, i + 1 <= n PROVE behind(i + 1)
        <4> HIDE DEF behind
        <4> QED OBVIOUS
      <3>1. CASE k = i + 1
        BY <3>1, <2>6
      <3>2. CASE k # i + 1
        <4>1. k <= i /\ i <= n /\ i + 1 \in 1 .. n /\ i + 1 > k /\ (i + 1) - 1 = i
          BY <3>2, <1>2
        <4>2. behind(i)
          <5> HIDE DEF behind
          <5> QED BY <2>8, <4>1
        <4>3. s[i + 1].type # "text" /\ t[i + 1] = s[i + 1]
          BY <4>1, <1>1, <1>5, <3>2
        <4>4. f[i + 1] = f[i] /\ g[i + 1] = g[i]
          BY <4>1, <4>3, <2>3 DEF More
        <4> QED BY <4>2, <4>4
      <3> QED BY <3>1, <3>2
    <2>9. \A i \in Nat : i \in G
      <3> HIDE DEF G
      <3> QED BY <2>7, <2>8, NumberInduction
    <2>10. behind(n)
      <3> HIDE DEF behind
      <3> QED BY <2>9, <1>2
    <2> QED BY <2>10, <2>1, <2>2, <1>1, <1>5 DEF Collected
  <1> QED BY <1>5, <1>6, <1>7

-------------------------------------------------------------------------------
(* What holds while a document is cut and its chunks are merged.             *)

\* Chunk A of one type and chunk B of another, which is made after A: windows repeat
\* lines of text, and rows never.
Follows(type, A, other, B) ==
    /\ Known(A, B)
    /\ type = "table" \/ other = "table" => Less(A, B)

\* Chunks follow each other, and what is in the window follows them.
ChunksFollow(s, type, B) ==
    /\ s \in Seq(Item)
    /\ \A i \in DOMAIN s : Rising(s[i].lines) /\ Follows(s[i].type, Ids(s[i].lines), type, B)
    /\ \A i, j \in DOMAIN s :
         i < j => Follows(s[i].type, Ids(s[i].lines), s[j].type, Ids(s[j].lines))

AllIds(s) == IdsOf("text", s) \cup IdsOf("table", s)

\* The items still to be cut.
ItemsFollow(s) ==
    /\ s \in Seq(Item)
    /\ \A i \in DOMAIN s : Rising(s[i].lines)
    /\ \A i, j \in DOMAIN s : i < j => Less(Ids(s[i].lines), Ids(s[j].lines))

\* Lines not cut yet stand behind what is cut, and sections are of text.
ToBeCut(s, k, u, v, w, b, made) ==
    /\ ItemsFollow(s) /\ k \in {"text", "table"}
    /\ Sound(u) /\ Sound(v) /\ Sound(w) /\ Sound(b)
    /\ u # <<>> \/ v # <<>> => k = "text"
    /\ Less(made \cup Ids(b), Ids(w))
    /\ Less(made \cup Ids(b) \cup Ids(w), Ids(v))
    /\ Less(made \cup Ids(b) \cup Ids(w) \cup Ids(v), Ids(u))
    /\ Less(made \cup Ids(b) \cup Ids(w) \cup Ids(v) \cup Ids(u), AllIds(s))

\* What is left of the item that is being cut.
Cutting(type, k, u, v, w, b) ==
    IF k = type THEN Ids(u) \cup Ids(v) \cup Ids(w) \cup Ids(b) ELSE {}

\* The lines of a type that are merged, the chunk that is looked at included.
Settled(type, s, c) ==
    LinesOf(type, s) \o (IF c # NoChunk /\ c.type = type THEN c.lines ELSE <<>>)

\* What is to come of text goes on behind what is merged, and rows are above it.
TextGoesOn(lines, s) ==
    /\ lines \in Seq(Line) /\ OnlyRepeatsGoBack(lines)
    /\ \A i \in DOMAIN s : s[i].type = "text" => GoesOn(lines, Ids(s[i].lines))

RowsGoOn(lines, s) ==
    /\ Sound(lines)
    /\ \A i \in DOMAIN s : s[i].type = "table" => Less(Ids(lines), Ids(s[i].lines))

\* Chunks are dropped for want of words.
WithoutWords(s) ==
    /\ s \in Seq(Item)
    /\ \A i \in DOMAIN s : s[i].type = "text" /\ ~HasLinguisticContent(s[i].lines)

DocumentInv ==
    /\ ToBeCut(rest, kind, uncut, section, unfilled, window, AllIds(chunks))
    /\ ChunksFollow(chunks, kind, Ids(window))
    /\ ~Split => merged = <<>> /\ current = NoChunk

MergerInv ==
    /\ merged \in Seq(Item) /\ (current # NoChunk => current \in Item)
    /\ WithoutWords(dropped)
    /\ TextGoesOn(Settled("text", merged, current), chunks)
    /\ RowsGoOn(Settled("table", merged, current), chunks)

\* Where the lines of the document are.
Placed(type) ==
    IdsOf(type, doc) =
        IdsOf(type, rest) \cup Cutting(type, kind, uncut, section, unfilled, window)
        \cup IdsOf(type, chunks) \cup Ids(Settled(type, merged, current)) \cup IdsOf(type, dropped)

ChunkInv ==
    /\ doc \in Seq(Item) /\ DocumentInv /\ MergerInv
    /\ Placed("text") /\ Placed("table")

LEMMA IdsOfIs ==
    ASSUME NEW s \in Seq(Item), NEW type
    PROVE  /\ \A x : x \in IdsOf(type, s) <=> \E i \in 1 .. Len(s) : s[i].type = type /\ x \in Ids(s[i].lines)
           /\ IdsOf(type, s) \subseteq Nat
  <1>1. DOMAIN s = 1 .. Len(s) /\ \A i \in 1 .. Len(s) : s[i].lines \in Seq(Line)
    BY ItemsAre
  <1>2. \A i \in 1 .. Len(s) : Ids(s[i].lines) \subseteq Nat
    BY <1>1, IdsAre
  <1>3. \A x : x \in IdsOf(type, s) <=> \E i \in 1 .. Len(s) : s[i].type = type /\ x \in Ids(s[i].lines)
    BY <1>1 DEF IdsOf
  <1> QED BY <1>2, <1>3

LEMMA AllIdsIs ==
    ASSUME NEW s \in Seq(Item)
    PROVE  /\ \A x : x \in AllIds(s) <=> \E i \in 1 .. Len(s) : x \in Ids(s[i].lines)
           /\ AllIds(s) \subseteq Nat
  <1>1. \A i \in 1 .. Len(s) : s[i].type \in {"text", "table"}
    BY ItemsAre
  <1> QED BY <1>1, IdsOfIs DEF AllIds

LEMMA NoItems == <<>> \in Seq(Item) /\ (\A type : IdsOf(type, <<>>) = {}) /\ AllIds(<<>>) = {}
  <1>1. <<>> \in Seq(Item) /\ DOMAIN <<>> = {}
    OBVIOUS
  <1>2. \A type : IdsOf(type, <<>>) = {}
    BY <1>1 DEF IdsOf
  <1> QED BY <1>1, <1>2 DEF AllIds

\* t holds what s holds, and c.
Adds(s, c, t) ==
    \A type : IdsOf(type, t) = IdsOf(type, s) \cup (IF c.type = type THEN Ids(c.lines) ELSE {})

LEMMA OneItemMore ==
    ASSUME NEW s \in Seq(Item), NEW c \in Item, NEW t, t = Append(s, c)
    PROVE  t \in Seq(Item) /\ Adds(s, c, t)
  <1>1. PICK n : n = Len(s)
    OBVIOUS
  <1>2. /\ t \in Seq(Item) /\ Len(t) = n + 1 /\ n \in Nat
        /\ \A i \in 1 .. n : t[i] = s[i]
        /\ t[n + 1] = c
    BY <1>1, AppendProperties
  <1>3. \A i : i \in 1 .. n + 1 <=> i \in 1 .. n \/ i = n + 1
    BY <1>2
  <1>4. ASSUME NEW type
        PROVE  IdsOf(type, t) = IdsOf(type, s) \cup (IF c.type = type THEN Ids(c.lines) ELSE {})
    <2>1. \A x : x \in IdsOf(type, t) <=> \E i \in 1 .. n + 1 : t[i].type = type /\ x \in Ids(t[i].lines)
      BY ONLY <1>2, IdsOfIs
    <2>2. \A x : x \in IdsOf(type, s) <=> \E i \in 1 .. n : s[i].type = type /\ x \in Ids(s[i].lines)
      BY <1>1, IdsOfIs
    <2>3. \A x : x \in IdsOf(type, t) <=> x \in IdsOf(type, s) \/ (c.type = type /\ x \in Ids(c.lines))
      BY ONLY <2>1, <2>2, <1>2, <1>3, Zenon
    <2> QED BY <2>3
  <1> QED BY <1>2, <1>4 DEF Adds

\* The first chunk and the others.
LEMMA OneItemLess ==
    ASSUME NEW s \in Seq(Item), s # <<>>, NEW c, c = Head(s), NEW t, t = Tail(s)
    PROVE  /\ c \in Item /\ t \in Seq(Item) /\ c.lines \in Seq(Line) /\ c.type \in {"text", "table"}
           /\ Adds(t, c, s) /\ AllIds(s) = AllIds(t) \cup Ids(c.lines)
           /\ Len(s) = Len(t) + 1 /\ Len(t) \in Nat /\ DOMAIN s = 1 .. Len(s) /\ DOMAIN t = 1 .. Len(t)
           /\ s[1] = c /\ \A i \in 1 .. Len(t) : t[i] = s[i + 1]
  <1>1. c \in Item /\ t \in Seq(Item) /\ c = s[1]
    OBVIOUS
  <1>2. PICK n : n = Len(t)
    OBVIOUS
  <1>3. n \in Nat /\ Len(s) = n + 1 /\ DOMAIN s = 1 .. n + 1 /\ DOMAIN t = 1 .. n /\ \A i \in 1 .. n : t[i] = s[i + 1]
    BY <1>2
  <1>4. c.lines \in Seq(Line) /\ c.type \in {"text", "table"}
    BY <1>1 DEF Item
  <1>5. /\ \A i \in 1 .. n + 1 : i = 1 \/ i - 1 \in 1 .. n
        /\ \A i \in 1 .. n + 1 : (i - 1) + 1 = i
        /\ \A i \in 1 .. n : i + 1 \in 1 .. n + 1
        /\ 1 \in 1 .. n + 1
    BY <1>3
  <1>6. ASSUME NEW type
        PROVE  IdsOf(type, s) = IdsOf(type, t) \cup (IF c.type = type THEN Ids(c.lines) ELSE {})
    <2>1. \A x : x \in IdsOf(type, t) <=> \E i \in 1 .. n : t[i].type = type /\ x \in Ids(t[i].lines)
      BY ONLY <1>1, <1>2, IdsOfIs
    <2>2. \A x : x \in IdsOf(type, s) <=> \E i \in 1 .. n + 1 : s[i].type = type /\ x \in Ids(s[i].lines)
      BY <1>3, IdsOfIs
    <2>3. \A x : x \in IdsOf(type, t) <=> \E i \in 1 .. n : s[i + 1].type = type /\ x \in Ids(s[i + 1].lines)
      BY ONLY <2>1, <1>3
    <2>4. \A x : x \in IdsOf(type, s) <=> x \in IdsOf(type, t) \/ (c.type = type /\ x \in Ids(c.lines))
      BY ONLY <2>2, <2>3, <1>1, <1>5
    <2> QED BY <2>4
  <1>7. AllIds(s) = AllIds(t) \cup Ids(c.lines)
    BY <1>4, <1>6 DEF AllIds
  <1>8. Adds(t, c, s)
    BY <1>6 DEF Adds
  <1> QED BY <1>1, <1>2, <1>3, <1>4, <1>7, <1>8

LEMMA LessFollows ==
    ASSUME NEW A \in SUBSET Nat, NEW B \in SUBSET Nat, Less(A, B), NEW type, NEW other
    PROVE  Follows(type, A, other, B)
  BY DEF Follows, Known, Less

\* Lines more in the window that are above what is made.
LEMMA FollowsStill ==
    ASSUME NEW A \in SUBSET Nat, NEW B \in SUBSET Nat, NEW N \in SUBSET Nat, NEW type, NEW other,
           Follows(type, A, other, B), Less(A, N), NEW C \in SUBSET (B \cup N)
    PROVE  Follows(type, A, other, C)
  BY DEF Follows, Known, Less

LEMMA ItemsBehind ==
    ASSUME NEW s, ItemsFollow(s), s # <<>>, NEW c, c = Head(s), NEW t, t = Tail(s)
    PROVE  ItemsFollow(t) /\ Sound(c.lines) /\ Less(Ids(c.lines), AllIds(t))
  <1>1. s \in Seq(Item)
    BY DEF ItemsFollow
  <1>2. PICK n : n = Len(t)
    OBVIOUS
  <1>3. /\ c \in Item /\ t \in Seq(Item) /\ c.lines \in Seq(Line)
        /\ Len(s) = n + 1 /\ n \in Nat /\ DOMAIN s = 1 .. n + 1 /\ DOMAIN t = 1 .. n
        /\ s[1] = c /\ \A i \in 1 .. n : t[i] = s[i + 1]
    BY <1>1, <1>2, OneItemLess
  <1>4. /\ 1 \in 1 .. n + 1
        /\ \A i \in 1 .. n : i + 1 \in 1 .. n + 1 /\ 1 < i + 1
        /\ \A i, j \in 1 .. n : i < j => i + 1 < j + 1
    BY <1>3
  <1>5. /\ \A i \in 1 .. n + 1 : Rising(s[i].lines)
        /\ \A i, j \in 1 .. n + 1 : i < j => Less(Ids(s[i].lines), Ids(s[j].lines))
    BY <1>3 DEF ItemsFollow
  <1>6. Sound(c.lines)
    BY <1>3, <1>4, <1>5 DEF Sound
  <1>7. ItemsFollow(t)
    <2>1. \A i \in 1 .. n : Rising(t[i].lines)
      BY ONLY <1>3, <1>4, <1>5
    <2>2. \A i, j \in 1 .. n : i < j => Less(Ids(t[i].lines), Ids(t[j].lines))
      BY ONLY <1>3, <1>4, <1>5
    <2> QED BY <2>1, <2>2, <1>3 DEF ItemsFollow
  <1>8. Less(Ids(c.lines), AllIds(t))
    <2>1. \A x : x \in AllIds(t) <=> \E i \in 1 .. n : x \in Ids(t[i].lines)
      BY ONLY <1>2, <1>3, AllIdsIs
    <2>2. \A i \in 1 .. n : Less(Ids(c.lines), Ids(t[i].lines))
      BY ONLY <1>3, <1>4, <1>5
    <2> QED BY ONLY <2>1, <2>2, Zenon DEF Less
  <1> QED BY <1>6, <1>7, <1>8

LEMMA ChunksBehind ==
    ASSUME NEW s, NEW k, NEW B, ChunksFollow(s, k, B), s # <<>>, NEW c, c = Head(s), NEW t, t = Tail(s)
    PROVE  /\ ChunksFollow(t, k, B) /\ Sound(c.lines)
           /\ \A i \in DOMAIN t : Follows(c.type, Ids(c.lines), t[i].type, Ids(t[i].lines))
  <1>1. s \in Seq(Item)
    BY DEF ChunksFollow
  <1>2. PICK n : n = Len(t)
    OBVIOUS
  <1>3. /\ c \in Item /\ t \in Seq(Item) /\ c.lines \in Seq(Line)
        /\ Len(s) = n + 1 /\ n \in Nat /\ DOMAIN s = 1 .. n + 1 /\ DOMAIN t = 1 .. n
        /\ s[1] = c /\ \A i \in 1 .. n : t[i] = s[i + 1]
    BY <1>1, <1>2, OneItemLess
  <1>4. /\ 1 \in 1 .. n + 1
        /\ \A i \in 1 .. n : i + 1 \in 1 .. n + 1 /\ 1 < i + 1
        /\ \A i, j \in 1 .. n : i < j => i + 1 < j + 1
    BY <1>3
  <1>5. /\ \A i \in 1 .. n + 1 : Rising(s[i].lines) /\ Follows(s[i].type, Ids(s[i].lines), k, B)
        /\ \A i, j \in 1 .. n + 1 : i < j => Follows(s[i].type, Ids(s[i].lines), s[j].type, Ids(s[j].lines))
    BY <1>3 DEF ChunksFollow
  <1>6. Sound(c.lines)
    BY <1>3, <1>4, <1>5 DEF Sound
  <1>7. ChunksFollow(t, k, B)
    <2>1. \A i \in 1 .. n : Rising(t[i].lines) /\ Follows(t[i].type, Ids(t[i].lines), k, B)
      BY ONLY <1>3, <1>4, <1>5
    <2>2. \A i, j \in 1 .. n : i < j => Follows(t[i].type, Ids(t[i].lines), t[j].type, Ids(t[j].lines))
      BY ONLY <1>3, <1>4, <1>5
    <2> QED BY <2>1, <2>2, <1>3 DEF ChunksFollow
  <1>8. \A i \in 1 .. n : Follows(c.type, Ids(c.lines), t[i].type, Ids(t[i].lines))
    BY ONLY <1>3, <1>4, <1>5
  <1> QED BY <1>3, <1>6, <1>7, <1>8

\* Lines A of a type more.
MoreOf(type, A, s, t) ==
    /\ \A u : IdsOf(u, t) = IdsOf(u, s) \cup (IF type = u THEN A ELSE {})
    /\ AllIds(t) = AllIds(s) \cup A

Emits(s, type, lines, t) ==
    t = IF Strip(lines) = <<>> THEN s ELSE Append(s, [type |-> type, lines |-> Strip(lines)])

\* What a chunk more does.
LEMMA EmittedIs ==
    ASSUME NEW s, NEW type \in {"text", "table"}, NEW lines, Sound(lines), ChunksFollow(s, type, Ids(lines)),
           NEW all, Emits(s, type, lines, all),
           NEW k, NEW B, ChunksFollow(s, k, B), Follows(type, Ids(lines), k, B)
    PROVE  ChunksFollow(all, k, B) /\ MoreOf(type, Ids(lines), s, all)
  <1>1. s \in Seq(Item)
    BY DEF ChunksFollow
  <1>2. Sound(Strip(lines)) /\ Ids(Strip(lines)) = Ids(lines) /\ (Strip(lines) = <<>> => Ids(lines) = {})
    BY StripIs
  <1>3. CASE Strip(lines) = <<>>
    BY <1>2, <1>3 DEF MoreOf, Emits
  <1>4. CASE Strip(lines) # <<>>
    <2>1. PICK c : c = [type |-> type, lines |-> Strip(lines)]
      OBVIOUS
    <2>2. c \in Item /\ c.type = type /\ Rising(c.lines) /\ Ids(c.lines) = Ids(lines)
      BY <1>2, <2>1 DEF Item, Sound
    <2>3. all = Append(s, c)
      BY <1>4, <2>1 DEF Emits
    <2>4. \A u : IdsOf(u, all) = IdsOf(u, s) \cup (IF type = u THEN Ids(lines) ELSE {})
      <3>1. c \in Item
        BY <2>2
      <3>2. Adds(s, c, all)
        BY ONLY <1>1, <3>1, <2>3, OneItemMore
      <3> QED BY ONLY <3>2, <2>2 DEF Adds
    <2>5. AllIds(all) = AllIds(s) \cup Ids(lines)
      BY <2>4 DEF AllIds
    <2>6. PICK n : n = Len(s)
      OBVIOUS
    <2>7. /\ all \in Seq(Item) /\ DOMAIN all = 1 .. n + 1 /\ DOMAIN s = 1 .. n /\ n \in Nat
          /\ \A i \in 1 .. n : all[i] = s[i]
          /\ all[n + 1] = c
      BY ONLY <2>6, <1>1, <2>2, <2>3, AppendProperties
    <2>8. \A i : i \in 1 .. n + 1 <=> i \in 1 .. n \/ i = n + 1
      BY <2>7
    <2>9. \A i \in 1 .. n + 1 : Rising(all[i].lines) /\ Follows(all[i].type, Ids(all[i].lines), k, B)
      BY <2>2, <2>7, <2>8 DEF ChunksFollow
    <2>10. ASSUME NEW i \in 1 .. n + 1, NEW j \in 1 .. n + 1, i < j
           PROVE  Follows(all[i].type, Ids(all[i].lines), all[j].type, Ids(all[j].lines))
      <3>1. i \in 1 .. n /\ all[i] = s[i]
        BY <2>7, <2>10
      <3>2. CASE j = n + 1
        BY <3>1, <3>2, <2>2, <2>7 DEF ChunksFollow
      <3>3. CASE j # n + 1
        <4>1. j \in 1 .. n /\ all[j] = s[j]
          BY <3>3, <2>7, <2>8
        <4> QED BY <3>1, <4>1, <2>7, <2>10 DEF ChunksFollow
      <3> QED BY <3>2, <3>3
    <2>11. ChunksFollow(all, k, B)
      BY ONLY <2>7, <2>9, <2>10 DEF ChunksFollow
    <2> QED BY <2>4, <2>5, <2>11 DEF MoreOf
  <1> QED BY <1>3, <1>4

-------------------------------------------------------------------------------
(* A document is cut: the lines move from the document to the chunks.        *)

LEMMA NothingSettled ==
    /\ \A type : Settled(type, <<>>, NoChunk) = <<>>
    /\ \A s : TextGoesOn(<<>>, s) /\ RowsGoOn(<<>>, s)
  <1>1. \A type : Settled(type, <<>>, NoChunk) = <<>>
    BY LinesOfNone DEF Settled
  <1>2. \A s : TextGoesOn(<<>>, s) /\ RowsGoOn(<<>>, s)
    BY NoLines DEF TextGoesOn, RowsGoOn, OnlyRepeatsGoBack, GoesOn, Less
  <1> QED BY <1>1, <1>2

\* Lines move, and no chunk is merged yet.
LinesMove ==
    /\ UNCHANGED <<doc, merging>>
    /\ ToBeCut(rest', kind', uncut', section', unfilled', window', AllIds(chunks'))
    /\ ChunksFollow(chunks', kind', Ids(window'))
    /\ \A type \in {"text", "table"} :
         IdsOf(type, rest') \cup Cutting(type, kind', uncut', section', unfilled', window')
         \cup IdsOf(type, chunks')
           = IdsOf(type, rest) \cup Cutting(type, kind, uncut, section, unfilled, window)
             \cup IdsOf(type, chunks)

LEMMA LinesMoveKeeps == ASSUME ChunkInv, ~Split, LinesMove PROVE ChunkInv'
  <1>1. UNCHANGED <<doc, current, merged, dropped>>
    BY DEF LinesMove, merging
  <1>2. merged = <<>> /\ current = NoChunk
    BY DEF ChunkInv, DocumentInv
  <1>3. DocumentInv'
    BY <1>1, <1>2 DEF LinesMove, DocumentInv
  <1>4. MergerInv'
    <2>1. merged' = <<>> /\ current' = NoChunk /\ merged' \in Seq(Item) /\ WithoutWords(dropped')
      BY <1>1, <1>2 DEF ChunkInv, MergerInv
    <2>2. /\ TextGoesOn(Settled("text", merged', current'), chunks')
          /\ RowsGoOn(Settled("table", merged', current'), chunks')
      BY <2>1, NothingSettled
    <2> QED BY <2>1, <2>2 DEF MergerInv
  <1>5. Placed("text")' /\ Placed("table")'
    BY <1>1 DEF ChunkInv, LinesMove, Placed
  <1> QED BY <1>1, <1>3, <1>4, <1>5 DEF ChunkInv

\* The numbers of lines are numbers.
LEMMA NumbersAre ==
    ASSUME ChunkInv
    PROVE  /\ rest \in Seq(Item) /\ chunks \in Seq(Item)
           /\ Ids(uncut) \subseteq Nat /\ Ids(section) \subseteq Nat /\ Ids(unfilled) \subseteq Nat
           /\ Ids(window) \subseteq Nat /\ AllIds(rest) \subseteq Nat /\ AllIds(chunks) \subseteq Nat
  <1>1. rest \in Seq(Item) /\ chunks \in Seq(Item)
    BY DEF ChunkInv, DocumentInv, ToBeCut, ItemsFollow, ChunksFollow
  <1>2. \A s : Sound(s) => Ids(s) \subseteq Nat
    BY IdsAre DEF Sound
  <1>3. Sound(uncut) /\ Sound(section) /\ Sound(unfilled) /\ Sound(window)
    BY DEF ChunkInv, DocumentInv, ToBeCut
  <1> QED BY <1>1, <1>2, <1>3, AllIdsIs

LEMMA TakeItemMoves == ASSUME ChunkInv, TakeItem PROVE LinesMove
  <1>1. /\ rest # <<>> /\ rest' = Tail(rest)
        /\ uncut = <<>> /\ section = <<>> /\ unfilled = <<>> /\ window = <<>>
        /\ section' = <<>> /\ window' = <<>> /\ UNCHANGED <<doc, chunks, merging>>
    BY DEF TakeItem
  <1>2. PICK item : item = Head(rest)
    OBVIOUS
  <1>3. /\ kind' = item.type
        /\ IF item.type = "table"
           THEN unfilled' = Strip(item.lines) /\ uncut' = uncut
           ELSE /\ uncut' = IF Strip(item.lines) = <<>> THEN <<>> ELSE item.lines
                /\ unfilled' = unfilled
    BY <1>2 DEF TakeItem
  <1>4. ItemsFollow(rest) /\ rest \in Seq(Item) /\ Less(AllIds(chunks), AllIds(rest))
    BY DEF ChunkInv, DocumentInv, ToBeCut, ItemsFollow, Less
  <1>5. /\ item.type \in {"text", "table"} /\ Adds(rest', item, rest)
        /\ AllIds(rest) = AllIds(rest') \cup Ids(item.lines)
    BY ONLY <1>1, <1>2, <1>4, OneItemLess
  <1>6. ItemsFollow(rest') /\ Sound(item.lines) /\ Less(Ids(item.lines), AllIds(rest'))
    BY <1>1, <1>2, <1>4, ItemsBehind
  <1>7. Sound(Strip(item.lines)) /\ Ids(Strip(item.lines)) = Ids(item.lines)
        /\ (Strip(item.lines) = <<>> => Ids(item.lines) = {})
    BY <1>6, StripIs
  <1>8. Sound(<<>>) /\ Ids(<<>>) = {}
    BY NoLines
  <1>9. /\ Sound(uncut') /\ Sound(unfilled') /\ Ids(uncut') \cup Ids(unfilled') = Ids(item.lines)
        /\ item.type = "table" => uncut' = <<>>
        /\ item.type # "table" => unfilled' = <<>>
    BY <1>1, <1>3, <1>6, <1>7, <1>8
  <1>10. ToBeCut(rest', kind', uncut', section', unfilled', window', AllIds(chunks'))
    <2>1. AllIds(chunks') = AllIds(chunks)
      BY <1>1
    <2>2. PICK M, R, H, P, Q : M = AllIds(chunks) /\ R = AllIds(rest') /\ H = Ids(item.lines)
                               /\ P = Ids(unfilled') /\ Q = Ids(uncut')
      OBVIOUS
    <2>3. Less(M, R \cup H) /\ Less(H, R) /\ P \cup Q = H /\ (P = {} \/ Q = {})
      BY <2>2, <1>4, <1>5, <1>6, <1>8, <1>9
    <2>4. Less(M, P) /\ Less(M \cup P, Q) /\ Less(M \cup P \cup Q, R) /\ Less(M \cup P, {})
      BY ONLY <2>3 DEF Less
    <2> QED BY <2>1, <2>2, <2>4, <1>1, <1>3, <1>5, <1>6, <1>8, <1>9 DEF ToBeCut
  <1>11. ChunksFollow(chunks', kind', Ids(window'))
    BY <1>1, <1>8 DEF ChunkInv, DocumentInv, ChunksFollow, Follows, Known, Less
  <1>12. ASSUME NEW type \in {"text", "table"}
         PROVE  IdsOf(type, rest') \cup Cutting(type, kind', uncut', section', unfilled', window')
                  \cup IdsOf(type, chunks')
                = IdsOf(type, rest) \cup Cutting(type, kind, uncut, section, unfilled, window)
                  \cup IdsOf(type, chunks)
    <2>1. Cutting(type, kind, uncut, section, unfilled, window) = {}
      BY <1>1, <1>8 DEF Cutting
    <2>2. Cutting(type, kind', uncut', section', unfilled', window')
            = IF item.type = type THEN Ids(item.lines) ELSE {}
      BY <1>1, <1>3, <1>8, <1>9 DEF Cutting
    <2> QED BY <2>1, <2>2, <1>1, <1>5 DEF Adds
  <1> QED BY <1>1, <1>10, <1>11, <1>12 DEF LinesMove

\* A part of an item becomes a chunk.
LEMMA PartIsChunk ==
    ASSUME ChunkInv, window = <<>>, NEW part, Sound(part), Less(AllIds(chunks), Ids(part)),
           NEW all, all = Emitted("text", part), NEW k
    PROVE  ChunksFollow(all, k, Ids(<<>>)) /\ MoreOf("text", Ids(part), chunks, all)
  <1>1. Ids(<<>>) = {}
    BY NoLines
  <1>2. ChunksFollow(chunks, k, Ids(<<>>)) /\ Follows("text", Ids(part), k, Ids(<<>>))
    BY <1>1 DEF ChunkInv, DocumentInv, ChunksFollow, Follows, Known, Less
  <1>3. ChunksFollow(chunks, "text", Ids(part))
    <2>1. chunks \in Seq(Item)
      BY NumbersAre
    <2>2. Ids(part) \subseteq Nat
      BY IdsAre DEF Sound
    <2>3. ASSUME NEW i \in DOMAIN chunks
          PROVE  Follows(chunks[i].type, Ids(chunks[i].lines), "text", Ids(part))
      <3>1. i \in 1 .. Len(chunks) /\ chunks[i].lines \in Seq(Line)
        BY <2>1, <2>3, ItemsAre
      <3>2. Ids(chunks[i].lines) \subseteq AllIds(chunks) /\ Ids(chunks[i].lines) \subseteq Nat
        BY <2>1, <3>1, AllIdsIs, IdsAre
      <3>3. Less(Ids(chunks[i].lines), Ids(part))
        BY <3>2 DEF Less
      <3> QED BY <2>2, <3>2, <3>3, LessFollows
    <2> QED BY <2>3 DEF ChunkInv, DocumentInv, ChunksFollow
  <1>4. Emits(chunks, "text", part, all)
    BY DEF Emitted, Emits
  <1> QED BY ONLY <1>2, <1>3, <1>4, Sound(part), EmittedIs

LEMMA CutSectionMoves == ASSUME ChunkInv, CutSection PROVE LinesMove
  <1>1. /\ uncut # <<>> /\ section = <<>> /\ unfilled = <<>> /\ window = <<>>
        /\ rest' = rest /\ kind' = kind /\ unfilled' = <<>> /\ window' = <<>>
        /\ UNCHANGED <<doc, merging>>
    BY DEF CutSection
  <1>2. PICK part, others : part = FirstPart(uncut, "main") /\ others = OtherParts(uncut, "main")
    OBVIOUS
  <1>3. /\ uncut' = others
        /\ \/ chunks' = Emitted("text", part) /\ section' = <<>>
           \/ chunks' = chunks /\ section' = part
    BY <1>1, <1>2 DEF CutSection
  <1>4. Sound(uncut) /\ kind = "text" /\ ItemsFollow(rest)
    BY <1>1 DEF ChunkInv, DocumentInv, ToBeCut
  <1>5. /\ Sound(part) /\ Sound(others) /\ Ids(uncut) = Ids(part) \cup Ids(others)
        /\ Less(Ids(part), Ids(others))
    BY ONLY <1>1, <1>2, <1>4, CutInTwo
  <1>6. Sound(<<>>) /\ Ids(<<>>) = {}
    BY NoLines
  <1>7. PICK M, R, F, O : M = AllIds(chunks) /\ R = AllIds(rest) /\ F = Ids(part) /\ O = Ids(others)
    OBVIOUS
  <1>8. Less(M, F \cup O) /\ Less(M \cup F \cup O, R) /\ Less(F, O)
    BY <1>1, <1>5, <1>6, <1>7 DEF ChunkInv, DocumentInv, ToBeCut, Less
  <1>9. CASE chunks' = Emitted("text", part) /\ section' = <<>>
    <2>1. Less(AllIds(chunks), Ids(part))
      BY <1>7, <1>8 DEF Less
    <2>2. ChunksFollow(chunks', "text", Ids(<<>>)) /\ MoreOf("text", F, chunks, chunks')
      BY <1>1, <1>5, <1>7, <1>9, <2>1, PartIsChunk
    <2>3. Less(M \cup F, {}) /\ Less(M \cup F, O) /\ Less(M \cup F \cup O, R)
      BY <1>8 DEF Less
    <2>4. ToBeCut(rest', kind', uncut', section', unfilled', window', AllIds(chunks'))
      <3>1. AllIds(chunks') = M \cup F
        BY <2>2, <1>7 DEF MoreOf
      <3> QED BY <3>1, <2>3, <1>1, <1>3, <1>4, <1>5, <1>6, <1>7, <1>9 DEF ToBeCut
    <2>5. ASSUME NEW type \in {"text", "table"}
          PROVE  IdsOf(type, rest') \cup Cutting(type, kind', uncut', section', unfilled', window')
                   \cup IdsOf(type, chunks')
                 = IdsOf(type, rest) \cup Cutting(type, kind, uncut, section, unfilled, window)
                   \cup IdsOf(type, chunks)
      <3>1. Cutting(type, kind, uncut, section, unfilled, window) = IF "text" = type THEN F \cup O ELSE {}
        BY <1>1, <1>4, <1>5, <1>6, <1>7 DEF Cutting
      <3>2. Cutting(type, kind', uncut', section', unfilled', window') = IF "text" = type THEN O ELSE {}
        BY <1>1, <1>3, <1>4, <1>6, <1>7, <1>9 DEF Cutting
      <3> QED BY <3>1, <3>2, <2>2, <1>1 DEF MoreOf
    <2> QED BY <2>2, <2>4, <2>5, <1>1, <1>4 DEF LinesMove
  <1>10. CASE chunks' = chunks /\ section' = part
    <2>1. /\ Less(M, {}) /\ Less(M, F) /\ Less(M \cup F, O) /\ Less(M \cup F \cup O, R)
      BY <1>8 DEF Less
    <2>2. ToBeCut(rest', kind', uncut', section', unfilled', window', AllIds(chunks'))
      BY <2>1, <1>1, <1>3, <1>4, <1>5, <1>6, <1>7, <1>10 DEF ToBeCut
    <2>3. ChunksFollow(chunks', kind', Ids(window'))
      BY <1>1, <1>10 DEF ChunkInv, DocumentInv
    <2>4. \A type : Cutting(type, kind', uncut', section', unfilled', window')
                      = Cutting(type, kind, uncut, section, unfilled, window)
      BY <1>1, <1>3, <1>5, <1>6, <1>10 DEF Cutting
    <2> QED BY <2>2, <2>3, <2>4, <1>1, <1>10 DEF LinesMove
  <1> QED BY <1>3, <1>9, <1>10

LEMMA CutSubSectionMoves == ASSUME ChunkInv, CutSubSection PROVE LinesMove
  <1>1. /\ section # <<>> /\ unfilled = <<>> /\ window = <<>>
        /\ rest' = rest /\ kind' = kind /\ uncut' = uncut /\ window' = <<>>
        /\ UNCHANGED <<doc, merging>>
    BY DEF CutSubSection
  <1>2. PICK part, others : part = FirstPart(section, "sub") /\ others = OtherParts(section, "sub")
    OBVIOUS
  <1>3. /\ section' = others
        /\ \/ chunks' = Emitted("text", part) /\ unfilled' = <<>>
           \/ chunks' = chunks /\ unfilled' = part
    BY <1>1, <1>2 DEF CutSubSection
  <1>4. Sound(uncut) /\ Sound(section) /\ kind = "text" /\ ItemsFollow(rest)
    BY <1>1 DEF ChunkInv, DocumentInv, ToBeCut
  <1>5. /\ Sound(part) /\ Sound(others) /\ Ids(section) = Ids(part) \cup Ids(others)
        /\ Less(Ids(part), Ids(others))
    BY ONLY <1>1, <1>2, <1>4, CutInTwo
  <1>6. Sound(<<>>) /\ Ids(<<>>) = {}
    BY NoLines
  <1>7. PICK M, R, U, F, O : M = AllIds(chunks) /\ R = AllIds(rest) /\ U = Ids(uncut)
                             /\ F = Ids(part) /\ O = Ids(others)
    OBVIOUS
  <1>8. Less(M, F \cup O) /\ Less(M \cup F \cup O, U) /\ Less(M \cup F \cup O \cup U, R) /\ Less(F, O)
    BY <1>1, <1>5, <1>6, <1>7 DEF ChunkInv, DocumentInv, ToBeCut, Less
  <1>9. CASE chunks' = Emitted("text", part) /\ unfilled' = <<>>
    <2>1. Less(AllIds(chunks), Ids(part))
      BY <1>7, <1>8 DEF Less
    <2>2. ChunksFollow(chunks', "text", Ids(<<>>)) /\ MoreOf("text", F, chunks, chunks')
      BY <1>1, <1>5, <1>7, <1>9, <2>1, PartIsChunk
    <2>3. Less(M \cup F, {}) /\ Less(M \cup F, O) /\ Less(M \cup F \cup O, U) /\ Less(M \cup F \cup O \cup U, R)
      BY <1>8 DEF Less
    <2>4. ToBeCut(rest', kind', uncut', section', unfilled', window', AllIds(chunks'))
      <3>1. AllIds(chunks') = M \cup F
        BY <2>2, <1>7 DEF MoreOf
      <3> QED BY <3>1, <2>3, <1>1, <1>3, <1>4, <1>5, <1>6, <1>7, <1>9 DEF ToBeCut
    <2>5. ASSUME NEW type \in {"text", "table"}
          PROVE  IdsOf(type, rest') \cup Cutting(type, kind', uncut', section', unfilled', window')
                   \cup IdsOf(type, chunks')
                 = IdsOf(type, rest) \cup Cutting(type, kind, uncut, section, unfilled, window)
                   \cup IdsOf(type, chunks)
      <3>1. Cutting(type, kind, uncut, section, unfilled, window) = IF "text" = type THEN F \cup O \cup U ELSE {}
        BY <1>1, <1>4, <1>5, <1>6, <1>7 DEF Cutting
      <3>2. Cutting(type, kind', uncut', section', unfilled', window') = IF "text" = type THEN O \cup U ELSE {}
        BY <1>1, <1>3, <1>4, <1>6, <1>7, <1>9 DEF Cutting
      <3> QED BY <3>1, <3>2, <2>2, <1>1 DEF MoreOf
    <2> QED BY <2>2, <2>4, <2>5, <1>1, <1>4 DEF LinesMove
  <1>10. CASE chunks' = chunks /\ unfilled' = part
    <2>1. /\ Less(M, F) /\ Less(M \cup F, O)
          /\ Less(M \cup F \cup O, U) /\ Less(M \cup F \cup O \cup U, R)
      BY <1>8 DEF Less
    <2>2. ToBeCut(rest', kind', uncut', section', unfilled', window', AllIds(chunks'))
      BY <2>1, <1>1, <1>3, <1>4, <1>5, <1>6, <1>7, <1>10 DEF ToBeCut
    <2>3. ChunksFollow(chunks', kind', Ids(window'))
      BY <1>1, <1>10 DEF ChunkInv, DocumentInv
    <2>4. \A type : Cutting(type, kind', uncut', section', unfilled', window')
                      = Cutting(type, kind, uncut, section, unfilled, window)
      BY <1>1, <1>3, <1>5, <1>6, <1>10 DEF Cutting
    <2> QED BY <2>2, <2>3, <2>4, <1>1, <1>10 DEF LinesMove
  <1> QED BY <1>3, <1>9, <1>10

LEMMA KnobIs == OverlapLines \in Nat
  BY ChunkerAssumption

\* The chunks go before lines in the window that come again or are new.
LEMMA WindowFollows ==
    ASSUME ChunkInv, NEW N \in SUBSET Nat, Less(AllIds(chunks), N),
           NEW C \in SUBSET (Ids(window) \cup N)
    PROVE  ChunksFollow(chunks, kind, C)
  <1>1. chunks \in Seq(Item) /\ Ids(window) \subseteq Nat
    BY NumbersAre
  <1>2. ASSUME NEW i \in DOMAIN chunks
        PROVE  Follows(chunks[i].type, Ids(chunks[i].lines), kind, C)
    <2>1. i \in 1 .. Len(chunks) /\ chunks[i].lines \in Seq(Line)
      BY <1>1, <1>2, ItemsAre
    <2>2. Ids(chunks[i].lines) \subseteq AllIds(chunks) /\ Ids(chunks[i].lines) \subseteq Nat
      BY <1>1, <2>1, AllIdsIs, IdsAre
    <2>3. Less(Ids(chunks[i].lines), N)
      BY <2>2 DEF Less
    <2>4. Follows(chunks[i].type, Ids(chunks[i].lines), kind, Ids(window))
      BY DEF ChunkInv, DocumentInv, ChunksFollow
    <2> QED BY <2>2, <2>3, <2>4, <1>1, FollowsStill
  <1> QED BY <1>2 DEF ChunkInv, DocumentInv, ChunksFollow

\* The window becomes a chunk.
LEMMA WindowIsChunk ==
    ASSUME ChunkInv, NEW C, ChunksFollow(chunks, kind, C), Follows(kind, Ids(window), kind, C),
           NEW all, all = Emitted(kind, window)
    PROVE  ChunksFollow(all, kind, C) /\ MoreOf(kind, Ids(window), chunks, all)
  <1>1. PICK type, lines, s : type = kind /\ lines = window /\ s = chunks
    OBVIOUS
  <1>2. type \in {"text", "table"} /\ Sound(lines) /\ ChunksFollow(s, type, Ids(lines))
    BY <1>1 DEF ChunkInv, DocumentInv, ToBeCut
  <1>3. ChunksFollow(s, type, C) /\ Follows(type, Ids(lines), type, C)
    BY <1>1
  <1>4. Emits(s, type, lines, all)
    BY <1>1 DEF Emitted, Emits
  <1>5. ChunksFollow(all, type, C) /\ MoreOf(type, Ids(lines), s, all)
    BY ONLY <1>2, <1>3, <1>4, EmittedIs, Zenon
  <1> QED BY <1>1, <1>5

LEMMA FillWindowMoves == ASSUME ChunkInv, FillWindow PROVE LinesMove
  <1>1. /\ unfilled # <<>> /\ unfilled' = Tail(unfilled)
        /\ rest' = rest /\ kind' = kind /\ uncut' = uncut /\ section' = section
        /\ UNCHANGED <<doc, merging>>
    BY DEF FillWindow
  <1>2. PICK line, again : line = Head(unfilled) /\ again = LastLines(Overlap, window)
    OBVIOUS
  <1>3. \/ window' = Append(window, line) /\ chunks' = chunks
        \/ window' = Append(again, line) /\ chunks' = Emitted(kind, window)
    BY <1>2 DEF FillWindow
  <1>4. /\ Sound(uncut) /\ Sound(section) /\ Sound(unfilled) /\ Sound(window) /\ ItemsFollow(rest)
        /\ kind \in {"text", "table"} /\ (uncut # <<>> \/ section # <<>> => kind = "text")
    BY DEF ChunkInv, DocumentInv, ToBeCut
  <1>5. PICK L : L = {line.id} \ {0}
    OBVIOUS
  <1>6. /\ line \in Line /\ Sound(unfilled') /\ Ids(unfilled) = Ids(unfilled') \cup L
        /\ Less(L, Ids(unfilled'))
    BY <1>1, <1>2, <1>4, <1>5, HeadAndTail
  <1>7. PICK M, B, W, V, U, R : M = AllIds(chunks) /\ B = Ids(window) /\ W = Ids(unfilled')
                                /\ V = Ids(section) /\ U = Ids(uncut) /\ R = AllIds(rest)
    OBVIOUS
  <1>8. /\ Less(M \cup B, W \cup L) /\ Less(M \cup B \cup W \cup L, V) /\ Less(M \cup B \cup W \cup L \cup V, U)
        /\ Less(M \cup B \cup W \cup L \cup V \cup U, R) /\ Less(L, W)
    BY <1>6, <1>7 DEF ChunkInv, DocumentInv, ToBeCut, Less
  <1>9. M \subseteq Nat /\ B \subseteq Nat /\ L \subseteq Nat /\ chunks \in Seq(Item)
    BY <1>5, <1>6, <1>7, NumbersAre, LineIs
  <1>10. Less(B, L) /\ Less(M, L)
    BY <1>8 DEF Less
  <1>11. CASE window' = Append(window, line) /\ chunks' = chunks
    <2>1. Sound(window') /\ Ids(window') = B \cup L
      BY <1>4, <1>5, <1>6, <1>7, <1>10, <1>11, LineMore
    <2>2. /\ Less(M \cup (B \cup L), W) /\ Less(M \cup (B \cup L) \cup W, V)
          /\ Less(M \cup (B \cup L) \cup W \cup V, U) /\ Less(M \cup (B \cup L) \cup W \cup V \cup U, R)
      BY <1>8 DEF Less
    <2>3. ToBeCut(rest', kind', uncut', section', unfilled', window', AllIds(chunks'))
      BY <2>1, <2>2, <1>1, <1>4, <1>6, <1>7, <1>11 DEF ToBeCut
    <2>4. ChunksFollow(chunks', kind', Ids(window'))
      BY <2>1, <1>1, <1>7, <1>9, <1>10, <1>11, WindowFollows
    <2>5. \A type : Cutting(type, kind', uncut', section', unfilled', window')
                      = Cutting(type, kind, uncut, section, unfilled, window)
      BY <2>1, <1>1, <1>6, <1>7 DEF Cutting
    <2> QED BY <2>3, <2>4, <2>5, <1>1, <1>11 DEF LinesMove
  <1>12. CASE window' = Append(again, line) /\ chunks' = Emitted(kind, window)
    <2>1. PICK Q : Q = Ids(again)
      OBVIOUS
    <2>2. Overlap \in Nat /\ (kind = "table" => Overlap = 0)
      BY KnobIs DEF Overlap
    <2>3. Sound(again) /\ Q \subseteq B /\ (kind = "table" => Q = {})
      BY <2>1, <2>2, <1>2, <1>4, <1>7, LastOnes
    <2>4. Less(Q, L)
      BY <2>3, <1>10 DEF Less
    <2>5. Sound(window') /\ Ids(window') = Q \cup L
      BY <2>1, <2>3, <2>4, <1>5, <1>6, <1>12, LineMore
    <2>6. ChunksFollow(chunks, kind, Q \cup L)
      BY <2>3, <1>7, <1>9, <1>10, WindowFollows
    <2>7. Follows(kind, B, kind, Q \cup L)
      <3>1. Known(B, Q \cup L)
        BY <2>3, <1>9, <1>10 DEF Known, Less
      <3>2. kind = "table" => Less(B, Q \cup L)
        BY <2>3, <1>10 DEF Less
      <3> QED BY <3>1, <3>2 DEF Follows
    <2>8. ChunksFollow(chunks', kind, Q \cup L) /\ MoreOf(kind, B, chunks, chunks')
      <3>1. PICK C : C = Q \cup L
        OBVIOUS
      <3> QED BY <3>1, <2>6, <2>7, <1>7, <1>12, WindowIsChunk
    <2>9. /\ AllIds(chunks') = M \cup B
          /\ \A u : IdsOf(u, chunks') = IdsOf(u, chunks) \cup (IF kind = u THEN B ELSE {})
      BY <2>8, <1>7 DEF MoreOf
    <2>10. /\ Less((M \cup B) \cup (Q \cup L), W) /\ Less((M \cup B) \cup (Q \cup L) \cup W, V)
           /\ Less((M \cup B) \cup (Q \cup L) \cup W \cup V, U)
           /\ Less((M \cup B) \cup (Q \cup L) \cup W \cup V \cup U, R)
      BY <2>3, <1>8 DEF Less
    <2>11. ToBeCut(rest', kind', uncut', section', unfilled', window', AllIds(chunks'))
      BY <2>5, <2>9, <2>10, <1>1, <1>4, <1>6, <1>7 DEF ToBeCut
    <2>12. ASSUME NEW type
           PROVE  Cutting(type, kind', uncut', section', unfilled', window') \cup IdsOf(type, chunks')
                    = Cutting(type, kind, uncut, section, unfilled, window) \cup IdsOf(type, chunks)
      <3>1. Cutting(type, kind', uncut', section', unfilled', window')
              = IF kind = type THEN U \cup V \cup W \cup (Q \cup L) ELSE {}
        BY <2>5, <1>1, <1>7 DEF Cutting
      <3>2. Cutting(type, kind, uncut, section, unfilled, window)
              = IF kind = type THEN U \cup V \cup (W \cup L) \cup B ELSE {}
        BY <1>6, <1>7 DEF Cutting
      <3> QED BY <3>1, <3>2, <2>3, <2>9
    <2>13. ChunksFollow(chunks', kind', Ids(window'))
      BY <2>5, <2>8, <1>1
    <2> QED BY <2>11, <2>12, <2>13, <1>1 DEF LinesMove
  <1> QED BY <1>3, <1>11, <1>12

LEMMA EndWindowMoves == ASSUME ChunkInv, EndWindow PROVE LinesMove
  <1>1. /\ unfilled = <<>> /\ unfilled' = <<>> /\ chunks' = Emitted(kind, window) /\ window' = <<>>
        /\ rest' = rest /\ kind' = kind /\ uncut' = uncut /\ section' = section
        /\ UNCHANGED <<doc, merging>>
    BY DEF EndWindow
  <1>2. /\ Sound(uncut) /\ Sound(section) /\ Sound(window) /\ ItemsFollow(rest)
        /\ kind \in {"text", "table"} /\ (uncut # <<>> \/ section # <<>> => kind = "text")
    BY DEF ChunkInv, DocumentInv, ToBeCut
  <1>3. Sound(<<>>) /\ Ids(<<>>) = {}
    BY NoLines
  <1>4. PICK M, B, V, U, R : M = AllIds(chunks) /\ B = Ids(window)
                             /\ V = Ids(section) /\ U = Ids(uncut) /\ R = AllIds(rest)
    OBVIOUS
  <1>5. Less(M \cup B, V) /\ Less(M \cup B \cup V, U) /\ Less(M \cup B \cup V \cup U, R) /\ Less(M \cup B, {})
    BY <1>4 DEF ChunkInv, DocumentInv, ToBeCut, Less
  <1>6. ChunksFollow(chunks', kind, {}) /\ MoreOf(kind, B, chunks, chunks')
    <2>1. ChunksFollow(chunks, kind, {}) /\ Follows(kind, Ids(window), kind, {})
      BY DEF ChunkInv, DocumentInv, ChunksFollow, Follows, Known, Less
    <2> QED BY <2>1, <1>1, <1>4, WindowIsChunk
  <1>7. /\ AllIds(chunks') = M \cup B
        /\ \A u : IdsOf(u, chunks') = IdsOf(u, chunks) \cup (IF kind = u THEN B ELSE {})
    BY <1>4, <1>6 DEF MoreOf
  <1>8. ToBeCut(rest', kind', uncut', section', unfilled', window', AllIds(chunks'))
    BY <1>1, <1>2, <1>3, <1>4, <1>5, <1>7 DEF ToBeCut
  <1>9. ASSUME NEW type
        PROVE  Cutting(type, kind', uncut', section', unfilled', window') \cup IdsOf(type, chunks')
                 = Cutting(type, kind, uncut, section, unfilled, window) \cup IdsOf(type, chunks)
    <2>1. Cutting(type, kind', uncut', section', unfilled', window') = IF kind = type THEN U \cup V ELSE {}
      BY <1>1, <1>3, <1>4 DEF Cutting
    <2>2. Cutting(type, kind, uncut, section, unfilled, window) = IF kind = type THEN U \cup V \cup B ELSE {}
      BY <1>1, <1>3, <1>4 DEF Cutting
    <2> QED BY <2>1, <2>2, <1>7
  <1> QED BY <1>1, <1>3, <1>6, <1>8, <1>9 DEF LinesMove

-------------------------------------------------------------------------------
(* Chunks are merged: each goes behind what is merged of its type.           *)

LEMMA NoChunkIs == NoChunk \notin Item
  BY ChunkerAssumption

\* The next chunk behind what is merged.
LEMMA NextGoesOn ==
    ASSUME NEW s, NEW k, NEW B, ChunksFollow(s, k, B), s # <<>>, NEW c, c = Head(s), NEW t, t = Tail(s),
           NEW X, TextGoesOn(X, s), NEW Y, RowsGoOn(Y, s)
    PROVE  /\ TextGoesOn(X, t) /\ RowsGoOn(Y, t)
           /\ c.type = "text" => TextGoesOn(X \o c.lines, t)
           /\ c.type = "table" => RowsGoOn(Y \o c.lines, t)
  <1>1. s \in Seq(Item)
    BY DEF ChunksFollow
  <1>2. PICK n : n = Len(t)
    OBVIOUS
  <1>3. /\ c \in Item /\ t \in Seq(Item) /\ c.lines \in Seq(Line)
        /\ Len(s) = n + 1 /\ n \in Nat /\ DOMAIN s = 1 .. n + 1 /\ DOMAIN t = 1 .. n
        /\ s[1] = c /\ \A i \in 1 .. n : t[i] = s[i + 1]
    BY ONLY <1>1, <1>2, s # <<>>, c = Head(s), t = Tail(s), OneItemLess
  <1>4. 1 \in 1 .. n + 1 /\ \A i \in 1 .. n : i + 1 \in 1 .. n + 1
    BY <1>3
  <1>5. Sound(c.lines) /\ \A i \in 1 .. n : Follows(c.type, Ids(c.lines), t[i].type, Ids(t[i].lines))
    BY <1>3, ChunksBehind
  <1>6. TextGoesOn(X, t) /\ RowsGoOn(Y, t)
    BY <1>3, <1>4 DEF TextGoesOn, RowsGoOn
  <1>7. \A i \in 1 .. n : Ids(t[i].lines) \in SUBSET (Nat \ {0})
    <2>1. \A i \in 1 .. n : t[i].lines \in Seq(Line)
      BY ONLY <1>2, <1>3, ItemsAre
    <2>2. \A lines \in Seq(Line) : Ids(lines) \in SUBSET (Nat \ {0})
      <3> TAKE lines \in Seq(Line)
      <3>1. (\A x : x \in Ids(lines) => x # 0) /\ Ids(lines) \subseteq Nat
        BY IdsAre
      <3> QED BY <3>1
    <2> QED BY ONLY <2>1, <2>2
  <1>8. ASSUME c.type = "text" PROVE TextGoesOn(X \o c.lines, t)
    <2>1. PICK Z : Z = X \o c.lines
      OBVIOUS
    <2>2. X \in Seq(Line) /\ OnlyRepeatsGoBack(X) /\ GoesOn(X, Ids(c.lines))
      BY <1>3, <1>4, <1>8 DEF TextGoesOn
    <2>3. /\ Z \in Seq(Line) /\ OnlyRepeatsGoBack(Z)
          /\ \A A \in SUBSET (Nat \ {0}) : GoesOn(X, A) /\ Known(Ids(c.lines), A) => GoesOn(Z, A)
      BY ONLY <2>1, <2>2, <1>5, ChunkBehind
    <2>4. ASSUME NEW i \in 1 .. n, t[i].type = "text" PROVE GoesOn(Z, Ids(t[i].lines))
      <3>1. GoesOn(X, Ids(t[i].lines))
        BY <2>4, <1>3, <1>6 DEF TextGoesOn
      <3>2. Known(Ids(c.lines), Ids(t[i].lines))
        BY <1>5 DEF Follows
      <3>3. Ids(t[i].lines) \in SUBSET (Nat \ {0})
        BY <1>7
      <3> QED BY ONLY <3>1, <3>2, <3>3, <2>3
    <2> QED BY <2>1, <2>3, <2>4, <1>3 DEF TextGoesOn
  <1>9. ASSUME c.type = "table" PROVE RowsGoOn(Y \o c.lines, t)
    <2>1. PICK Z : Z = Y \o c.lines
      OBVIOUS
    <2>2. Sound(Y) /\ Less(Ids(Y), Ids(c.lines))
      BY <1>3, <1>4, <1>9 DEF RowsGoOn
    <2>3. Sound(Z)
      BY ONLY <2>1, <2>2, <1>5, RowsBehind
    <2>4. Ids(Z) = Ids(Y) \cup Ids(c.lines)
      <3>1. Y \in Seq(Line)
        BY <2>2 DEF Sound
      <3> QED BY ONLY <3>1, <2>1, <1>3, IdsOfBoth
    <2>5. ASSUME NEW i \in 1 .. n, t[i].type = "table" PROVE Less(Ids(Z), Ids(t[i].lines))
      <3>1. Less(Ids(Y), Ids(t[i].lines))
        BY <2>5, <1>3, <1>6 DEF RowsGoOn
      <3>2. Less(Ids(c.lines), Ids(t[i].lines))
        BY <2>5, <1>5 DEF Follows
      <3> QED BY ONLY <3>1, <3>2, <2>4 DEF Less
    <2> QED BY <2>1, <2>3, <2>5, <1>3 DEF RowsGoOn
  <1> QED BY <1>6, <1>8, <1>9

\* One chunk less to come.
LEMMA FewerWait ==
    ASSUME ChunkInv, Split, UNCHANGED <<doc, splitting>>, chunks # <<>>, chunks' = Tail(chunks)
    PROVE  DocumentInv'
  <1>1. /\ rest = <<>> /\ uncut = <<>> /\ section = <<>> /\ unfilled = <<>> /\ window = <<>>
        /\ rest' = <<>> /\ uncut' = <<>> /\ section' = <<>> /\ unfilled' = <<>> /\ window' = <<>>
        /\ kind' = kind
    BY DEF Split, splitting
  <1>2. ChunksFollow(chunks, kind, Ids(window)) /\ kind \in {"text", "table"} /\ ItemsFollow(rest)
    BY DEF ChunkInv, DocumentInv, ToBeCut
  <1>3. ChunksFollow(chunks', kind', Ids(window'))
    <2>1. ChunksFollow(Tail(chunks), kind, Ids(window))
      BY <1>2, ChunksBehind
    <2> QED BY <2>1, <1>1
  <1>4. ToBeCut(rest', kind', uncut', section', unfilled', window', AllIds(chunks'))
    BY <1>1, <1>2, NoLines, NoItems DEF ToBeCut, Less
  <1>5. Split'
    BY <1>1 DEF Split
  <1> QED BY <1>3, <1>4, <1>5 DEF DocumentInv

LEMMA SettledIs ==
    ASSUME ChunkInv
    PROVE  /\ merged \in Seq(Item) /\ (current # NoChunk => current \in Item /\ current.lines \in Seq(Line))
           /\ \A type : LinesOf(type, merged) \in Seq(Line)
           /\ Settled("text", merged, current) \in Seq(Line)
           /\ Settled("table", merged, current) \in Seq(Line)
  <1>1. merged \in Seq(Item) /\ (current # NoChunk => current \in Item)
    BY DEF ChunkInv, MergerInv
  <1>2. current # NoChunk => current.lines \in Seq(Line)
    BY <1>1 DEF Item
  <1>3. \A type : LinesOf(type, merged) \in Seq(Line)
    BY <1>1, LinesAre
  <1> QED BY <1>1, <1>2, <1>3 DEF ChunkInv, MergerInv, TextGoesOn, RowsGoOn, Sound

\* The next chunk is taken.
LEMMA NextIsTaken ==
    ASSUME ChunkInv, Split, UNCHANGED <<doc, splitting, dropped>>, chunks # <<>>, chunks' = Tail(chunks),
           merged' \in Seq(Item), current' \in Item,
           \A type \in {"text", "table"} :
              Settled(type, merged', current')
                = IF Head(chunks).type = type THEN Settled(type, merged, current) \o Head(chunks).lines
                  ELSE Settled(type, merged, current)
    PROVE  ChunkInv'
  <1>1. DocumentInv'
    BY FewerWait
  <1>2. PICK c : c = Head(chunks)
    OBVIOUS
  <1>3. PICK X, Y : X = Settled("text", merged, current) /\ Y = Settled("table", merged, current)
    OBVIOUS
  <1>4. X \in Seq(Line) /\ Y \in Seq(Line) /\ TextGoesOn(X, chunks) /\ RowsGoOn(Y, chunks)
    BY <1>3, SettledIs DEF ChunkInv, MergerInv
  <1>5. chunks \in Seq(Item) /\ ChunksFollow(chunks, kind, Ids(window))
    BY DEF ChunkInv, DocumentInv, ChunksFollow
  <1>6. c \in Item /\ c.lines \in Seq(Line) /\ c.type \in {"text", "table"} /\ Adds(chunks', c, chunks)
    BY ONLY <1>2, <1>5, chunks # <<>>, chunks' = Tail(chunks), OneItemLess
  <1>7. /\ TextGoesOn(X, chunks') /\ RowsGoOn(Y, chunks')
        /\ c.type = "text" => TextGoesOn(X \o c.lines, chunks')
        /\ c.type = "table" => RowsGoOn(Y \o c.lines, chunks')
    BY ONLY <1>2, <1>4, <1>5, chunks # <<>>, chunks' = Tail(chunks), NextGoesOn
  <1>8. /\ Settled("text", merged', current') = IF c.type = "text" THEN X \o c.lines ELSE X
        /\ Settled("table", merged', current') = IF c.type = "table" THEN Y \o c.lines ELSE Y
    BY <1>2, <1>3
  <1>9. MergerInv'
    <2>1. WithoutWords(dropped')
      BY DEF ChunkInv, MergerInv
    <2> QED BY <2>1, <1>6, <1>7, <1>8 DEF MergerInv
  <1>10. Ids(X \o c.lines) = Ids(X) \cup Ids(c.lines) /\ Ids(Y \o c.lines) = Ids(Y) \cup Ids(c.lines)
    BY ONLY <1>4, <1>6, IdsOfBoth
  <1>11. UNCHANGED <<rest, kind, uncut, section, unfilled, window, doc, dropped>>
    BY DEF splitting
  <1>12. Placed("text")'
    <2>1. Ids(Settled("text", merged', current')) = Ids(X) \cup (IF c.type = "text" THEN Ids(c.lines) ELSE {})
      BY <1>8, <1>10
    <2>2. IdsOf("text", chunks) = IdsOf("text", chunks') \cup (IF c.type = "text" THEN Ids(c.lines) ELSE {})
      BY <1>6 DEF Adds
    <2>3. Placed("text")
      BY DEF ChunkInv
    <2> QED BY ONLY <2>1, <2>2, <2>3, <1>3, <1>11 DEF Placed
  <1>13. Placed("table")'
    <2>1. Ids(Settled("table", merged', current')) = Ids(Y) \cup (IF c.type = "table" THEN Ids(c.lines) ELSE {})
      BY <1>8, <1>10
    <2>2. IdsOf("table", chunks) = IdsOf("table", chunks') \cup (IF c.type = "table" THEN Ids(c.lines) ELSE {})
      BY <1>6 DEF Adds
    <2>3. Placed("table")
      BY DEF ChunkInv
    <2> QED BY ONLY <2>1, <2>2, <2>3, <1>3, <1>11 DEF Placed
  <1>14. doc' \in Seq(Item)
    BY <1>11 DEF ChunkInv
  <1> QED BY <1>1, <1>9, <1>12, <1>13, <1>14 DEF ChunkInv

LEMMA BehindNothing == \A lines \in Seq(Line) : lines \o <<>> = lines
  OBVIOUS

LEMMA LookAtKeeps == ASSUME ChunkInv, LookAt PROVE ChunkInv'
  <1>1. /\ Split /\ UNCHANGED <<doc, splitting, dropped>> /\ chunks # <<>> /\ chunks' = Tail(chunks)
        /\ current = NoChunk /\ merged' = merged
    BY DEF LookAt
  <1>2. PICK c : c = Head(chunks)
    OBVIOUS
  <1>3. current' = c
    BY <1>2 DEF LookAt
  <1>4. chunks \in Seq(Item)
    BY NumbersAre
  <1>5. c \in Item /\ c.lines \in Seq(Line) /\ c # NoChunk
    BY <1>1, <1>2, <1>4, OneItemLess, NoChunkIs
  <1>6. ASSUME NEW type \in {"text", "table"}
        PROVE  Settled(type, merged', current')
                 = IF c.type = type THEN Settled(type, merged, current) \o c.lines
                   ELSE Settled(type, merged, current)
    <2>1. PICK X : X = LinesOf(type, merged)
      OBVIOUS
    <2>2. X \in Seq(Line)
      BY <2>1, SettledIs
    <2>3. X \o <<>> = X
      BY ONLY <2>2, BehindNothing
    <2>4. Settled(type, merged, current) = X
      BY <2>1, <2>3, <1>1 DEF Settled
    <2>5. Settled(type, merged', current') = X \o (IF c.type = type THEN c.lines ELSE <<>>)
      BY <2>1, <1>1, <1>3, <1>5 DEF Settled
    <2> QED BY <2>3, <2>4, <2>5
  <1>7. merged' \in Seq(Item) /\ current' \in Item
    BY <1>1, <1>3, <1>5, SettledIs
  <1> QED BY <1>1, <1>2, <1>6, <1>7, NextIsTaken

LEMMA AbsorbKeeps == ASSUME ChunkInv, Absorb PROVE ChunkInv'
  <1>1. /\ UNCHANGED <<doc, splitting, dropped>> /\ chunks # <<>> /\ chunks' = Tail(chunks)
        /\ current # NoChunk /\ merged' = merged /\ current.type = "text"
    BY DEF Absorb, AbsorbsNext, Short
  <1>2. PICK c : c = Head(chunks)
    OBVIOUS
  <1>3. current' = Joined(current, c) /\ c.type = "text"
    BY <1>2 DEF Absorb, AbsorbsNext
  <1>4. chunks \in Seq(Item) /\ Split
    BY <1>1, NumbersAre DEF ChunkInv, DocumentInv
  <1>5. c \in Item /\ c.lines \in Seq(Line)
    BY <1>1, <1>2, <1>4, OneItemLess
  <1>6. current \in Item /\ current.lines \in Seq(Line)
    BY <1>1, SettledIs
  <1>7. current' \in Item /\ current'.type = "text" /\ current'.lines = current.lines \o c.lines
    <2>1. current.lines \o c.lines \in Seq(Line)
      BY <1>5, <1>6, IdsOfBoth
    <2>2. current = [type |-> current.type, lines |-> current.lines]
      BY <1>6 DEF Item
    <2>3. current' = [type |-> current.type, lines |-> current.lines \o c.lines]
      BY <1>3, <2>2 DEF Joined
    <2> QED BY <2>1, <2>3, <1>1 DEF Item
  <1>8. ASSUME NEW type \in {"text", "table"}
        PROVE  Settled(type, merged', current')
                 = IF c.type = type THEN Settled(type, merged, current) \o c.lines
                   ELSE Settled(type, merged, current)
    <2>1. PICK X : X = LinesOf(type, merged)
      OBVIOUS
    <2>2. X \in Seq(Line)
      BY <2>1, SettledIs
    <2>3. X \o (current.lines \o c.lines) = (X \o current.lines) \o c.lines
      BY ONLY <2>2, <1>5, <1>6, InAnyOrder
    <2>4. Settled(type, merged, current) = X \o (IF type = "text" THEN current.lines ELSE <<>>)
      BY <2>1, <1>1 DEF Settled
    <2>5. Settled(type, merged', current')
            = X \o (IF type = "text" THEN current.lines \o c.lines ELSE <<>>)
      BY <2>1, <1>1, <1>7, NoChunkIs DEF Settled
    <2> QED BY <2>3, <2>4, <2>5, <1>3
  <1>9. merged' \in Seq(Item)
    BY <1>1, SettledIs
  <1> QED BY <1>1, <1>2, <1>4, <1>7, <1>8, <1>9, NextIsTaken

\* A chunk is settled: nothing moves.
LEMMA SettlingKeeps ==
    ASSUME ChunkInv, Split, UNCHANGED <<doc, splitting, chunks, dropped>>,
           merged' \in Seq(Item), current' = NoChunk,
           \A type \in {"text", "table"} :
              Settled(type, merged', current') = Settled(type, merged, current)
    PROVE  ChunkInv'
  <1>1. UNCHANGED <<rest, kind, uncut, section, unfilled, window, doc, dropped, chunks>>
    BY DEF splitting
  <1>2. Split'
    BY <1>1 DEF Split
  <1>3. DocumentInv'
    BY <1>1, <1>2 DEF ChunkInv, DocumentInv
  <1>4. MergerInv'
    BY <1>1 DEF ChunkInv, MergerInv
  <1>5. Placed("text")' /\ Placed("table")'
    BY <1>1 DEF ChunkInv, Placed
  <1> QED BY <1>1, <1>3, <1>4, <1>5 DEF ChunkInv

LEMMA KeepKeeps == ASSUME ChunkInv, Keep PROVE ChunkInv'
  <1>1. /\ UNCHANGED <<doc, splitting, chunks, dropped>> /\ current # NoChunk
        /\ current' = NoChunk /\ merged' = Append(merged, current)
    BY DEF Keep
  <1>2. Split
    BY <1>1 DEF ChunkInv, DocumentInv
  <1>3. PICK s, c : s = merged /\ c = current
    OBVIOUS
  <1>4. s \in Seq(Item) /\ c \in Item /\ c.lines \in Seq(Line) /\ c # NoChunk
    BY <1>1, <1>3, SettledIs
  <1>5. merged' \in Seq(Item)
    BY <1>1, <1>3, <1>4
  <1>6. ASSUME NEW type \in {"text", "table"}
        PROVE  Settled(type, merged', current') = Settled(type, merged, current)
    <2>1. PICK t : t = Append(s, c)
      OBVIOUS
    <2>2. LinesOf(type, t) = IF c.type = type THEN LinesOf(type, s) \o c.lines ELSE LinesOf(type, s)
      BY ONLY <2>1, <1>4, LinesOfMore
    <2>3. LinesOf(type, s) \in Seq(Line) /\ LinesOf(type, t) \in Seq(Line)
      <3>1. t \in Seq(Item)
        BY <2>1, <1>4
      <3> QED BY ONLY <3>1, <1>4, LinesAre
    <2>4. LinesOf(type, s) \o <<>> = LinesOf(type, s) /\ LinesOf(type, t) \o <<>> = LinesOf(type, t)
      BY ONLY <2>3, BehindNothing
    <2>5. Settled(type, merged', current') = LinesOf(type, t) \o <<>>
      BY <2>1, <1>1, <1>3 DEF Settled
    <2>6. Settled(type, merged, current) = LinesOf(type, s) \o (IF c.type = type THEN c.lines ELSE <<>>)
      BY <1>3, <1>4 DEF Settled
    <2> QED BY <2>2, <2>4, <2>5, <2>6
  <1> QED BY <1>1, <1>2, <1>5, <1>6, SettlingKeeps

LEMMA MergeBackKeeps == ASSUME ChunkInv, MergeBack PROVE ChunkInv'
  <1>1. /\ UNCHANGED <<doc, splitting, chunks, dropped>> /\ current # NoChunk
        /\ current' = NoChunk /\ current.type = "text" /\ TextChunksBefore # {}
    BY DEF MergeBack, JoinsPrevious, Short
  <1>2. Split
    BY <1>1 DEF ChunkInv, DocumentInv
  <1>3. PICK s, c, k : s = merged /\ c = current /\ k = Max(TextChunksBefore)
    OBVIOUS
  <1>4. s \in Seq(Item) /\ c \in Item /\ c.lines \in Seq(Line) /\ c # NoChunk
    BY <1>1, <1>3, SettledIs
  <1>5. k \in 1 .. Len(s) /\ s[k].type = "text" /\ \A j \in 1 .. Len(s) : j > k => s[j].type # "text"
    <2>1. PICK n : n = Len(s)
      OBVIOUS
    <2>2. n \in Nat /\ DOMAIN s = 1 .. n
      BY <2>1, <1>4
    <2>3. PICK T : T = {i \in 1 .. n : s[i].type = "text"}
      OBVIOUS
    <2>4. TextChunksBefore = T
      BY <2>2, <2>3, <1>3 DEF TextChunksBefore
    <2>5. T \subseteq 1 .. n /\ T # {} /\ k = Max(T)
      BY <2>3, <2>4, <1>1, <1>3
    <2>6. k \in T /\ \A j \in T : j <= k
      <3>1. IsFiniteSet(T) /\ T \subseteq Nat
        <4>1. IsFiniteSet(1 .. n)
          BY <2>2, FS_Interval
        <4>2. T \in SUBSET (1 .. n) /\ T \subseteq Nat
          BY ONLY <2>2, <2>5
        <4> QED BY ONLY <4>1, <4>2, FS_Subset
      <3> QED BY ONLY <3>1, <2>5, GreatestOf
    <2> QED BY <2>1, <2>2, <2>3, <2>6
  <1>6. merged' = [s EXCEPT ![k] = Joined(s[k], c)]
    BY <1>3 DEF MergeBack
  <1>7. PICK t : t = [s EXCEPT ![k] = Joined(s[k], c)]
    OBVIOUS
  <1>8. /\ t \in Seq(Item)
        /\ LinesOf("text", t) = LinesOf("text", s) \o c.lines
        /\ LinesOf("table", t) = LinesOf("table", s)
    <2>1. JoinsAt(s, k, c, t)
      BY <1>7 DEF JoinsAt
    <2> QED BY ONLY <2>1, <1>4, <1>5, LinesOfJoined
  <1>9. ASSUME NEW type \in {"text", "table"}
        PROVE  Settled(type, merged', current') = Settled(type, merged, current)
    <2>1. LinesOf(type, s) \in Seq(Line) /\ LinesOf(type, t) \in Seq(Line)
      BY ONLY <1>4, <1>8, LinesAre
    <2>2. LinesOf(type, s) \o <<>> = LinesOf(type, s) /\ LinesOf(type, t) \o <<>> = LinesOf(type, t)
      BY ONLY <2>1, BehindNothing
    <2>3. Settled(type, merged', current') = LinesOf(type, t) \o <<>>
      BY <1>1, <1>6, <1>7 DEF Settled
    <2>4. Settled(type, merged, current) = LinesOf(type, s) \o (IF type = "text" THEN c.lines ELSE <<>>)
      BY <1>1, <1>3, <1>4 DEF Settled
    <2> QED BY <2>2, <2>3, <2>4, <1>8
  <1>10. merged' \in Seq(Item)
    BY <1>6, <1>7, <1>8
  <1> QED BY <1>1, <1>2, <1>9, <1>10, SettlingKeeps

LEMMA DropKeeps == ASSUME ChunkInv, Drop PROVE ChunkInv'
  <1>1. /\ Split /\ UNCHANGED <<doc, splitting, current, merged>> /\ chunks # <<>> /\ chunks' = Tail(chunks)
    BY DEF Drop
  <1>2. PICK c : c = Head(chunks)
    OBVIOUS
  <1>3. dropped' = Append(dropped, c) /\ c.type = "text" /\ ~HasLinguisticContent(c.lines)
    BY <1>2 DEF Drop, Residue, Short
  <1>4. DocumentInv'
    BY <1>1, FewerWait
  <1>5. chunks \in Seq(Item) /\ ChunksFollow(chunks, kind, Ids(window))
    BY NumbersAre DEF ChunkInv, DocumentInv
  <1>6. c \in Item /\ c.lines \in Seq(Line) /\ Adds(chunks', c, chunks)
    BY ONLY <1>1, <1>2, <1>5, OneItemLess
  <1>7. WithoutWords(dropped') /\ Adds(dropped, c, dropped')
    <2>1. PICK s, t, n : s = dropped /\ t = dropped' /\ n = Len(dropped)
      OBVIOUS
    <2>2. s \in Seq(Item) /\ t = Append(s, c) /\ n = Len(s) /\ WithoutWords(s)
      BY <2>1, <1>3 DEF ChunkInv, MergerInv, WithoutWords
    <2>3. Adds(s, c, t)
      BY ONLY <2>2, <1>6, OneItemMore
    <2>4. /\ t \in Seq(Item) /\ DOMAIN t = 1 .. n + 1 /\ DOMAIN s = 1 .. n /\ n \in Nat
          /\ \A i \in 1 .. n : t[i] = s[i]
          /\ t[n + 1] = c
      BY ONLY <2>2, <1>6, AppendProperties
    <2>5. \A i : i \in 1 .. n + 1 <=> i \in 1 .. n \/ i = n + 1
      BY <2>4
    <2>6. WithoutWords(t)
      BY ONLY <2>2, <2>4, <2>5, <1>3 DEF WithoutWords
    <2> QED BY <2>1, <2>3, <2>6
  <1>8. PICK X, Y : X = Settled("text", merged, current) /\ Y = Settled("table", merged, current)
    OBVIOUS
  <1>9. TextGoesOn(X, chunks) /\ RowsGoOn(Y, chunks)
    BY <1>8 DEF ChunkInv, MergerInv
  <1>10. TextGoesOn(X, chunks') /\ RowsGoOn(Y, chunks')
    BY ONLY <1>1, <1>2, <1>5, <1>9, NextGoesOn
  <1>11. MergerInv'
    BY <1>1, <1>7, <1>8, <1>10 DEF ChunkInv, MergerInv
  <1>12. UNCHANGED <<rest, kind, uncut, section, unfilled, window, doc, current, merged>>
    BY <1>1 DEF splitting
  <1>13. Placed("text")' /\ Placed("table")'
    <2>1. /\ IdsOf("text", chunks) = IdsOf("text", chunks') \cup Ids(c.lines)
          /\ IdsOf("table", chunks) = IdsOf("table", chunks')
      BY <1>3, <1>6 DEF Adds
    <2>2. /\ IdsOf("text", dropped') = IdsOf("text", dropped) \cup Ids(c.lines)
          /\ IdsOf("table", dropped') = IdsOf("table", dropped)
      BY <1>3, <1>7 DEF Adds
    <2> QED BY <2>1, <2>2, <1>12 DEF ChunkInv, Placed
  <1> QED BY <1>4, <1>11, <1>12, <1>13 DEF ChunkInv

LEMMA DocumentOrder ==
    \A d \in Documents :
        /\ d \in Seq(Item)
        /\ \A i, j \in DOMAIN d : \A m \in DOMAIN d[i].lines, n \in DOMAIN d[j].lines :
             d[i].lines[m].id # 0 /\ d[j].lines[n].id # 0 /\ (i < j \/ (i = j /\ m < n))
               => d[i].lines[m].id < d[j].lines[n].id
  BY DocumentsAssumption

LEMMA DocumentFollows == ASSUME NEW d \in Documents PROVE ItemsFollow(d)
  <1>1. d \in Seq(Item)
    BY DocumentOrder
  <1>2. \A i \in DOMAIN d : d[i].lines \in Seq(Line)
    BY <1>1, ItemsAre
  <1>3. ASSUME NEW i \in DOMAIN d PROVE Rising(d[i].lines)
    BY <1>3, DocumentOrder DEF Rising
  <1>4. ASSUME NEW i \in DOMAIN d, NEW j \in DOMAIN d, i < j
        PROVE  Less(Ids(d[i].lines), Ids(d[j].lines))
    <2> SUFFICES ASSUME NEW a \in Ids(d[i].lines), NEW b \in Ids(d[j].lines) PROVE a < b
      BY DEF Less
    <2>1. PICK m \in DOMAIN d[i].lines : d[i].lines[m].id = a
      BY DEF Ids
    <2>2. PICK n \in DOMAIN d[j].lines : d[j].lines[n].id = b
      BY DEF Ids
    <2>3. a # 0 /\ b # 0
      BY DEF Ids
    <2> QED BY <2>1, <2>2, <2>3, <1>4, DocumentOrder
  <1> QED BY <1>1, <1>3, <1>4 DEF ItemsFollow

LEMMA ChunkInvInit == ASSUME ChunkInit PROVE ChunkInv
  <1>1. /\ doc \in Documents /\ rest = doc /\ kind = "text" /\ current = NoChunk
        /\ uncut = <<>> /\ section = <<>> /\ unfilled = <<>> /\ window = <<>>
        /\ chunks = <<>> /\ merged = <<>> /\ dropped = <<>>
    BY DEF ChunkInit
  <1>2. ItemsFollow(rest) /\ doc \in Seq(Item)
    BY <1>1, DocumentFollows, DocumentOrder
  <1>3. <<>> \in Seq(Item) /\ DOMAIN <<>> = {}
    OBVIOUS
  <1>4. DocumentInv
    <2>1. ToBeCut(rest, kind, uncut, section, unfilled, window, AllIds(chunks))
      BY <1>1, <1>2, NoLines, NoItems DEF ToBeCut, Less
    <2>2. ChunksFollow(chunks, kind, Ids(window))
      BY <1>1, <1>3 DEF ChunksFollow
    <2> QED BY <2>1, <2>2, <1>1 DEF DocumentInv
  <1>5. MergerInv
    <2>1. WithoutWords(dropped)
      BY <1>1, <1>3 DEF WithoutWords
    <2> QED BY <2>1, <1>1, <1>3, NothingSettled DEF MergerInv
  <1>6. ASSUME NEW type PROVE Placed(type)
    <2>1. Settled(type, merged, current) = <<>>
      BY <1>1, NothingSettled
    <2>2. Cutting(type, kind, uncut, section, unfilled, window) = {}
      BY <1>1, NoLines DEF Cutting
    <2> QED BY <2>1, <2>2, <1>1, NoLines, NoItems DEF Placed
  <1> QED BY <1>2, <1>4, <1>5, <1>6 DEF ChunkInv

LEMMA ChunkInvNext == ASSUME ChunkInv, [ChunkNext]_chunkVars PROVE ChunkInv'
  <1>1. CASE TakeItem
    BY <1>1, TakeItemMoves, LinesMoveKeeps DEF TakeItem, Split
  <1>2. CASE CutSection
    BY <1>2, CutSectionMoves, LinesMoveKeeps DEF CutSection, Split
  <1>3. CASE CutSubSection
    BY <1>3, CutSubSectionMoves, LinesMoveKeeps DEF CutSubSection, Split
  <1>4. CASE FillWindow
    BY <1>4, FillWindowMoves, LinesMoveKeeps DEF FillWindow, Split
  <1>5. CASE EndWindow
    BY <1>5, EndWindowMoves, LinesMoveKeeps DEF EndWindow, Split
  <1>6. CASE Drop \/ LookAt \/ Absorb \/ MergeBack \/ Keep
    BY <1>6, DropKeeps, LookAtKeeps, AbsorbKeeps, MergeBackKeeps, KeepKeeps
  <1>7. CASE UNCHANGED chunkVars
    <2>1. UNCHANGED <<doc, rest, kind, uncut, section, unfilled, window, chunks, current, merged, dropped>>
      BY <1>7 DEF chunkVars, splitting, merging
    <2>2. DocumentInv'
      BY <2>1 DEF ChunkInv, DocumentInv, Split
    <2>3. MergerInv'
      BY <2>1 DEF ChunkInv, MergerInv
    <2>4. Placed("text")' /\ Placed("table")'
      BY <2>1 DEF ChunkInv, Placed
    <2> QED BY <2>1, <2>2, <2>3, <2>4 DEF ChunkInv
  <1> QED BY <1>1, <1>2, <1>3, <1>4, <1>5, <1>6, <1>7 DEF ChunkNext

\* At the end, what is not in the chunks was dropped for want of words.
LEMMA AllIsPlaced == ASSUME ChunkInv PROVE ChunksHoldDocument
  <1> SUFFICES ASSUME Finished PROVE ChunksHoldDocument
    BY DEF ChunksHoldDocument, NoLineLost, ReadingOrderKept
  <1>1. rest = <<>> /\ uncut = <<>> /\ section = <<>> /\ unfilled = <<>> /\ window = <<>>
        /\ chunks = <<>> /\ current = NoChunk
    BY DEF Finished, Split
  <1>2. merged \in Seq(Item) /\ dropped \in Seq(Item) /\ doc \in Seq(Item)
    BY DEF ChunkInv, MergerInv, WithoutWords
  <1>3. ASSUME NEW type PROVE Settled(type, merged, current) = LinesOf(type, merged)
    <2>1. LinesOf(type, merged) \in Seq(Line)
      BY <1>2, LinesAre
    <2>2. LinesOf(type, merged) \o <<>> = LinesOf(type, merged)
      BY ONLY <2>1, BehindNothing
    <2> QED BY <2>2, <1>1 DEF Settled
  <1>4. ASSUME NEW type \in {"text", "table"}
        PROVE  Ids(LinesOf(type, doc)) = Ids(LinesOf(type, merged)) \cup Ids(LinesOf(type, dropped))
    <2>1. Placed(type)
      BY DEF ChunkInv
    <2>2. Cutting(type, kind, uncut, section, unfilled, window) = {}
      BY <1>1, NoLines DEF Cutting
    <2>3. IdsOf(type, rest) = {} /\ IdsOf(type, chunks) = {}
      BY <1>1, NoItems
    <2>4. IdsOf(type, doc) = Ids(LinesOf(type, doc)) /\ IdsOf(type, dropped) = Ids(LinesOf(type, dropped))
      BY <1>2, LinesAre
    <2> QED BY <2>1, <2>2, <2>3, <2>4, <1>3 DEF Placed
  <1>5. ASSUME NEW type \in {"text", "table"}
        PROVE  Ids(LinesOf(type, dropped))
                 \subseteq {line.id : line \in {l \in ToSet(LinesOf(type, dropped)) : ~l.words}}
    <2>1. PICK lines : lines = LinesOf(type, dropped)
      OBVIOUS
    <2>2. lines \in Seq(Line) /\ FromChunks(lines, type, dropped)
      BY <2>1, <1>2, LinesAre
    <2> SUFFICES ASSUME NEW x \in Ids(lines)
                 PROVE  \E l \in ToSet(lines) : ~l.words /\ l.id = x
      BY <2>1
    <2>3. PICK p \in DOMAIN lines : lines[p].id = x
      BY DEF Ids
    <2>4. PICK i \in DOMAIN dropped : \E m \in DOMAIN dropped[i].lines : lines[p] = dropped[i].lines[m]
      BY <2>2 DEF FromChunks
    <2>5. ~HasLinguisticContent(dropped[i].lines)
      BY DEF ChunkInv, MergerInv, WithoutWords
    <2>6. ~lines[p].words
      BY <2>4, <2>5 DEF HasLinguisticContent
    <2>7. lines[p] \in ToSet(lines)
      BY DEF ToSet
    <2> QED BY <2>3, <2>6, <2>7
  <1>6. NoLineLost
    BY <1>4, <1>5 DEF NoLineLost
  <1>7. ReadingOrderKept
    <2>1. OnlyRepeatsGoBack(LinesOf("text", merged))
      BY <1>3 DEF ChunkInv, MergerInv, TextGoesOn
    <2>2. Rising(LinesOf("table", merged))
      BY <1>3 DEF ChunkInv, MergerInv, RowsGoOn, Sound
    <2> QED BY <2>1, <2>2, <1>4 DEF ReadingOrderKept
  <1> QED BY <1>6, <1>7 DEF ChunksHoldDocument

\* Of every document, however long its lines are and wherever headers stand, the chunks hold
\* each line, in its order, except for what is dropped for want of a letter or a digit.
THEOREM ChunksHoldDocumentHolds == ChunkSpec => []ChunksHoldDocument
  <1>1. ChunkInit => ChunkInv
    BY ChunkInvInit
  <1>2. ChunkInv /\ [ChunkNext]_chunkVars => ChunkInv'
    BY ChunkInvNext
  <1>3. ChunkInv => ChunksHoldDocument
    BY AllIsPlaced
  <1> QED BY <1>1, <1>2, <1>3, PTL DEF ChunkSpec

===============================================================================
