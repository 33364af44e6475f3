------------------------------- MODULE QualMerge -------------------------------
(* The fields of a bid's documents combined by the loader of the backfill   *)
(* (loading/qual_merge.py): unlike MergeLogic it takes lists from one       *)
(* document, and fields that belong together from one document as well.     *)
(* Documents are known by their numbers.                                    *)
EXTENDS LlmSchema, Naturals, FiniteSetsExt

CONSTANT Width      \* length of a scalar in JSON

CutlineGroup == {"award_cutline_type", "award_cutline_value"}

Missing(document, f) == document.value[f] = NoValue(f)

WidthOf(v) == IF v = Null THEN 0 ELSE Width[v]

Candidates(documents, f) == {i \in DOMAIN documents : ~Missing(documents[i], f)}

HasEvidence(document, f) == f \in GroundedFields(document.evidence)

\* A scalar on which documents differ: evidence first, then the number.
IndependentScalar(documents, f) ==
    LET candidates == Candidates(documents, f)
        proven == {i \in candidates : HasEvidence(documents[i], f)}
        differ == \E i, j \in candidates : documents[i].value[f] # documents[j].value[f]
    IN  IF candidates = {} THEN Null
        ELSE IF differ /\ proven # {} THEN documents[Min(proven)].value[f]
        ELSE documents[Min(candidates)].value[f]

\* A list: the most detailed one as it is.
IndependentList(documents, f) ==
    LET length(i) == Len(documents[i].value[f])
        candidates == Candidates(documents, f)
        longest == {i \in candidates : \A j \in candidates : length(i) >= length(j)}
    IN  IF candidates = {} THEN <<>> ELSE documents[Min(longest)].value[f]

Filled(document) == Cardinality({f \in CutlineGroup : ~Missing(document, f)})

GroupWidth(document) ==
    WidthOf(document.value["award_cutline_type"]) + WidthOf(document.value["award_cutline_value"])

Fuller(d, e) ==
    \/ Filled(d) > Filled(e)
    \/ Filled(d) = Filled(e) /\ GroupWidth(d) >= GroupWidth(e)

\* Both fields of the group from the document that fills most of them.
MergeGroup(documents) ==
    LET candidates == {i \in DOMAIN documents : Filled(documents[i]) > 0}
        best == {i \in candidates : \A j \in candidates : Fuller(documents[i], documents[j])}
    IN  [f \in CutlineGroup |->
            IF candidates = {} THEN Null ELSE documents[Min(best)].value[f]]

FieldConflict(documents, f) ==
    \E i, j \in Candidates(documents, f) : documents[i].value[f] # documents[j].value[f]

\* merge_docs: every field outside the group by itself, the group as a whole.
MergeDocs(documents) ==
    [value |-> [f \in DomainFields |->
                    IF f \in CutlineGroup THEN MergeGroup(documents)[f]
                    ELSE IF f \in ScalarFields THEN IndependentScalar(documents, f)
                    ELSE IndependentList(documents, f)],
     conflict |-> \E f \in ScalarFields : FieldConflict(documents, f),
     notFound |-> UNION {documents[i].notFound : i \in DOMAIN documents}]

===============================================================================
