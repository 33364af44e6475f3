------------------------------ MODULE MergeLogic ------------------------------
(* The fields of a bid's documents combined into one row                    *)
(* (realtime/merge/logic.py).  Documents are known by their numbers, which  *)
(* order them as the S3 listing does.  An element of a list is a record, or *)
(* Odd when the model put something else there.                             *)
EXTENDS LlmSchema, Naturals, FiniteSetsExt

\* Keyed objects: the key and the rest.  Licences: the local or_group (Null
\* when absent) and the name.
IsRecord(item) == item # Odd

NonNull(documents, f) == {i \in DOMAIN documents : documents[i].value[f] # Null}

\* Mutated form: the value of the last document.
MergeScalarOfLast(documents, f) ==
    LET given == NonNull(documents, f)
    IN  IF given = {} THEN Null ELSE documents[Max(given)].value[f]

\* The value of the document with the smallest number.
MergeScalar(documents, f) ==
    LET given == NonNull(documents, f)
    IN  IF given = {} THEN Null ELSE documents[Min(given)].value[f]

ScalarConflict(documents, f) ==
    \E i, j \in NonNull(documents, f) : documents[i].value[f] # documents[j].value[f]

-------------------------------------------------------------------------------
(* Lists.  An item has its place <<document, position>>, and a merged list  *)
(* holds items by the places they come from.                                *)

Places(documents, f) ==
    UNION {{i} \X DOMAIN documents[i].value[f] : i \in DOMAIN documents}

AllItems(documents, f) ==
    [p \in Places(documents, f) |-> documents[p[1]].value[f][p[2]]]

Before(p, q) == p[1] < q[1] \/ (p[1] = q[1] /\ p[2] < q[2])

KeyOf(item) == IF IsRecord(item) THEN item.key ELSE item

\* Each item unless one with its key is before it.
FirstOfEachKey(items, Key(_)) ==
    Restrict(items, {p \in DOMAIN items :
                        \A q \in DOMAIN items : Before(q, p) => Key(items[q]) # Key(items[p])})

MergeStrings(documents, f) == FirstOfEachKey(AllItems(documents, f), LAMBDA item : item)

MergeObjects(documents, f) == FirstOfEachKey(AllItems(documents, f), KeyOf)

\* Mutated form: nobody looks at what is left out.
NoObjectConflicts(documents, f) == {}

\* What was left out although it differs from what was kept under its key.
ObjectConflicts(documents, f) ==
    LET kept == MergeObjects(documents, f)
    IN  {item \in Range(AllItems(documents, f)) :
            IsRecord(item) /\ \E q \in DOMAIN kept : KeyOf(kept[q]) = KeyOf(item) /\ kept[q] # item}

Groups(items) == {items[k].group : k \in DOMAIN items} \ {Null}

Shifted(item, offset) ==
    IF item.group = Null THEN item ELSE [item EXCEPT !.group = @ + offset]

\* One document alone keeps its items as they are.  Otherwise the groups of
\* each document are shifted by the largest group so far, and of two items of
\* one name the first stays.
MergeLicenses(documents) ==
    LET f == "required_licenses"
        contributing == {i \in DOMAIN documents : documents[i].value[f] # <<>>}
        Largest(i) == Max({0} \union Groups(documents[i].value[f]))
        offset[i \in contributing] ==
            LET earlier == {j \in contributing : j < i}
            IN  IF earlier = {} THEN 0 ELSE offset[Max(earlier)] + Largest(Max(earlier))
        items == AllItems(documents, f)
    IN  IF Cardinality(contributing) = 1 THEN items
        ELSE FirstOfEachKey([p \in DOMAIN items |-> Shifted(items[p], offset[p[1]])],
                            LAMBDA item : item.name)

-------------------------------------------------------------------------------

EvidenceOf(documents, f) ==
    {i \in DOMAIN documents :
        \E k \in DOMAIN documents[i].evidence : documents[i].evidence[k].field = f}

\* Mutated form: what some document has not found.
NotFoundAnywhere(documents) == UNION {documents[i].notFound : i \in DOMAIN documents}

\* What no document has found.
NotFound(documents) ==
    {f \in UNION {documents[i].notFound : i \in DOMAIN documents} :
        \A i \in DOMAIN documents : f \in documents[i].notFound}

\* extraction_meta, without the time.
Meta(documents) ==
    [notFound |-> NotFound(documents),
     perDocument |-> [i \in DOMAIN documents |->
                        [dropped |-> documents[i].dropped, demoted |-> documents[i].demoted]]]

\* An unhashable value or key, an item without a field, or an item that is no
\* dictionary where the licences of two documents are shifted.
Raises(documents) ==
    \/ \E i \in DOMAIN documents :
        \/ \E f \in ScalarFields : documents[i].value[f] = Odd
        \/ \E k \in DOMAIN documents[i].evidence : documents[i].evidence[k].field = Null
        \/ \E item \in Range(documents[i].value["performance_reqs"]) :
                IsRecord(item) /\ item.key = Odd
    \/ LET listing == {i \in DOMAIN documents : documents[i].value["required_licenses"] # <<>>}
       IN  /\ Cardinality(listing) > 1
           /\ \E i \in listing : Odd \in Range(documents[i].value["required_licenses"])

\* merge_qualification_documents for documents that do not raise.
Merge(documents) ==
    [value |-> [f \in DomainFields |->
                    IF f \in ScalarFields THEN MergeScalar(documents, f)
                    ELSE IF f = "required_licenses" THEN MergeLicenses(documents)
                    ELSE IF f = "required_certs" THEN MergeStrings(documents, f)
                    ELSE MergeObjects(documents, f)],
     conflicts |-> {f \in ScalarFields : ScalarConflict(documents, f)}
                   \union {f \in {"performance_reqs"} : ObjectConflicts(documents, f) # {}},
     evidence |-> [f \in DomainFields |-> EvidenceOf(documents, f)],
     meta |-> Meta(documents)]

===============================================================================
