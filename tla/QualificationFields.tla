-------------------------- MODULE QualificationFields --------------------------
(* The fields of one bid, from the answers of the language model to the     *)
(* row: each document is validated and stored on its own and in any order   *)
(* (extract_llm), and merge batches combine what is there so far            *)
(* (_process_target).                                                       *)
EXTENDS MergeLogic

CONSTANTS
    Inputs,     \* functions from document numbers to answers
    Width       \* length of a scalar in JSON

\* A list is a sequence, and the length of what is no null a number.
ASSUME AnswersAssumption ==
    \A numbered \in Inputs :
        /\ numbered = [i \in DOMAIN numbered |-> numbered[i]]
        /\ IsFiniteSet(DOMAIN numbered) /\ DOMAIN numbered \subseteq Nat
        /\ \A i \in DOMAIN numbered :
             /\ \A f \in ListFields :
                  numbered[i].value[f] \in Seq(Range(numbered[i].value[f]))
             /\ \A f \in ScalarFields :
                  numbered[i].value[f] # Null => Width[numbered[i].value[f]] \in Nat

Loader == INSTANCE QualMerge

VARIABLES
    answers,    \* the answer of the language model for each document
    stored,     \* documents under qualifications/
    row,        \* the merged columns, or Null
    included    \* documents the row was merged from

fieldsVars == <<answers, stored, row, included>>

\* The documents of the bid as load_qualifications reads them.
Listing(ids) == [i \in ids |-> Document(answers[i])]

FieldsInit ==
    /\ answers \in Inputs
    /\ stored = {}
    /\ row = Null
    /\ included = {}

\* An answer that is valid is stored; one that is not raises, and the message
\* ends in the dead-letter queue.
Store(i) ==
    /\ i \notin stored
    /\ ~Invalid(answers[i])
    /\ stored' = stored \union {i}
    /\ UNCHANGED <<answers, row, included>>

\* One target of a merge batch; a merge that raises leaves the row alone.
ProcessTarget ==
    /\ stored # {}
    /\ ~Raises(Listing(stored))
    /\ row' = Merge(Listing(stored))
    /\ included' = stored
    /\ UNCHANGED <<answers, stored>>

FieldsNext == ProcessTarget \/ \E i \in DOMAIN answers : Store(i)

FieldsSpec == FieldsInit /\ [][FieldsNext]_fieldsVars

-------------------------------------------------------------------------------
(* Properties.                                                              *)

Values(f) == {Document(answers[i]).value[f] : i \in included}

\* Every scalar of a row was given by a document that has evidence for it, and
\* the row names that document: the evidence filter of schema.py and the merge of
\* logic.py together leave no value without a source.
ValuesGrounded ==
    row # Null =>
        \A f \in ScalarFields : row.value[f] # Null =>
            \E i \in row.evidence[f] \intersect included :
                /\ Document(answers[i]).value[f] = row.value[f]
                /\ \E k \in DOMAIN answers[i].evidence :
                        answers[i].evidence[k].field = f /\ answers[i].evidence[k].grounded

\* No value is lost in silence: what a document says of a scalar or an object is
\* in the row, or the row records a conflict of that field (_merge_scalar_field,
\* _merge_object_list_field); names are all there; and the row counts, by document,
\* the fields of the answers that fell for want of evidence.
NothingLostInSilence ==
    row # Null =>
        /\ \A f \in ScalarFields : Values(f) \subseteq {row.value[f], Null}
                                   \/ f \in row.conflicts
        /\ \A items \in Values("performance_reqs") : \A item \in Range(items) :
              \/ item \in Range(row.value["performance_reqs"])
              \/ "performance_reqs" \in row.conflicts
        /\ \A names \in Values("required_certs") :
              Range(names) \subseteq Range(row.value["required_certs"])
        /\ \A i \in included :
              row.meta.perDocument[i].demoted =
                  Cardinality({f \in DomainFields :
                                  answers[i].value[f] # Document(answers[i]).value[f]})

\* The row says what the documents say: nothing else, and nothing less in silence.
RowSaysDocuments == ValuesGrounded /\ NothingLostInSilence

Lists == Values("required_licenses")

Related(a, b) ==
    IsRecord(a) /\ IsRecord(b) /\ a.group = b.group /\ a.group # Null

\* A bidder's licences meet a list when they include one of every group
\* (schema.py:27).
Meets(licenses, items) ==
    \A item \in Range(items) :
        \E other \in Range(items) :
            /\ other.name \in licenses
            /\ other = item \/ Related(other, item)

Names(items) == {item.name : item \in Range(items)}

\* The licences of the row ask for what the documents ask for, neither more nor
\* less, read as schema.py:27 defines the groups.
LicensesKeepMeaning ==
    row # Null /\ (\A items \in Lists : Odd \notin Range(items)) =>
        \A licenses \in SUBSET UNION {Names(items) : items \in Lists} :
            Meets(licenses, row.value["required_licenses"])
                <=> \A items \in Lists : Meets(licenses, items)

\* The merge Lambda and the loader of the backfill, which resolve differences by
\* different rules, give a bid the same scalars for the same documents: what the
\* schema lets through has evidence, so both come down to the smallest number.  They
\* part only on the award line, where the loader keeps type and value of one document
\* together and the Lambda mixes documents that differ or leave one of the two out.
MergersAgree ==
    row # Null /\ included = stored =>
        LET loaded == Loader!MergeDocs(Listing(stored))
            Whole(i) == \A f \in Loader!CutlineGroup : Document(answers[i]).value[f] # Null
        IN  /\ \A f \in ScalarFields \ Loader!CutlineGroup : loaded.value[f] = row.value[f]
            /\ row.conflicts \intersect Loader!CutlineGroup = {} /\ (\E i \in stored : Whole(i))
               => \A f \in Loader!CutlineGroup : loaded.value[f] = row.value[f]

\* The row says what the documents say, and what the other merger would make of them.
RowIsTrue == RowSaysDocuments /\ MergersAgree

\* A further document adds to the row and takes nothing away: a scalar that has a
\* value keeps one, objects stay, and what was found stays found, in whatever order
\* the documents arrive.
LaterDocumentsAdd ==
    [][row # Null =>
        /\ \A f \in ScalarFields : row.value[f] # Null => row'.value[f] # Null
        /\ {KeyOf(item) : item \in Range(row.value["performance_reqs"])}
              \subseteq {KeyOf(item) : item \in Range(row'.value["performance_reqs"])}
        /\ row.conflicts \subseteq row'.conflicts
        /\ row'.meta.notFound \subseteq row.meta.notFound]_fieldsVars

===============================================================================
