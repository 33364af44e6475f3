---------------------------- MODULE TagExperiments ----------------------------
(***************************************************************************)
(* The experiments from which the tagger came (clustering/), programs run  *)
(* by hand, for one category: 14_hparam_search.py tries all settings of a  *)
(* classifier, 15_tuning_gain_breakdown.py measures again what they gained,*)
(* 11_llm_title_tagging.py lets a language model tag the same test set,    *)
(* 16_recover_llm_metrics.py recomputes numbers from its files.  They meet *)
(* in outputs/ and read bid_table anew while merges change it.             *)
(*                                                                         *)
(* A program runs once at a time.  Rows are known by their numbers; how    *)
(* well a setting does is given by the rows it is tried on.  The split     *)
(* depends on the titles only, by the fixed seed of all programs.          *)
(***************************************************************************)
EXTENDS Naturals, FiniteSets, Sequences

CONSTANTS
    Corpus,         \* notices of meta_dedup.csv, in its order
    TitleOf,        \* title, normalised: a number, as titles are ordered
    ItemCode,
    TagTable,       \* THNG_MAP, Absent for a code it has not
    MinTagCount,
    Tags,           \* in their order
    Shuffle,        \* where shuffling with the seed puts the k-th of n (one permutation
                    \* of each length stands for those of the three generators)
    Baseline,       \* the setting of the earlier experiments
    Winners,        \* settings that share the best score, by the rows loaded
    Models,         \* language models; a file name tells two of them apart
    Qwen,           \* the one used first
    SampleSizes,    \* --n
    FewShots,       \* --few-shot
    Batch,          \* titles asked in one call
    Attempts,
    OldFiles,       \* numbers of examples of predictions whose file names no model
    Overwritten,    \* those of them that several models have written
    Handwritten,    \* numbers of examples for which a result was copied by hand
    Changing,       \* rows that may gain and lose their code (bound)
    MaxRecords,     \* lines of metrics.jsonl (bound)
    Other, Unknown, Absent

ASSUME CorpusAssumption == Corpus \subseteq Nat /\ IsFiniteSet(Corpus) /\ Changing \subseteq Corpus

\* Nothing is lost by shuffling.
ASSUME ShuffleAssumption ==
    \A n \in 1 .. Cardinality(Corpus) :
        /\ Shuffle[n] \in [1 .. n -> 1 .. n]
        /\ \A i, j \in 1 .. n : Shuffle[n][i] = Shuffle[n][j] => i = j

\* Each tag is listed once.
ASSUME TagsAssumption ==
    /\ Tags \in Seq({Tags[t] : t \in DOMAIN Tags})
    /\ \A s, t \in DOMAIN Tags : Tags[s] = Tags[t] => s = t
    /\ \E t \in DOMAIN Tags : Tags[t] = Other
    /\ \A r \in Corpus : TagTable[ItemCode[r]] = Absent
                          \/ \E t \in DOMAIN Tags : Tags[t] = TagTable[ItemCode[r]]

ASSUME ExpAssumption ==
    /\ \A data \in SUBSET Corpus : IsFiniteSet(Winners[data])
    /\ Batch \in Nat \ {0} /\ SampleSizes \subseteq Nat /\ FewShots \subseteq Nat
    /\ Absent \notin Models

VARIABLES
    usable,         \* rows for which bid_table has a usable code
    grid,           \* outputs/hparam_{cat}.csv
    predictions,    \* outputs/llm_vs_tfidf_*.csv
    metrics,        \* outputs/metrics.jsonl
    gridSearch, breakdown, labelling    \* the running programs, or Absent

expVars == <<usable, grid, predictions, metrics, gridSearch, breakdown, labelling>>

Predictions(few, slug, model, sample, answers) ==
    [few |-> few, slug |-> slug, model |-> model, sample |-> sample, answers |-> answers]

\* Of a file that was overwritten nobody knows whose it is.
ExpInit ==
    /\ usable = Corpus
    /\ grid = Absent
    /\ \E last \in Models :
         LET model(k) == IF k \in Overwritten THEN last ELSE Qwen
         IN  predictions = {Predictions(k, Absent, model(k), <<>>, <<>>) : k \in OldFiles}
    /\ metrics = {}
    /\ gridSearch = Absent /\ breakdown = Absent /\ labelling = Absent

-------------------------------------------------------------------------------
(* The data and their split.                                                *)

\* A merge finds a code for the notice, or none where there was one.
Recode(r) ==
    /\ usable' = IF r \in usable THEN usable \ {r} ELSE usable \union {r}
    /\ UNCHANGED <<grid, predictions, metrics, gridSearch, breakdown, labelling>>

\* load: a code too rare, or unknown, becomes "other".
Label(data, r) ==
    IF \/ Cardinality({s \in data : ItemCode[s] = ItemCode[r]}) < MinTagCount
       \/ TagTable[ItemCode[r]] = Absent
    THEN Other ELSE TagTable[ItemCode[r]]

\* load_labeled
Labels(data) == [r \in data |-> Label(data, r)]

TitlesIn(S) == {TitleOf[r] : r \in S}
Position(T, t) == Cardinality({u \in T : u <= t})

\* Mutated form: rows are drawn, not titles.
DrawnRows(S, a, b) ==
    LET n == Cardinality(S)
    IN  {r \in S : b * (Shuffle[n][Position(S, r)] - 1) < a * n}

\* GroupShuffleSplit: of n shuffled titles the first a/b, rounded up.
DrawnTitles(S, a, b) ==
    LET T == TitlesIn(S)
        n == Cardinality(T)
    IN  {r \in S : b * (Shuffle[n][Position(T, TitleOf[r])] - 1) < a * n}

Rest(data) == DrawnTitles(data, 3, 10)
TrainRows(data) == data \ Rest(data)
TestRows(data) == DrawnTitles(Rest(data), 1, 2)
ValRows(data) == Rest(data) \ TestRows(data)

\* It raises if nothing is left to learn from.
Splittable(data) == TrainRows(data) # {} /\ ValRows(data) # {}

-------------------------------------------------------------------------------
(* 14_hparam_search.py                                                      *)

Trained(setting, learned, tested) == [setting |-> setting, learned |-> learned, tested |-> tested]

Record(line) == Cardinality(metrics) < MaxRecords /\ metrics' = metrics \union {line}

SearchLoad ==
    /\ gridSearch = Absent
    /\ Splittable(usable)
    /\ gridSearch' = [data |-> usable, best |-> Absent]
    /\ UNCHANGED <<usable, grid, predictions, metrics, breakdown, labelling>>

\* All settings are tried on Val; which of several best comes first is up to the sort.
SearchGrid ==
    /\ gridSearch # Absent
    /\ gridSearch.best = Absent
    /\ \E first \in Winners[gridSearch.data] : gridSearch' = [gridSearch EXCEPT !.best = first]
    /\ grid' = [data |-> gridSearch.data, best |-> Winners[gridSearch.data]]
    /\ UNCHANGED <<usable, predictions, metrics, breakdown, labelling>>

\* Mutated form: the final model learns from Train alone.
FinalOnTrain(data, setting) == Trained(setting, TrainRows(data), TestRows(data))

\* The final model, from Train and Val, on Test.
Final(data, setting) == Trained(setting, TrainRows(data) \union ValRows(data), TestRows(data))

SearchRecord ==
    /\ gridSearch # Absent
    /\ gridSearch.best # Absent
    /\ Record([by |-> "hparam_grid", data |-> gridSearch.data,
               fits |-> {Final(gridSearch.data, gridSearch.best)}])
    /\ gridSearch' = Absent
    /\ UNCHANGED <<usable, grid, predictions, breakdown, labelling>>

SearchDies ==
    /\ gridSearch # Absent
    /\ gridSearch' = Absent
    /\ UNCHANGED <<usable, grid, predictions, metrics, breakdown, labelling>>

-------------------------------------------------------------------------------
(* 15_tuning_gain_breakdown.py                                              *)

\* Without a grid the category is skipped.
BreakdownLoad ==
    /\ breakdown = Absent
    /\ grid # Absent
    /\ Splittable(usable)
    /\ breakdown' = [data |-> usable]
    /\ UNCHANGED <<usable, grid, predictions, metrics, gridSearch, labelling>>

Cells(data, tuned) ==
    {Trained(setting, learned, TestRows(data)) :
        setting \in {Baseline, tuned},
        learned \in {TrainRows(data), TrainRows(data) \union ValRows(data)}}

\* The best setting of the grid as it now is, sorted again: of several, any one.  (The
\* file does not say on which rows; chosenOn does.)
BreakdownRecord ==
    /\ breakdown # Absent
    /\ \E tuned \in grid.best :
         Record([by |-> "tuning_gain_breakdown", data |-> breakdown.data,
                 chosenOn |-> grid.data, tuned |-> tuned,
                 fits |-> Cells(breakdown.data, tuned)])
    /\ breakdown' = Absent
    /\ UNCHANGED <<usable, grid, predictions, gridSearch, labelling>>

-------------------------------------------------------------------------------
(* 11_llm_title_tagging.py                                                  *)

Smaller(a, b) == IF a < b THEN a ELSE b

PoolOf(data, t) == {r \in TrainRows(data) : Labels(data)[r] = t}

\* Examples are dealt in turns <<round, tag>>, as long as the pool of the tag lasts.
Turns(data) ==
    {u \in (1 .. Cardinality(Corpus)) \X DOMAIN Tags :
        u[1] <= Cardinality(PoolOf(data, Tags[u[2]]))}

\* Mutated form: one tag after the other.
ByTag(u, v) == u[2] < v[2] \/ (u[2] = v[2] /\ u[1] < v[1])

Before(u, v) == u[1] < v[1] \/ (u[1] = v[1] /\ u[2] < v[2])

Dealt(data, few) ==
    {u \in Turns(data) : Cardinality({v \in Turns(data) : Before(v, u)}) < few}

\* The titles shown: of each tag as many as it had turns, from the end of its pool.
Shown(data, few) ==
    UNION {LET pool == PoolOf(data, Tags[t])
               n == Cardinality(pool)
               dealt == Cardinality({u \in Dealt(data, few) : u[2] = t})
           IN  {r \in pool : Shuffle[n][Position(pool, r)] > n - dealt} : t \in DOMAIN Tags}

\* The first n of the shuffled rows of Test, or all.
Sample(data, n) ==
    LET test == TestRows(data)
        size == Cardinality(test)
    IN  [i \in 1 .. Smaller(n, size) |-> CHOOSE r \in test : Shuffle[size][Position(test, r)] = i]

LabelLoad ==
    /\ labelling = Absent
    /\ Splittable(usable)
    /\ \E model \in Models, n \in SampleSizes, few \in FewShots :
         labelling' = [data |-> usable, model |-> model, sample |-> Sample(usable, n),
                       shown |-> Shown(usable, few), answers |-> <<>>, attempt |-> 1]
    /\ UNCHANGED <<usable, grid, predictions, metrics, gridSearch, breakdown>>

\* Titles of the next call.
Left == Smaller(Batch, Len(labelling.sample) - Len(labelling.answers))

\* The i-th of an answer is taken for the i-th title of the call; it may be no tag.
Answered(k) == [1 .. k -> {TRUE, FALSE}]
Placed(given) ==
    [i \in DOMAIN given |-> IF given[i] THEN Len(labelling.answers) + i ELSE Unknown]

Asking ==
    /\ labelling # Absent
    /\ Left > 0
    /\ UNCHANGED <<usable, grid, predictions, metrics, gridSearch, breakdown>>

\* ask_llm, a call that is answered in full
Ask ==
    /\ Asking
    /\ \E given \in Answered(Left) :
         labelling' = [labelling EXCEPT !.answers = @ \o Placed(given), !.attempt = 1]

\* Mutated form: what was answered is kept before it is counted.
AskKeeping ==
    /\ Asking
    /\ labelling.attempt < Attempts
    /\ \E k \in 0 .. Left - 1 : \E given \in Answered(k) :
         labelling' = [labelling EXCEPT !.answers = @ \o Placed(given), !.attempt = @ + 1]

\* The call fails, or its answer has too few or too many items: another attempt.
AskAgain ==
    /\ Asking
    /\ labelling.attempt < Attempts
    /\ labelling' = [labelling EXCEPT !.attempt = @ + 1]

\* After the last attempt the titles of the call are "other".
AskGivesUp ==
    /\ Asking
    /\ labelling.attempt = Attempts
    /\ labelling' = [labelling EXCEPT !.answers = @ \o [i \in 1 .. Left |-> Other], !.attempt = 1]

\* What is no tag counts as "other".
Valid(answers) == [i \in DOMAIN answers |-> IF answers[i] = Unknown THEN Other ELSE answers[i]]

\* Mutated form: the name of the file says nothing of the model.
Nameless(model) == Absent

Slug(model) == model

Answers ==
    Predictions(Cardinality(labelling.shown), Slug(labelling.model), labelling.model,
                labelling.sample, Valid(labelling.answers))

SameName(f, g) == f.few = g.few /\ f.slug = g.slug

LabelSave ==
    /\ labelling # Absent
    /\ Left = 0
    /\ labelling.attempt # 0
    /\ predictions' = {f \in predictions : ~SameName(f, Answers)} \union {Answers}
    /\ labelling' = [labelling EXCEPT !.attempt = 0]
    /\ UNCHANGED <<usable, grid, metrics, gridSearch, breakdown>>

\* The same sample is also tagged by the classifier, trained on Train.
LabelRecord ==
    /\ labelling # Absent
    /\ labelling.attempt = 0
    /\ LET sampled == {labelling.sample[i] : i \in DOMAIN labelling.sample}
       IN  Record([by |-> "llm_title_tagging", data |-> labelling.data,
                   model |-> labelling.model, few |-> Cardinality(labelling.shown),
                   slug |-> Slug(labelling.model), shown |-> labelling.shown,
                   fits |-> {Trained(Baseline, TrainRows(labelling.data), sampled)}])
    /\ labelling' = Absent
    /\ UNCHANGED <<usable, grid, predictions, gridSearch, breakdown>>

-------------------------------------------------------------------------------
(* 16_recover_llm_metrics.py                                                *)

\* Mutated form: a file without a model is one of the first model.
FirstModel(f) == IF f.slug = Absent THEN Qwen ELSE f.slug

\* Whose predictions the file holds, by its name.
Named(f) ==
    IF f.slug # Absent THEN f.slug
    ELSE IF f.few \in Overwritten THEN Unknown ELSE Qwen

Compared(f) == Named(f) # Unknown /\ f.few \in Handwritten

\* (of is not recorded: it is the model that made the predictions.)
Recover ==
    /\ Cardinality(metrics) < MaxRecords
    /\ metrics' = metrics \union
         {[by |-> "llm_metrics_recovered", few |-> f.few, model |-> Named(f), of |-> f.model,
           compared |-> Compared(f)] : f \in predictions}
    /\ UNCHANGED <<usable, grid, predictions, gridSearch, breakdown, labelling>>

-------------------------------------------------------------------------------

ExpNext ==
    \/ \E r \in Changing : Recode(r)
    \/ SearchLoad \/ SearchGrid \/ SearchRecord \/ SearchDies
    \/ BreakdownLoad \/ BreakdownRecord
    \/ LabelLoad \/ Ask \/ AskAgain \/ AskGivesUp \/ LabelSave \/ LabelRecord
    \/ Recover

ExpSpec == ExpInit /\ [][ExpNext]_expVars

-------------------------------------------------------------------------------
(* Properties                                                               *)

Lines(experiment) == {m \in metrics : m.by = experiment}
MeasuredLines == {m \in metrics : m.by # "llm_metrics_recovered"}
Apart(S, T) == TitlesIn(S) \intersect TitlesIn(T) = {}

\* Nothing is measured on a title that was learned from or shown as an example; and,
\* where the rows are still those of the grid, nor on one the setting was chosen on.
MeasuredUnseen ==
    /\ \A m \in MeasuredLines : \A f \in m.fits : Apart(f.learned, f.tested)
    /\ \A m \in Lines("llm_title_tagging") : \A f \in m.fits : Apart(m.shown, f.tested)
    /\ \A m \in Lines("tuning_gain_breakdown") :
         m.chosenOn = m.data => \A f \in m.fits : Apart(ValRows(m.chosenOn), f.tested)

\* What 14 reports is one of the four numbers of 15, as long as the rows are the same and
\* one setting alone was best.
BreakdownReproduces ==
    \A g \in Lines("hparam_grid"), b \in Lines("tuning_gain_breakdown") :
        g.data = b.data /\ b.chosenOn = b.data /\ Cardinality(Winners[b.data]) = 1
            => g.fits \subseteq b.fits

\* As many examples as there are tags show each tag of Train.
EveryTagShown ==
    \A m \in Lines("llm_title_tagging") :
        LET labels == Labels(m.data)
            known == {labels[r] : r \in TrainRows(m.data)}
        IN  m.few >= Cardinality(known) => {labels[r] : r \in m.shown} = known

\* However many calls failed, a file has an answer for each title, which is about it.
AnswersAligned ==
    \A f \in predictions :
        /\ Len(f.answers) = Len(f.sample)
        /\ \A i \in DOMAIN f.answers : f.answers[i] \in {i, Other}

\* The file a record names still holds predictions of its model, and what is recovered
\* from a file goes by the name of the model that made it, or of none.
PredictionsKept ==
    /\ \A m \in Lines("llm_title_tagging") :
         \E f \in predictions : SameName(f, m) /\ f.model = m.model
    /\ \A m \in Lines("llm_metrics_recovered") : m.model \in {m.of, Unknown}

\* What the experiments say can be believed, whatever order they are run in.
ExperimentsHold ==
    MeasuredUnseen /\ BreakdownReproduces /\ EveryTagShown /\ AnswersAligned /\ PredictionsKept

\* Of the setting's Test nothing was seen when it was chosen (14_hparam_search.py:17),
\* also when 15 measures it.  Does not hold once rows have come or gone.
ChosenUnseen ==
    \A m \in Lines("tuning_gain_breakdown") : \A f \in m.fits : Apart(ValRows(m.chosenOn), f.tested)

\* Results copied by hand are compared with their own model (16_recover_llm_metrics.py:32).
\* Does not hold: files of every model are compared with them.
HandOfSameModel ==
    \A m \in Lines("llm_metrics_recovered") : m.compared => m.of = Qwen

===============================================================================
