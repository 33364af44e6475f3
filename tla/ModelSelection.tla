----------------------------- MODULE ModelSelection -----------------------------
(***************************************************************************)
(* How the tagger's model of one category comes about, by programs run by  *)
(* hand: clustering/23_search.py chooses and saves one, 24_evaluate.py     *)
(* opens the test set, 25_deploy.py turns it into the files the Lambda     *)
(* reads.  All read bid_table anew through 22_dataset.py, while merges     *)
(* give notices codes and take them away.                                  *)
(*                                                                         *)
(* A score is whatever a fold yields; a saved model is known by its number *)
(* and by the rows it has learned from.  Each program runs once at a time. *)
(***************************************************************************)
EXTENDS Naturals, FiniteSets, FiniteSetsExt

CONSTANTS
    Rows,           \* numbers of the notices that may get a code, as bid_id orders them
    NormOf,         \* title, normalised; "" joins nothing
    NoticeNumber,   \* bid_ntce_no
    Month,
    CodeOf,
    TagOfCode,      \* THNG_MAP, None for a code it has not
    MIN_TAG_COUNT,
    TEST_FROM,
    ROLL_MONTHS,
    MinTest,        \* rows a month needs to be judged
    Representations,
    TOP_N_REPR,
    GridOf,         \* values of C tried, per classifier that has one
    C_GRID,
    Beyond,         \* values of C past the lower and the upper end of C_GRID
    MaxScore,
    N_FOLDS,
    THRESHOLDS,
    TARGET_ACC,     \* percentages
    MaxMargin,
    MaxSaves,       \* models saved (bound)
    MaxLost,        \* times a notice loses its code (bound)
    Nothing

ASSUME ModelAssumption ==
    /\ IsFiniteSet(Rows) /\ Rows \subseteq Nat
    /\ MaxScore \in Nat
    /\ THRESHOLDS \subseteq Nat /\ TARGET_ACC \subseteq Nat
    /\ Nothing \notin THRESHOLDS
    /\ DOMAIN Beyond = {"lower", "upper"}
    /\ \A e \in DOMAIN Beyond : Beyond[e] \cap {Min(C_GRID), Max(C_GRID)} = {}
    /\ Nothing \notin [no : Nat, rows : {Nothing}, thresholds : {Nothing}, at : {"copy json"}]

VARIABLES
    coded,          \* notices bid_table has a usable code for
    lost,           \* those that have ever lost theirs
    ranking,        \* rows the stored ranking of representations was measured on
    model,          \* artifacts/model_{cat}.joblib
    saves,
    search, evaluation, deployment,     \* the running programs, or Nothing
    artifacts,      \* number of the model in tagger_{cat}.npz and in .json
    installed,      \* and in the two files of DEPLOY_DIR
    torn            \* an installation has stopped between the two

modelVars == <<coded, lost, ranking, model, saves, search, evaluation, deployment,
               artifacts, installed, torn>>

NoFiles == [npz |-> 0, json |-> 0]

ModelInit ==
    /\ coded = {} /\ lost = {}
    /\ ranking = Nothing /\ model = Nothing /\ saves = 0
    /\ search = Nothing /\ evaluation = Nothing /\ deployment = Nothing
    /\ artifacts = NoFiles /\ installed = NoFiles /\ torn = FALSE

-------------------------------------------------------------------------------
(* The data: 22_dataset.py.                                                 *)

\* The function itself, which the comparison makes TLC compute once and for all.
Computed(f) == CHOOSE g \in {f} : g = f

\* load: a code too rare among the rows, or unknown, becomes "other".
Tag(rows, b) ==
    IF \/ Cardinality({r \in rows : CodeOf[r] = CodeOf[b]}) < MIN_TAG_COUNT
       \/ TagOfCode[CodeOf[b]] = Nothing
    THEN "other" ELSE TagOfCode[CodeOf[b]]

Root(parent, x) ==
    LET find[y \in DOMAIN parent] == IF parent[y] = y THEN y ELSE find[parent[y]]
    IN  find[x]

\* Mutated form: the row itself is hung up, not the tree it is in.
HungUp(parent, a, b) == [parent EXCEPT ![b] = Root(parent, a)]

\* union: the larger root goes under the smaller one.
Union(parent, a, b) ==
    LET roots == {Root(parent, a), Root(parent, b)}
    IN  [parent EXCEPT ![Max(roots)] = Min(roots)]

\* One pass of build_groups over the rows in their order: each joins the first one with
\* its key.
Joined(parent, rows, keyOf) ==
    LET same(i) == {r \in rows : keyOf[r] = keyOf[i]}
        last == Max({0} \cup rows)
        upTo[i \in 0 .. last] ==
            LET before == IF i = 0 THEN parent ELSE upTo[i - 1]
            IN  IF i \notin rows THEN before
                ELSE IF keyOf[i] = "" \/ i = Min(same(i)) THEN before
                ELSE Union(before, Min(same(i)), i)
    IN  upTo[last]

\* Mutated form: only the number joins.
ByNumber(rows) ==
    LET parent == Joined([r \in rows |-> r], rows, NoticeNumber)
    IN  [r \in rows |-> Root(parent, r)]

BuildGroups(rows) ==
    LET alone == [r \in rows |-> r]
        parent == Joined(Joined(alone, rows, NormOf), rows, NoticeNumber)
    IN  [r \in rows |-> Root(parent, r)]

Groups == Computed([rows \in SUBSET Rows |-> BuildGroups(rows)])

\* time_split, the test side: groups that lie wholly in the months from there on.
TestSide(rows, from) ==
    {b \in rows : \A r \in rows : Groups[rows][r] = Groups[rows][b] => Month[r] >= from}

Test(rows) == TestSide(rows, TEST_FROM)
Pool(rows) == rows \ Test(rows)

\* Mutated form: rows are dealt out, groups or not.
RowFolds(rows) ==
    {{{b \in Pool(rows) : deal[b] = f} : f \in 1 .. N_FOLDS} : deal \in [Pool(rows) -> 1 .. N_FOLDS]}

\* folds: each row of the pool is once in a part that is not learned from; a group is
\* not divided.
Folds(rows) ==
    LET groups == {Groups[rows][b] : b \in Pool(rows)}
        part(deal, f) == {b \in Pool(rows) : deal[Groups[rows][b]] = f}
    IN  {{part(deal, f) : f \in 1 .. N_FOLDS} : deal \in [groups -> 1 .. N_FOLDS]}

\* check_no_leak; of an empty test set the earliest date is no date, and the assertion
\* fails as well.
NoLeak(rows) ==
    /\ {Groups[rows][b] : b \in Test(rows)} \cap {Groups[rows][b] : b \in Pool(rows)} = {}
    /\ Test(rows) # {}
    /\ \A b \in Test(rows) : Month[b] >= TEST_FROM

\* A chain of rows, each with the title or the number of the one before it.
Linked(rows, a, b) ==
    LET same(r, s) == \/ NormOf[r] = NormOf[s] /\ NormOf[r] # ""
                      \/ NoticeNumber[r] = NoticeNumber[s] /\ NoticeNumber[r] # ""
    IN  /\ {a, b} \subseteq rows
        /\ \A part \in SUBSET rows :
             (a \in part /\ \A r \in part, s \in rows : same(r, s) => s \in part) => b \in part

Chains == Computed([rows \in SUBSET Rows |->
                        {p \in rows \X rows : Linked(rows, p[1], p[2])}])

-------------------------------------------------------------------------------
(* Merges.                                                                  *)

\* A document of the notice names a code.
Code(b) ==
    /\ b \notin coded
    /\ coded' = coded \cup {b}
    /\ UNCHANGED <<lost, ranking, model, saves, search, evaluation, deployment,
                   artifacts, installed, torn>>

\* The documents of a notice are read again and name none.
LoseCode(b) ==
    /\ b \in coded
    /\ Cardinality(lost) < MaxLost
    /\ coded' = coded \ {b}
    /\ lost' = lost \cup {b}
    /\ UNCHANGED <<ranking, model, saves, search, evaluation, deployment,
                   artifacts, installed, torn>>

-------------------------------------------------------------------------------
(* 23_search.py.                                                            *)

StartSearch ==
    /\ search = Nothing
    /\ NoLeak(coded) /\ Pool(coded) # {}
    /\ search' = [rows |-> coded, ranked |-> Nothing]
    /\ UNCHANGED <<coded, lost, ranking, model, saves, evaluation, deployment,
                   artifacts, installed, torn>>

\* stage_repr: a stored ranking is taken as it is, whatever rows it was measured on.
RankRepresentations ==
    /\ search # Nothing /\ search.ranked = Nothing
    /\ ranking' = IF ranking = Nothing THEN search.rows ELSE ranking
    /\ search' = [search EXCEPT !.ranked = Pool(ranking')]
    /\ UNCHANGED <<coded, lost, model, saves, evaluation, deployment,
                   artifacts, installed, torn>>

Settings(top, cs) ==
    UNION {{[repr |-> r, clf |-> k, c |-> c] : r \in top, c \in cs[k]} : k \in DOMAIN GridOf}

AllOf == [k \in DOMAIN GridOf |-> GridOf[k] \cup UNION {Beyond[e] : e \in DOMAIN Beyond}]

\* cv_score of a setting; 0 when a fold cannot be fitted, and then it makes no row.
Measured(settings, score) == {s \in settings : score[s] # 0}

Best(settings, score) == {s \in settings : \A t \in settings : score[t] <= score[s]}

\* The same setting with C past the end of C_GRID it is at.
Past(s) ==
    {[s EXCEPT !.c = c] : c \in IF s.c = Min(C_GRID) THEN Beyond.lower
                               ELSE IF s.c = Max(C_GRID) THEN Beyond.upper ELSE {}}

\* Where the best C of a classifier is an end of C_GRID, C goes on past it once.
Extension(winner, score) == Measured(UNION {Past(s) : s \in winner}, score)

\* Mutated form: the rows of the extension are appended and not sorted in.
Appended(rows, extra, score) == Best(rows, score)

\* sort_values once more; iloc[0] is any of the best.
Sorted(rows, extra, score) == Best(rows \cup extra, score)

\* stage_clf: what its results hold, and beyond them, and which of them comes first.
Results(top, score) ==
    LET rows == Measured(Settings(top, GridOf), score)
        of(k) == {s \in rows : s.clf = k}
        winners == {w \in SUBSET rows : \A k \in DOMAIN GridOf :
                        of(k) # {} => \E s \in Best(of(k), score) : w \cap of(k) = {s}}
    IN  UNION {{[best |-> s, tried |-> rows \cup Extension(w, score), score |-> score] :
                  s \in Sorted(rows, Extension(w, score), score)} : w \in winners}

\* Unless another setting of its classifier scored the same: what lies past the end of
\* C_GRID from the saved setting, tried or not, and would have scored better.
PassedOver(result) ==
    LET s == result.best
        ties == {t \in result.tried \ {s} : t.clf = s.clf /\ result.score[t] = result.score[s]}
    IN  {t \in Past(s) : ties = {} /\ result.score[t] > result.score[s]}

\* Every outcome the scores may have; all a search keeps of them is the best setting.
Outcomes ==
    UNION {UNION {{[setting |-> r.best, passedOver |-> PassedOver(r)] : r \in Results(top, score)} :
                    score \in [Settings(top, AllOf) -> 0 .. MaxScore]} :
             top \in kSubset(TOP_N_REPR, Representations)}

\* stage_clf and fit_and_save_final; every score may come about.
SaveBest ==
    /\ search # Nothing /\ search.ranked # Nothing
    /\ saves < MaxSaves
    /\ saves' = saves + 1
    /\ \E outcome \in Outcomes :
         model' = [no |-> saves', trained |-> Pool(search.rows), ranked |-> search.ranked,
                   passedOver |-> outcome.passedOver]
    /\ search' = Nothing
    /\ UNCHANGED <<coded, lost, ranking, evaluation, deployment, artifacts, installed, torn>>

\* The other stages save nothing a later one reads; or it dies.
EndSearch ==
    /\ search # Nothing
    /\ search' = Nothing
    /\ UNCHANGED <<coded, lost, ranking, model, saves, evaluation, deployment,
                   artifacts, installed, torn>>

-------------------------------------------------------------------------------
(* 24_evaluate.py.                                                          *)

\* load_model
StartEvaluation ==
    /\ evaluation = Nothing /\ model # Nothing
    /\ evaluation' = [m |-> model, rows |-> Nothing]
    /\ UNCHANGED <<coded, lost, ranking, model, saves, search, deployment,
                   artifacts, installed, torn>>

\* The rows, and all five reports about them.
Evaluate ==
    /\ evaluation # Nothing /\ evaluation.rows = Nothing
    /\ NoLeak(coded)
    /\ evaluation' = [evaluation EXCEPT !.rows = coded]
    /\ UNCHANGED <<coded, lost, ranking, model, saves, search, deployment,
                   artifacts, installed, torn>>

EndEvaluation ==
    /\ evaluation # Nothing
    /\ evaluation' = Nothing
    /\ UNCHANGED <<coded, lost, ranking, model, saves, search, deployment,
                   artifacts, installed, torn>>

\* rolling: a month is judged by a model of its own, unless it has too few rows or tags.
Rolling(rows) ==
    LET month(cut) == {b \in TestSide(rows, cut) : Month[b] = cut}
        enough(test) == Cardinality(test) >= MinTest /\ Cardinality({Tag(rows, b) : b \in test}) > 1
    IN  {[train |-> rows \ TestSide(rows, cut), test |-> month(cut)] :
            cut \in {c \in ROLL_MONTHS : enough(month(c))}}

\* attribute: why an answer about each of the rows tested is wrong.
Attribution(rows, wrong) ==
    LET poolTags(b) == {Tag(rows, p) : p \in {q \in Pool(rows) : NormOf[q] = NormOf[b]}}
        seen == {b \in wrong : poolTags(b) # {}}
        conflict == {b \in seen : Tag(rows, b) \notin poolTags(b) \/ Cardinality(poolTags(b)) > 1}
    IN  [unseen |-> wrong \ seen, conflict |-> conflict, plain |-> seen \ conflict]

-------------------------------------------------------------------------------
(* 25_deploy.py --install.                                                  *)

StartDeployment ==
    /\ deployment = Nothing /\ model # Nothing
    /\ deployment' = [no |-> model.no, rows |-> Nothing, thresholds |-> Nothing, at |-> "read"]
    /\ UNCHANGED <<coded, lost, ranking, model, saves, search, evaluation,
                   artifacts, installed, torn>>

\* main loads the rows.
ReadRows ==
    /\ deployment # Nothing /\ deployment.at = "read"
    /\ deployment' = [deployment EXCEPT !.rows = coded, !.at = "npz"]
    /\ UNCHANGED <<coded, lost, ranking, model, saves, search, evaluation,
                   artifacts, installed, torn>>

\* Mutated form: weights that are there already are not written again.
ExportOnce(file, then) ==
    /\ deployment # Nothing /\ deployment.at = file
    /\ artifacts' = IF artifacts[file] = 0 \/ file = "json"
                    THEN [artifacts EXCEPT ![file] = deployment.no] ELSE artifacts
    /\ deployment' = [deployment EXCEPT !.at = then]
    /\ UNCHANGED <<coded, lost, ranking, model, saves, search, evaluation,
                   installed, torn>>

\* export_numpy writes the weights, then the vocabulary.
Export(file, then) ==
    /\ deployment # Nothing /\ deployment.at = file
    /\ artifacts' = [artifacts EXCEPT ![file] = deployment.no]
    /\ deployment' = [deployment EXCEPT !.at = then]
    /\ UNCHANGED <<coded, lost, ranking, model, saves, search, evaluation,
                   installed, torn>>

\* verify_numpy: the runtime reads both files and agrees on the test set; of an empty one
\* there is no largest error, and the program dies.
Verify ==
    /\ deployment # Nothing /\ deployment.at = "verify"
    /\ Test(deployment.rows) # {}
    /\ deployment' = [deployment EXCEPT !.at = "curve"]
    /\ UNCHANGED <<coded, lost, ranking, model, saves, search, evaluation,
                   artifacts, installed, torn>>

\* threshold_curve: what passes each threshold and how much of it is right; no row
\* where nothing passes.
ThresholdCurve(pool, right, margin) ==
    LET kept(t) == {b \in pool : margin[b] >= t}
    IN  {[threshold |-> t, kept |-> Cardinality(kept(t)), right |-> Cardinality(kept(t) \cap right)] :
            t \in {u \in THRESHOLDS : kept(u) # {}}}

\* The first threshold that reaches each accuracy, Nothing where none does.
Picked(curve) ==
    [target \in TARGET_ACC |->
        LET ok == {row.threshold : row \in {r \in curve : 100 * r.right >= target * r.kept}}
        IN  IF ok = {} THEN Nothing ELSE Min(ok)]

\* All that may be picked from guesses about a pool and their margins.
Picks ==
    Computed([pool \in SUBSET Rows |->
        {Picked(ThresholdCurve(pool, guess.right, guess.margin)) :
            guess \in [right : SUBSET pool, margin : [pool -> 0 .. MaxMargin]]}])

\* oof_margins: each part of the pool is guessed by a model that has learned from the
\* others.  Kept of it: the rows guessed by one that has learned from a linked row.
Seen(parts, rows) ==
    {b \in rows : \E part \in parts : b \in part /\
        \E r \in (UNION parts) \ part : <<b, r>> \in Chains[rows]}

\* What main makes of the guesses.
PickThresholds ==
    /\ deployment # Nothing /\ deployment.at = "curve"
    /\ Pool(deployment.rows) # {}
    /\ \E parts \in Folds(deployment.rows), picked \in Picks[Pool(deployment.rows)] :
         deployment' = [deployment EXCEPT
            !.rows = Nothing, !.at = "copy npz",
            !.thresholds = [picked |-> picked, seen |-> Seen(parts, deployment.rows)]]
    /\ UNCHANGED <<coded, lost, ranking, model, saves, search, evaluation,
                   artifacts, installed, torn>>

CopyWeights ==
    /\ deployment # Nothing /\ deployment.at = "copy npz"
    /\ installed' = [installed EXCEPT !.npz = artifacts.npz]
    /\ deployment' = [deployment EXCEPT !.thresholds = Nothing, !.at = "copy json"]
    /\ UNCHANGED <<coded, lost, ranking, model, saves, search, evaluation, artifacts, torn>>

CopyVocabulary ==
    /\ deployment # Nothing /\ deployment.at = "copy json"
    /\ installed' = [installed EXCEPT !.json = artifacts.json]
    /\ torn' = FALSE
    /\ deployment' = Nothing
    /\ UNCHANGED <<coded, lost, ranking, model, saves, search, evaluation, artifacts>>

\* Without --install, with an answer the runtime gives otherwise, or dead.
EndDeployment ==
    /\ deployment # Nothing
    /\ torn' = (torn \/ deployment.at = "copy json")
    /\ deployment' = Nothing
    /\ UNCHANGED <<coded, lost, ranking, model, saves, search, evaluation,
                   artifacts, installed>>

-------------------------------------------------------------------------------

ModelNext ==
    \/ \E b \in Rows : Code(b) \/ LoseCode(b)
    \/ StartSearch \/ RankRepresentations \/ SaveBest \/ EndSearch
    \/ StartEvaluation \/ Evaluate \/ EndEvaluation
    \/ StartDeployment \/ ReadRows \/ Export("npz", "json") \/ Export("json", "verify")
    \/ Verify \/ PickThresholds \/ CopyWeights \/ CopyVocabulary \/ EndDeployment

ModelSpec == ModelInit /\ [][ModelNext]_modelVars

-------------------------------------------------------------------------------
(* Properties                                                               *)

\* However many notices have got a code since, a model is never judged by a notice
\* that a chain of titles and numbers links to one it has learned from, nor to one its
\* representation was ranked on, be the ranking ever so old; only where a notice of the
\* chain has lost its code meanwhile.  The months rolled through keep apart likewise.
TestUnseen ==
    (evaluation # Nothing /\ evaluation.rows # Nothing) =>
        LET rows == evaluation.rows
        IN  /\ \A t \in Test(rows), r \in evaluation.m.trained \cup evaluation.m.ranked :
                 <<t, r>> \in Chains[rows] => \E g \in lost : <<t, g>> \in Chains[rows \cup lost]
            /\ \A month \in Rolling(rows) : \A t \in month.test, r \in month.train :
                 <<t, r>> \notin Chains[rows]

\* The report of causes knows one cause only: as a title keeps its notices on one side,
\* no title tested is in the pool, so no wrong answer is ever a contradiction of labels
\* or a failure of the model, unless normalisation leaves nothing of the title.
\* (results_evaluate.txt counts 0, 118 and 0.)
WrongIsUnseen ==
    (evaluation # Nothing /\ evaluation.rows # Nothing) =>
        LET rows == evaluation.rows
            cause == Attribution(rows, Test(rows))
        IN  \A b \in cause.conflict \cup cause.plain : NormOf[b] = ""

\* The thresholds are picked from guesses of models that have not learned from a notice
\* linked to the one guessed; the lower the target, the lower is its threshold, so that
\* the one tried on the test set is the least.
ThresholdsUnseen ==
    (deployment # Nothing /\ deployment.thresholds # Nothing) =>
        LET picked == deployment.thresholds.picked
        IN  /\ deployment.thresholds.seen = {}
            /\ \A s, t \in TARGET_ACC :
                 s < t /\ picked[t] # Nothing => picked[s] # Nothing /\ picked[s] <= picked[t]

\* What is measured is measured on titles not seen: by the evaluation, which tells of
\* them only, whether answers are right or wrong, and for the thresholds.
TestIsFair == TestUnseen /\ WrongIsUnseen /\ ThresholdsUnseen

\* A model is saved with C at an end of the grid only after C was taken past that end,
\* and no value there scored better: what is extended, the best of each classifier before
\* the grid is left, and what is saved, the best of all after it, fit together.  Of two
\* settings of a classifier that score the same either may be the one extended.
EndsExplored == model # Nothing => model.passedOver = {}

\* Weights and vocabulary in DEPLOY_DIR are those of one model, unless an installation
\* is between them or has stopped there and no other was completed since.
InstalledTogether ==
    \/ installed.npz = installed.json
    \/ torn
    \/ deployment # Nothing /\ deployment.at = "copy json"

===============================================================================
