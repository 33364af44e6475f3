-------------------------------- MODULE Tagging --------------------------------
(***************************************************************************)
(* bid_tags, one tag per notice: rules.py decides it from the columns of   *)
(* the notice, the sweep of the merge Lambda gives one to notices without, *)
(* and scripts/retag_all.py decides all of them anew.  Meanwhile loaders   *)
(* rewrite titles and works, merges add codes, and a model is replaced, in *)
(* the operator's checkout before it is deployed.                          *)
(*                                                                         *)
(* One sweep and one retagging at a time; bid_tags exists; DRY_RUN is off. *)
(***************************************************************************)
EXTENDS Naturals, FiniteSets, SequencesExt

CONSTANTS
    Ids,            \* numbers of the notices, as bid_id orders them
    CategoryOf,
    Titles,
    Works,          \* values of main_cnstty_nm
    TooLong,        \* those of more than 50 characters, which tag cannot hold
    Codes,          \* codes documents name: kind, and the tag the two tables give it
    Predict,        \* per version of the model, model and title: tag and confidence
    Thresholds,     \* THRESHOLD, one after the other, in digits of the column
    UNIT,           \* parts of the column's last digit a confidence is known in
    TAG_MAX_PER_RUN,
    BATCH,          \* notices retag_all.py commits at a time
    MaxCodes,       \* codes a notice may gain (bound)
    MaxWrites,      \* times a loader writes a notice (bound)
    None

UNCLASSIFIED == "unclassified"
MODEL_FOR == [thng |-> "thng", frgcpt |-> "thng", servc |-> "servc"]

Categories == {"thng", "servc", "frgcpt", "cnstwk"}

\* Whatever the models and the thresholds are, confidences are counted in parts of a digit
\* of the column, thresholds in its digits.
ASSUME TaggingAssumption ==
    /\ IsFiniteSet(Ids)
    /\ CategoryOf \in [Ids -> Categories]
    /\ UNIT \in Nat \ {0}
    /\ BATCH \in Nat \ {0}
    /\ 1 \in DOMAIN Predict
    /\ 1 \in DOMAIN Thresholds
    /\ \A version \in DOMAIN Predict, category \in DOMAIN MODEL_FOR, title \in Titles :
         Predict[version][MODEL_FOR[category]][title].confidence \in Nat
    /\ \A t \in DOMAIN Thresholds, category \in DOMAIN MODEL_FOR :
         Thresholds[t][category] \in Nat

VARIABLES
    notices,        \* the rows of bid_table rules.py looks at, or None
    tags,           \* bid_tags, or None
    deployed,       \* version of the model in the Lambda
    local,          \* and in the checkout retag_all.py runs from
    threshold,      \* which THRESHOLD applies
    sweep,          \* what the running sweep has decided, or None
    retag,          \* the running retagging, or None
    written         \* loads so far

tagVars == <<notices, tags, deployed, local, threshold, sweep, retag, written>>

TagInit ==
    /\ notices = [b \in Ids |-> None]
    /\ tags = [b \in Ids |-> None]
    /\ deployed = 1
    /\ local = 1
    /\ threshold = 1
    /\ sweep = None
    /\ retag = None
    /\ written = 0

-------------------------------------------------------------------------------
(* The rules.                                                               *)

\* The tags a table gives to the codes of one kind, in their order.
Hits(codes, kind, table) ==
    LET usable(c) == c.kind = kind /\ c[table] # None
        found == SelectSeq(codes, usable)
    IN  [i \in DOMAIN found |-> found[i][table]]

\* tag_from_codes: goods know items only, services prefer them to industries.
TagFromCodes(category, codes) ==
    LET hits == IF category = "servc"
                THEN Hits(codes, "item", "service") \o Hits(codes, "industry", "service")
                ELSE Hits(codes, "item", "goods")
    IN  IF hits = <<>> THEN None ELSE Head(hits)

\* What a rule finds has no confidence; exact is history, no column.
Fixed(tag, source) == [tag |-> tag, source |-> <<source>>, confidence |-> None, exact |-> None]

Unclassified == Fixed(UNCLASSIFIED, "none")

\* numeric(6, 4)
Stored(confidence) == (confidence + UNIT \div 2) \div UNIT

Sure(confidence, category) == confidence >= UNIT * Thresholds[threshold][category]

\* The last resort.  A tag below the threshold is kept and marked.
Inferred(version, category, title) ==
    LET p == Predict[version][MODEL_FOR[category]][title]
        mark == IF Sure(p.confidence, category) THEN "sure" ELSE "low"
    IN  [tag |-> p.tag, source |-> <<"model", category, mark>>,
         confidence |-> Stored(p.confidence), exact |-> p.confidence]

\* decide_tag
Decide(version, b, row) ==
    LET category == CategoryOf[b]
        code == TagFromCodes(category, row.codes)
    IN  IF category = "cnstwk"
        THEN IF row.about = None THEN Unclassified ELSE Fixed(row.about, "cnstty_column")
        ELSE IF code # None THEN Fixed(code, "code")
        ELSE IF row.about = None THEN Unclassified
        ELSE Inferred(version, category, row.about)

\* Mutated form: the mark decides, whatever the threshold has become since.
ConfidentAsMarked(t) ==
    IF t.source[1] = "model" THEN t.source[3] = "sure" ELSE t.source[1] # "none"

\* is_confident, with the thresholds of today.
IsConfident(t) ==
    IF t.source[1] = "model" THEN t.confidence >= Thresholds[threshold][t.source[2]]
    ELSE t.source[1] # "none"

-------------------------------------------------------------------------------
(* The other writers of bid_table, and the models.                          *)

Disturb(f) == IF f = None THEN None ELSE [f EXCEPT !.alone = FALSE]

\* What the rules read of a notice besides its codes: main_cnstty_nm of a building
\* work, the title of any other.
About(b) == {None} \cup IF CategoryOf[b] = "cnstwk" THEN Works ELSE Titles

\* A loader inserts or rewrites a notice; the codes are no column of it.  A load that
\* changes nothing is left out.
LoadNotice(b) ==
    /\ written < MaxWrites
    /\ written' = written + 1
    /\ \E text \in About(b) :
        notices' = [notices EXCEPT ![b] =
            [about |-> text, codes |-> IF notices[b] = None THEN <<>> ELSE notices[b].codes]]
    /\ notices' # notices
    /\ retag' = Disturb(retag)
    /\ UNCHANGED <<tags, deployed, local, threshold, sweep>>

\* A merge adds a code another document names; documents are merged in the order of
\* their keys, whenever they came.
MergeCode(b, c) ==
    /\ notices[b] # None
    /\ Len(notices[b].codes) < MaxCodes
    /\ c \notin ToSet(notices[b].codes)
    /\ \E i \in 1 .. Len(notices[b].codes) + 1 :
         notices' = [notices EXCEPT ![b].codes = InsertAt(@, i, c)]
    /\ retag' = Disturb(retag)
    /\ UNCHANGED <<tags, deployed, local, threshold, sweep, written>>

\* clustering/25_deploy.py writes the model into the checkout.
Retrain ==
    /\ local + 1 \in DOMAIN Predict
    /\ retag = None
    /\ local' = local + 1
    /\ UNCHANGED <<notices, tags, deployed, threshold, sweep, retag, written>>

\* Another THRESHOLD is released to both.
SetThreshold ==
    /\ threshold + 1 \in DOMAIN Thresholds
    /\ sweep = None /\ retag = None
    /\ threshold' = threshold + 1
    /\ UNCHANGED <<notices, tags, deployed, local, sweep, retag, written>>

\* The image of the Lambda is replaced; no invocation is running.
Deploy ==
    /\ deployed # local
    /\ sweep = None
    /\ deployed' = local
    /\ UNCHANGED <<notices, tags, local, threshold, sweep, retag, written>>

-------------------------------------------------------------------------------
(* The sweep of the merge Lambda.                                           *)

Untagged == {b \in Ids : notices[b] # None /\ tags[b] = None}

\* ORDER BY bid_id DESC LIMIT
Latest(ids, n) == {b \in ids : Cardinality({c \in ids : c > b}) < n}

\* fetch_untagged_targets and decide_tag for each.
SweepDecides ==
    /\ sweep = None
    /\ Untagged # {}
    /\ sweep' = [b \in Latest(Untagged, TAG_MAX_PER_RUN) |-> Decide(deployed, b, notices[b])]
    /\ UNCHANGED <<notices, tags, deployed, local, threshold, retag, written>>

\* main_cnstty_nm holds 100 characters and tag 50: with one row too long the statement
\* raises and writes none of them.
Fit(rows, decided) == \A b \in rows : decided[b].tag \notin TooLong

\* upsert_tags: ON CONFLICT DO UPDATE, whatever has come between.
SweepWrites ==
    /\ sweep # None
    /\ Fit(DOMAIN sweep, sweep)
    /\ tags' = [b \in Ids |-> IF b \in DOMAIN sweep THEN sweep[b] ELSE tags[b]]
    /\ sweep' = None
    /\ retag' = Disturb(retag)
    /\ UNCHANGED <<notices, deployed, local, threshold, written>>

\* Any exception: rolled back and left to the next run.
SweepFails ==
    /\ sweep # None
    /\ sweep' = None
    /\ UNCHANGED <<notices, tags, deployed, local, threshold, retag, written>>

-------------------------------------------------------------------------------
(* retag_all.py --apply, with or without --category.                        *)

OfCategory(category) ==
    {b \in Ids : notices[b] # None /\ (category # None => CategoryOf[b] = category)}

\* One SELECT of everything; the decisions follow from it.
RetagReads(category) ==
    /\ retag = None
    /\ OfCategory(category) # {}
    /\ retag' = [todo |-> OfCategory(category), all |-> OfCategory(category),
                 decided |-> [b \in OfCategory(category) |-> Decide(local, b, notices[b])],
                 alone |-> sweep = None]
    /\ UNCHANGED <<notices, tags, deployed, local, threshold, sweep, written>>

\* Mutated form: the last notices make no full batch.
ChunkFull(chunk, todo) == chunk # {} /\ Cardinality(chunk) = BATCH

\* upserts[i : i + BATCH]; the SELECT has no order.
Chunk(chunk, todo) ==
    chunk # {} /\ Cardinality(chunk) = IF Cardinality(todo) < BATCH THEN Cardinality(todo) ELSE BATCH

\* execute_values and the commit of one batch.
RetagWrites(chunk) ==
    /\ retag # None
    /\ chunk \subseteq retag.todo
    /\ Chunk(chunk, retag.todo)
    /\ Fit(chunk, retag.decided)
    /\ tags' = [b \in Ids |-> IF b \in chunk THEN retag.decided[b] ELSE tags[b]]
    /\ retag' = [retag EXCEPT !.todo = @ \ chunk]
    /\ UNCHANGED <<notices, deployed, local, threshold, sweep, written>>

\* The script comes to its end: no further batch can be cut.
RetagEnds ==
    /\ retag # None
    /\ \A chunk \in SUBSET retag.todo : ~Chunk(chunk, retag.todo)
    /\ retag' = None
    /\ UNCHANGED <<notices, tags, deployed, local, threshold, sweep, written>>

\* A batch raises, or the preview ends without --apply.
RetagStops ==
    /\ retag # None
    /\ retag' = None
    /\ UNCHANGED <<notices, tags, deployed, local, threshold, sweep, written>>

-------------------------------------------------------------------------------

TagNext ==
    \/ \E b \in Ids : LoadNotice(b) \/ \E c \in Codes : MergeCode(b, c)
    \/ Retrain \/ Deploy \/ SetThreshold
    \/ SweepDecides \/ SweepWrites \/ SweepFails
    \/ \E category \in {CategoryOf[b] : b \in Ids} \cup {None} : RetagReads(category)
    \/ \E chunk \in SUBSET Ids : RetagWrites(chunk)
    \/ RetagEnds \/ RetagStops

TagSpec == TagInit /\ [][TagNext]_tagVars

-------------------------------------------------------------------------------
(* Properties                                                               *)

\* A retagging during which nothing else was written leaves every notice it read with
\* the tag the rules give it by its own model, whatever was there before: the guess of
\* an older model, the guess a sweep made before the codes came, a tag of a title that
\* has changed, or none.
RetagSettles ==
    [][(RetagEnds /\ retag.alone) =>
        \A b \in retag.all : tags'[b] = Decide(local, b, notices[b])]_tagVars

\* Under whatever threshold a guess was stored, is_confident judges it today as the
\* confidence the model had in it demands: no inference has to be repeated.  Only a
\* confidence the column rounds up to the threshold passes for more than it was.
Rejudged ==
    \A b \in Ids : (tags[b] # None /\ tags[b].source[1] = "model") =>
        \/ IsConfident(tags[b]) <=> Sure(tags[b].exact, CategoryOf[b])
        \/ Stored(tags[b].exact) = Thresholds[threshold][CategoryOf[b]]

===============================================================================
