------------------------------- MODULE MCTagging -------------------------------
(* Instances of Tagging, ModelSelection and TagExperiments for TLC.  What one *)
(* retrains is a model another makes, by settings the third has tried, but    *)
(* they share no variable: one of them moves in each behaviour.  Of the       *)
(* experiments those that search and those that ask a language model write    *)
(* different files, and only one kind is run.                                 *)
EXTENDS Tagging, ModelSelection, TagExperiments

VARIABLE moving

MCInit ==
    /\ TagInit /\ ModelInit /\ ExpInit
    /\ moving \in {"tags", "model", "search", "ask"}
    /\ moving # "ask" => \A f \in predictions : f.model = Qwen

MCNext ==
    /\ UNCHANGED moving
    /\ \/ moving = "tags" /\ TagNext /\ UNCHANGED <<modelVars, expVars>>
       \/ moving = "model" /\ ModelNext /\ UNCHANGED <<tagVars, expVars>>
       \/ /\ moving \in {"search", "ask"}
          /\ ExpNext
          /\ IF moving = "ask" THEN gridSearch' = Absent ELSE labelling' = Absent
          /\ UNCHANGED <<tagVars, modelVars>>

MCSpec == MCInit /\ [][MCNext]_<<tagVars, modelVars, expVars, moving>>

\* A service, an item bought abroad and a building work; the second model guesses
\* otherwise and is less sure.  THRESHOLD is 3, 2 and 3, later 2, 4 and 4; with ten
\* parts to a digit, 25 is stored as 3.
CategoryOfThree == <<"servc", "frgcpt", "cnstwk">>
Guess(tag, confidence) == [tag |-> tag, confidence |-> confidence]
TwoModels ==
    <<[thng |-> [desk |-> Guess("furniture", 41), pump |-> Guess("machine", 25)],
       servc |-> [desk |-> Guess("events", 20), pump |-> Guess("survey", 12)]],
      [thng |-> [desk |-> Guess("machine", 30), pump |-> Guess("machine", 36)],
       servc |-> [desk |-> Guess("events", 39), pump |-> Guess("events", 15)]]>>
TwoThresholds == <<[thng |-> 3, servc |-> 2, frgcpt |-> 3], [thng |-> 2, servc |-> 4, frgcpt |-> 4]>>
SomeCodes ==
    {[kind |-> "item", goods |-> "machine", service |-> "events"],
     [kind |-> "industry", goods |-> None, service |-> "survey"]}

\* Four notices with a code: a building in June, its amendment in July under another
\* title, a third that shares its title with the first and its number with the second,
\* and one of July whose title normalises to nothing.  LogReg tries fewer values of C.
FourTitles == <<"bridge", "road", "bridge", "">>
FourNumbers == <<"n1", "n2", "n2", "n3">>
FourMonths == <<6, 7, 7, 7>>
FourCodes == <<"39", "39", "41", "39">>
TwoTags == [c \in {"39", "41"} |-> IF c = "39" THEN "electric" ELSE "lab"]
TwoGrids == [svc |-> {2, 3}, lr |-> {3}]
BothEnds == [lower |-> {1}, upper |-> {4}]

\* Nine notices with five titles.  Three of them share title 2, which is tested while only
\* four titles have a code; with the fifth, settings are chosen on it.
NineTitles == <<1, 2, 2, 2, 3, 4, 4, 1, 5>>
NineCodes == <<"39", "39", "41", "39", "41", "39", "41", "12", "39">>
ThreeTags == [c \in {"39", "41", "12"} |->
                 IF c = "39" THEN "electric" ELSE IF c = "41" THEN "lab" ELSE Absent]
TagOrder == <<"electric", "lab", Other>>
Seed ==
    <<<<1>>, <<1, 2>>, <<1, 3, 2>>, <<3, 1, 2, 4>>, <<1, 2, 5, 4, 3>>, <<2, 6, 1, 4, 5, 3>>,
      <<3, 1, 2, 7, 6, 4, 5>>, <<8, 2, 3, 1, 5, 4, 7, 6>>, <<1, 9, 2, 8, 3, 7, 4, 6, 5>>>>
BestOf == [data \in SUBSET Corpus |-> IF 9 \in data THEN {"a", "b"} ELSE {"b"}]

===============================================================================
