---------------------------- MODULE MCBackfillJobs ----------------------------
(* Instances of BackfillJobs for TLC.                                       *)
EXTENDS BackfillJobs, TLC

\* Each bid has a document from earlier jobs, the second bid a new one as well.
BidOfEach == 1 :> 1 @@ 2 :> 2 @@ 3 :> 2
ExtOfEach == 1 :> "pdf" @@ 2 :> "hwpx" @@ 3 :> "hwp"
Stages == 0 :> "text" @@ 1 :> "qual" @@ 2 :> "qual"

\* Nothing, the new document at either stage, the older ones at a stage each, where the
\* second stays before the new one in every manifest, and the merge of either bid.
NoTrouble == [text |-> {}, qual |-> {}, load |-> {}]
Troubles ==
    {NoTrouble,
     [NoTrouble EXCEPT !.text = {3}],
     [NoTrouble EXCEPT !.qual = {3}],
     [NoTrouble EXCEPT !.text = {1}, !.qual = {2}],
     [NoTrouble EXCEPT !.load = {{1}}],
     [NoTrouble EXCEPT !.load = {{2}}]}

===============================================================================
