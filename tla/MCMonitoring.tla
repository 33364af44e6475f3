------------------------------ MODULE MCMonitoring ------------------------------
(* What is kept beside the pipeline, for TLC: the statistics of the            *)
(* collection, the report on the attachments and the rows of bid_table with    *)
(* the programs that write them.  They share no variable, and one of them      *)
(* moves in each behaviour.                                                    *)
EXTENDS HourlyStats, StatusReport, MCBidTable

VARIABLE moving

MCInit ==
    /\ Init
    /\ ReportInit
    /\ \/ moving \in {"statistics", "report"} /\ TableInit
       \/ moving = "table" /\ TableStart

MCNext ==
    /\ UNCHANGED moving
    /\ \/ moving = "statistics" /\ Next /\ UNCHANGED <<reportVars, tableVars>>
       \/ moving = "report" /\ ReportNext /\ UNCHANGED <<vars, tableVars>>
       \/ moving = "table" /\ TableNext /\ UNCHANGED <<vars, reportVars>>

MCSpec == MCInit /\ [][MCNext]_<<vars, reportVars, tableVars, moving>>

OneService == <<"servc", "all">>

\* Two attachments, one of which comes under two extensions, a file of the backfill and
\* one that is not named after its notice.
Raw(file, ext) == [hour |-> "10", bid |-> "b", file |-> file, ext |-> ext, named |-> TRUE]

SomeRaw == {Raw("d1", "pdf"), Raw("d1", "hwp"),
            [Raw("d2", "pdf") EXCEPT !.hour = Hourless], [Raw("d3", "pdf") EXCEPT !.named = FALSE]}

===============================================================================
