-------------------------- MODULE MCExtractPipeline --------------------------
(* Instances of ExtractPipeline for TLC.                                    *)
EXTENDS ExtractPipeline

CONSTANTS d1, d2, n1, n2, n3

OneDocument == {d1}
TwoDocuments == {d1, d2}
NoDocument == {}
SecondDocument == {d2}

TwoNotifications == {n1, n2}
ThreeNotifications == {n1, n2, n3}

\* S3 repeats the notification of the first document ...
BothAboutFirst == [n \in TwoNotifications |-> d1]

\* ... and the second document has one.
FirstTwice == [n \in ThreeNotifications |-> IF n = n3 THEN d2 ELSE d1]

===============================================================================
