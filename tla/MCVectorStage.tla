----------------------------- MODULE MCVectorStage -----------------------------
(* An instance of VectorStage for TLC: every delivery of the one request may *)
(* send a message of its own, so that two of them run side by side.          *)
EXTENDS VectorStage

CONSTANTS b1, d1, r1

OneBid == {b1}
OneDocument == {d1}
OneRequest == {r1}
ItsBid == [d \in OneDocument |-> b1]
ItsDocument == [r \in OneRequest |-> d1]

===============================================================================
