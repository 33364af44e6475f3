---------------------------- MODULE MCMergeBatch ----------------------------
(* Instances of MergeBatch for TLC.                                         *)
EXTENDS MergeBatch

CONSTANTS b1, b2, e1, e2

TwoBids == {b1, b2}
OneBid == {b1}
NoBid == {}
OneBatch == {e1}
TwoBatches == {e1, e2}
SecondBid == {b2}

FirstIsNewer == [b \in TwoBids |-> IF b = b1 THEN 2 ELSE 1]

NoneOrTwo == {0, 2}
===============================================================================
