--------------------------- MODULE DocumentProgress ---------------------------
(***************************************************************************)
(* What the text stage promises of one attachment: it is uploaded, then    *)
(* its text is extracted, then its qualification fields are stored, in     *)
(* that order, one step at a time and never backwards - whatever the       *)
(* queues repeat, lose to a dead-letter queue or deliver twice.            *)
(***************************************************************************)
CONSTANT Documents

VARIABLE stage      \* how far each attachment has come

Stages == {"absent", "uploaded", "extracted", "qualified"}

Init == stage = [d \in Documents |-> "absent"]

Advance(d, from, to) ==
    /\ stage[d] = from
    /\ stage' = [stage EXCEPT ![d] = to]

Next == \E d \in Documents :
            \/ Advance(d, "absent", "uploaded")
            \/ Advance(d, "uploaded", "extracted")
            \/ Advance(d, "extracted", "qualified")

Spec == Init /\ [][Next]_stage

===============================================================================
