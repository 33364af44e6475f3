------------------------------ MODULE MCDailyDag ------------------------------
(* An instance of DailyDag for TLC: a notice of the first category, whose      *)
(* object waits while the others are collected.                                *)
EXTENDS DailyDag

CONSTANTS
    n1,
    LastPublication,  \* the notice appears until then (bound)
    LastRepair        \* what follows a second failed attempt is considered until then (bound)

OneNotice == {n1}
FirstCategory == [n \in {n1} |-> 1]

EarlyEnough ==
    /\ now > LastPublication => published[n1] # Unset
    /\ faults = MaxFaults => now <= LastRepair

===============================================================================
