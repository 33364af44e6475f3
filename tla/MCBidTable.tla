------------------------------ MODULE MCBidTable ------------------------------
(* Instances of BidTable for TLC: a notice in three versions and another one   *)
(* that is only counted.                                                       *)
EXTENDS BidTable

\* Two notices the daily loader has loaded together, before the release.
BothLoaded ==
    LET first == [version |-> 1, expected |-> OldEstimate[1], kind |-> SqlNull]
        daily == [b \in Bids |-> first]
    IN  /\ release = FALSE
        /\ said = [b \in Bids |-> 1]
        /\ json = [s \in Sources |-> IF s = "daily" THEN daily ELSE [b \in {} |-> SqlNull]]
        /\ bidRows = [b \in Bids |-> [source |-> "daily", version |-> 1, kind |-> SqlNull,
                                      expected |-> OldEstimate[1], open |-> TRUE]]
        /\ atts = [b \in Bids |-> FileRows(first)]
        /\ loader = [s \in Sources |-> Off]
        /\ counting = Off
        /\ naming = Off
        /\ loads = 1

TableStart == TableInit \/ BothLoaded

\* The second of them is there to be counted, and for nothing else; beside it the first
\* one is loaded, judged and counted.
SecondOnlyCounted ==
    /\ said[2] = 1
    /\ 2 \in DOMAIN json["daily"] => bidRows[2] # SqlNull /\ json["daily"][2].expected = OldEstimate[1]
    /\ 2 \notin DOMAIN json["backfill"]
    /\ \A s \in Sources :
          loader[s] # Off => 2 \notin loader[s].todo \union DOMAIN loader[s].built
    /\ bidRows[2] # SqlNull =>
          /\ bidRows[2].open
          /\ naming = Off
          /\ \A b \in Bids : \A i \in DOMAIN atts[b] : atts[b][i].status = "collected"

\* A notice that gains a document, loses its first one and lastly its number.  Its
\* count was estimated too high at first, then too low, and its last document
\* cannot be stored at all.
FilesOfVersions == <<{1}, {1, 2}, {2}>>
TooHighOrLow == <<2, 1, 1>>
Exact == <<1, 2, 0>>
KindsOfVersions == <<"new", "cancelled", SqlNull>>
===============================================================================
