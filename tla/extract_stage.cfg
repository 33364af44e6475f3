\* One document announced twice and one nobody can read, under fairness.
SPECIFICATION FairSpec
CONSTANTS
    d1 = d1
    d2 = d2
    n1 = n1
    n2 = n2
    n3 = n3
    MaxReceive = 2
    Documents <- TwoDocuments
    Notifications <- ThreeNotifications
    Subject <- FirstTwice
    Unreadable <- SecondDocument
INVARIANTS
    NothingVanishes
    EmbeddingAccounted
PROPERTIES
    ImplementsProgress
    EventuallySettled
CHECK_DEADLOCK FALSE
