\* A message leaves the extraction queue while the document never left the stage.
SPECIFICATION Spec
CONSTANTS
    d1 = d1
    d2 = d2
    n1 = n1
    n2 = n2
    n3 = n3
    MaxReceive = 3
    Documents <- OneDocument
    Notifications <- TwoNotifications
    Subject <- BothAboutFirst
    Unreadable <- NoDocument
INVARIANTS
    AckedWasForwarded
CHECK_DEADLOCK FALSE
