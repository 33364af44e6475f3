\* Notices of one to three attachments beside a plain one; two failures or
\* crashes.
SPECIFICATION FairSpec
CONSTANTS
    n1 = n1
    n2 = n2
    u1 = u1
    u2 = u2
    u3 = u3
    s1 = s1
    s2 = s2
    NoUrl = NoUrl
    NoStem = NoStem
    MaxMembers = 2
    Payload <- ThreeUrls
    Notices <- TwoNotices
    NoticeOrder <- FirstFirst
    Contents <- Various
    MaxFaults = 2
INVARIANTS
    StoredMeansStored
    CountTrusted
PROPERTIES
    EventuallyStored
