SPECIFICATION FairSpec
CONSTANTS
    None = None
    Empty = Empty
    Torn = Torn
    r1 = r1
    r2 = r2
    s1 = s1
    t1 = t1
    t2 = t2
    Replies = {r1, r2}
    Scans = {s1}
    Times = {t1, t2}
    MaxFaults = 2
    MaxCrashes = 1
CHECK_DEADLOCK FALSE
INVARIANTS
    TypeOK
    RecordKept
PROPERTIES
    RefusedIsMoot
