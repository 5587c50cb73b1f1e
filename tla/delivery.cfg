SPECIFICATION FairSpec
CONSTANTS
    f1 = f1
    f2 = f2
    env = env
    Files = {f1, f2, env}
    Excluded = {env}
    MaxTries = 8
    MaxFaults = 2
    MaxCrashes = 1
INVARIANTS
    TypeOK
    JournalSound
    DeliveredFits
    OnePullRequest
PROPERTIES
    DeliveryEnds
CHECK_DEADLOCK FALSE
