SPECIFICATION FairSpec
CONSTANTS
    MaxAttempts = 2
    MaxFaults = 2
INVARIANTS
    TypeOK
    ResultFits
    FlagsTell
    NothingLeft
PROPERTIES
    TimeoutKills
    AnswerComes
CHECK_DEADLOCK FALSE
