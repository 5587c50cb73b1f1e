SPECIFICATION FairSpec
CONSTANTS
    None = None
    s1 = s1
    s2 = s2
    l1 = l1
    build = build
    Stages = {s1}
    StartStage = s1
    Transitions <- OneWay
    Labels = {l1}
    Outputs <- OneOutput
    Scripts = {build}
    OtherScripts = {}
    AllowedScripts <- BuildOnly
    EnvReady = {build}
    Refusing = {build}
    MaxStageRetries = 1
    MaxTotalActions = 1
    InitialStatuses = {"active"}
    Startups = {"recovery"}
    MaxStalled = 1
    MaxRejections = 1
    Actions <- StageActions
    MaxThrows = 0
    MaxFaults = 2
    MaxResumes = 0
    MaxOld = 10
PROPERTIES
    RunReturns
    ActiveSettles
CHECK_DEADLOCK FALSE
