SPECIFICATION Spec
CONSTANTS
    None = None
    s1 = s1
    s2 = s2
    l1 = l1
    build = build
    Stages = {s1}
    StartStage = s1
    Transitions <- OneWay
    Labels = {l1}
    Outputs <- OneOutput
    Scripts = {build}
    OtherScripts = {}
    AllowedScripts <- BuildOnly
    EnvReady = {build}
    Refusing = {build}
    MaxStageRetries = 1
    MaxTotalActions = 1
    InitialStatuses = {"active"}
    Startups = {"plain"}
    MaxStalled = 0
    MaxRejections = 1
    Actions <- StageActions
    MaxThrows = 0
    MaxFaults = 0
    MaxResumes = 0
    MaxOld = 0
INVARIANT CompletedMeansOk
CHECK_DEADLOCK FALSE
