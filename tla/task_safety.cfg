SPECIFICATION Spec
CONSTANTS
    None = None
    s1 = s1
    s2 = s2
    l1 = l1
    build = build
    Stages = {s1, s2}
    StartStage = s1
    Transitions <- OneWay
    Labels = {l1}
    Outputs <- OneOutput
    Scripts = {build}
    OtherScripts = {}
    AllowedScripts <- BuildOnly
    EnvReady = {build}
    Refusing = {build}
    MaxStageRetries = 1
    MaxTotalActions = 2
    InitialStatuses = {"queued"}
    Startups = {"plain", "recovery"}
    MaxStalled = 1
    MaxRejections = 1
    Actions <- AllActions
    MaxThrows = 1
    MaxFaults = 1
    MaxResumes = 1
    MaxOld = 8
INVARIANTS
    TypeOK
    StartedOnce
    OutcomesAgree
    BudgetAccounted
    OneContinuation
    RefusedRunsOnce
PROPERTIES
    StartsOnlyRunning
    LifecycleSpec
CHECK_DEADLOCK FALSE
