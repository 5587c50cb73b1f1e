SPECIFICATION Spec
CONSTANTS
    fetch = fetch
    build = build
    review = review
    StepIds = {fetch, build, review}
    Workflow <- SmallWorkflow
    Type <- SmallType
    Policies <- SmallPolicies
    MaxLines = 2
INVARIANTS
    TypeOK
    StderrExact
    SeesEarlierOutputs
    AttemptsCounted
    ProgressAgrees
PROPERTY MachineSpec
CHECK_DEADLOCK FALSE
