SPECIFICATION FairSpec
CONSTANTS
    recipeTask = recipeTask
    gateTask = gateTask
    NoTask = NoTask
    Tasks = {recipeTask, gateTask}
    Recipes = {recipeTask}
    MaxStalled = 1
    MaxCrashes = 1
    MaxStops = 1
INVARIANTS
    TypeOK
    QueuedIsQueued
    ResultsTrue
PROPERTIES
    CleanExit
    PipelineSettles
CHECK_DEADLOCK FALSE
