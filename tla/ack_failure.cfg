SPECIFICATION Spec
CONSTANTS
    recipeTask = recipeTask
    gateTask = gateTask
    NoTask = NoTask
    Tasks = {recipeTask, gateTask}
    Recipes = {recipeTask}
    MaxStalled = 1
    MaxCrashes = 1
    MaxStops = 1
INVARIANT RefusedIsNotQueued
CHECK_DEADLOCK FALSE
