SPECIFICATION FairSpec
CONSTANTS
    None = None
    Junk = Junk
    I = I
    J = J
    A = A
    B = B
    X = X
    Y = Y
    Z = Z
    P = P
    Q = Q
    G1 = G1
    G2 = G2
    D1 = D1
    D2 = D2
    S1 = S1
    Ids = {I, J}
    Commands = {A, B}
    StageNames = {X, Y, Z}
    StepNames = {P, Q}
    GateFiles = {G1, G2}
    RecipeDirs = {D1, D2}
    ScriptNames = {S1}
    GateContents <- MCGateContents
    RecipeContents <- MCRecipeContents
    Manifests <- MCManifests
CHECK_DEADLOCK FALSE
INVARIANTS
    TypeOK
    RecipesSound
    AllServed
    RefusedForCause
PROPERTIES
    StartEnds
