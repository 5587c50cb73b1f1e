------------------------------ MODULE Startup ------------------------------
(***************************************************************************)
(* The start of the application up to the queue (src/src/index.ts,         *)
(* startApp): the configuration, then the gate files, the recipes and the  *)
(* script manifest, each read and checked one file at a time, and the two  *)
(* routers that come out of them.  A file's contents are fixed when it is  *)
(* read; a directory that cannot be listed is left out, and a missing one  *)
(* lists nothing.  The rest of startApp is in JobPipeline.                 *)
(***************************************************************************)
EXTENDS GateFile, FiniteSets

CONSTANTS
    GateFiles,    \* names a listing of the gates directory may show
    RecipeDirs,   \* names of subdirectories of the recipes directory
    GateContents,    \* gate file -> contents it may have
    RecipeContents,  \* recipe directory -> contents of its recipe.yaml
    ScriptNames,  \* script ids a manifest may use
    Manifests     \* contents the manifest may have

\* A manifest is a list of entries, empty when it cannot be read as one.
\* texts: all required fields are there and have allowed values; found:
\* the script file exists.
Entries == [id: ScriptNames \cup {None}, texts: BOOLEAN, found: BOOLEAN]

ASSUME StartupAssumption ==
    /\ GateContents \in [GateFiles -> SUBSET Gates]
    /\ RecipeContents \in [RecipeDirs -> SUBSET Recipes]
    /\ Manifests \subseteq Seq(Entries)
    /\ None \notin ScriptNames \cup GateFiles \cup RecipeDirs
    /\ GateFiles \cap RecipeDirs = {}

VARIABLES
    phase,     \* what startApp is at
    todo,      \* files of the listing that are still to be read
    gate,      \* file -> contents, as far as read
    recipe,    \* directory -> contents, as far as read
    errors,    \* loadGates: some file had an error
    configs,   \* loadGates: files whose configuration was accepted
    recipes,   \* loadRecipes: the map from recipe id to its directory
    checking,  \* directory whose recipe is under validation
    colour,    \* hasCycles: the colour of each stage
    stack,     \* hasCycles: the calls of dfs, each with what it has still to visit
    cyclic,    \* hasCycles: a back edge was found
    registry   \* loadScriptRegistry: ids in the registry

search == <<colour, stack, cyclic>>
vars == <<phase, todo, gate, recipe, errors, configs, recipes, checking, search, registry>>

\* loadConfig throws when a required environment variable is missing.
LoadsConfig ==
    /\ phase = "config"
    /\ \/ phase' = "config_refused" /\ UNCHANGED todo
       \/ phase' = "gates" /\ todo' \in SUBSET GateFiles
    /\ UNCHANGED <<gate, recipe, errors, configs, recipes, checking, search, registry>>

(***************************************************************************)
(* gates/loader.ts, gates/router.ts                                        *)
(***************************************************************************)
\* processGateFile, and what loadGates makes of its result.
ReadsGate(f, g) ==
    /\ gate' = [gate EXCEPT ![f] = g]
    /\ todo' = todo \ {f}
    /\ UNCHANGED <<recipe, recipes, checking, search, registry>>

GateRejected(f, g) ==
    /\ ReadsGate(f, g)
    /\ GateInvalid(g)
    /\ errors' = TRUE
    /\ UNCHANGED <<phase, configs>>

GateThrows(f, g) ==
    /\ ReadsGate(f, g)
    /\ ~GateInvalid(g) /\ WarningsThrow(g)
    /\ phase' = "gates_refused"
    /\ UNCHANGED <<errors, configs>>

GateAccepted(f, g) ==
    /\ ReadsGate(f, g)
    /\ ~GateInvalid(g) /\ ~WarningsThrow(g)
    /\ configs' = configs \cup {f}
    /\ UNCHANGED <<phase, errors>>

\* detectCrossFileDuplicates
DuplicateGates ==
    \E f, h \in configs : /\ f # h
                          /\ \/ gate[f].id = gate[h].id
                             \/ gate[f].command = gate[h].command

\* initRouter throws when there is any error; then the recipes are listed.
GatesDone ==
    /\ phase = "gates" /\ todo = {}
    /\ IF errors \/ DuplicateGates
       THEN phase' = "gates_refused" /\ UNCHANGED todo
       ELSE phase' = "recipes" /\ todo' \in SUBSET RecipeDirs
    /\ UNCHANGED <<gate, recipe, errors, configs, recipes, checking, search, registry>>

(***************************************************************************)
(* recipes/loader.ts, recipes/router.ts                                    *)
(***************************************************************************)
ReadsRecipe(d, r) ==
    /\ recipe' = [recipe EXCEPT ![d] = r]
    /\ todo' = todo \ {d}
    /\ UNCHANGED <<gate, errors, configs, recipes, registry>>

\* A recipe.yaml that cannot be read is passed over.
RecipeSkipped(d, r) ==
    /\ ReadsRecipe(d, r)
    /\ r.file = "unreadable"
    /\ UNCHANGED <<phase, checking, search>>

RecipeMalformed(d, r) ==
    /\ ReadsRecipe(d, r)
    /\ r.file = "malformed"
    /\ phase' = "recipes_refused"
    /\ UNCHANGED <<checking, search>>

\* validateRecipe comes to hasCycles.
SearchBegins(d, r) ==
    /\ ReadsRecipe(d, r)
    /\ r.file = "object"
    /\ phase' = "searching" /\ checking' = d
    /\ colour' = [s \in StageNames |-> IF s \in r.stages THEN "white" ELSE "none"]
    /\ stack' = <<>> /\ cyclic' = FALSE

Calls(s) == [stage |-> s, left |-> Successors(recipe[checking], s)]

\* dfs(s)
Enter(s) ==
    /\ stack' = Append(stack, Calls(s))
    /\ colour' = [colour EXCEPT ![s] = "gray"]

Searching == phase = "searching" /\ ~cyclic

\* The loop over all stages calls dfs for one that is white.
EnterRoot(s) ==
    /\ Searching
    /\ stack = <<>> /\ colour[s] = "white"
    /\ Enter(s)
    /\ UNCHANGED <<phase, todo, gate, recipe, errors, configs, recipes, checking, cyclic, registry>>

Top == stack[Len(stack)]

\* The topmost call, done with t.
Without(t) == [stage |-> Top.stage, left |-> Top.left \ {t}]

\* Mutant of BackEdge: a stage that is done counts as one on the path.
BackEdgeVisited(t) == colour[t] # "white"

BackEdge(t) == colour[t] = "gray"

\* The loop over the neighbours of the topmost stage.
Visit(t) ==
    /\ Searching
    /\ stack # <<>> /\ t \in Top.left
    /\ IF BackEdge(t)
       THEN cyclic' = TRUE /\ UNCHANGED <<colour, stack>>
       ELSE /\ UNCHANGED cyclic
            /\ IF colour[t] = "white"
               THEN Enter(t)
               ELSE /\ stack' = [stack EXCEPT ![Len(stack)] = Without(t)]
                    /\ UNCHANGED colour
    /\ UNCHANGED <<phase, todo, gate, recipe, errors, configs, recipes, checking, registry>>

\* Mutant of Done: the stage is taken off the path and nothing more.
DoneWhite(s) == colour' = [colour EXCEPT ![s] = "white"]

Done(s) == colour' = [colour EXCEPT ![s] = "black"]

\* dfs returns to its caller, which goes on with its next neighbour.
Leave ==
    /\ Searching
    /\ stack # <<>> /\ Top.left = {}
    /\ Done(Top.stage)
    /\ stack' = SubSeq(stack, 1, Len(stack) - 1)
    /\ UNCHANGED <<phase, todo, gate, recipe, errors, configs, recipes, checking, cyclic, registry>>

SearchDone ==
    /\ phase = "searching"
    /\ \/ cyclic
       \/ stack = <<>> /\ \A s \in StageNames : colour[s] # "white"

\* Errors of a recipe: those of the other rules, and a cycle nobody allowed.
Condemned(r) == RecipeInvalid(r) \/ (cyclic /\ r.cycles = "reject")

NoColours == [s \in StageNames |-> "none"]

\* Map.set: a recipe replaces an earlier one with its id.
RecipeJudged ==
    /\ SearchDone
    /\ LET r == recipe[checking]
       IN  IF Condemned(r)
           THEN phase' = "recipes_refused" /\ UNCHANGED recipes
           ELSE phase' = "recipes" /\ recipes' = [recipes EXCEPT ![r.id] = checking]
    /\ checking' = None /\ colour' = NoColours /\ stack' = <<>> /\ cyclic' = FALSE
    /\ UNCHANGED <<todo, gate, recipe, errors, configs, registry>>

\* Directories of the recipes in the map.
Loaded == {recipes[i] : i \in Ids} \ {None}

\* buildCommandMap
DuplicateCommands ==
    \E d, e \in Loaded : d # e /\ recipe[d].command = recipe[e].command

RecipesDone ==
    /\ phase = "recipes" /\ todo = {}
    /\ phase' = IF DuplicateCommands THEN "recipes_refused" ELSE "scripts"
    /\ UNCHANGED <<todo, gate, recipe, errors, configs, recipes, checking, search, registry>>

\* What the two routers find for a command.
RecipesFor(c) == {d \in Loaded : recipe[d].command = c}
GatesFor(c) == {f \in configs : gate[f].enabled /\ gate[f].command = c}

\* Mutant of Served: gates are asked first.
ServedGateFirst(c) == IF GatesFor(c) # {} THEN GatesFor(c) ELSE RecipesFor(c)

\* createMessageHandler asks the recipes first, as detectCollisions warned.
Served(c) == IF RecipesFor(c) # {} THEN RecipesFor(c) ELSE GatesFor(c)

(***************************************************************************)
(* scripts/registry.ts                                                     *)
(***************************************************************************)
ManifestInvalid(m) ==
    \/ m = <<>>
    \/ \E i \in DOMAIN m : m[i].id = None \/ ~m[i].texts \/ ~m[i].found
    \/ \E i, j \in DOMAIN m : i < j /\ m[i].id = m[j].id

ReadsManifest(m) ==
    /\ phase = "scripts"
    /\ IF ManifestInvalid(m)
       THEN phase' = "scripts_refused" /\ UNCHANGED registry
       ELSE phase' = "running" /\ registry' = {m[i].id : i \in DOMAIN m}
    /\ UNCHANGED <<todo, gate, recipe, errors, configs, recipes, checking, search>>

NoGate ==
    [file |-> "unread", id |-> None, command |-> None, enabled |-> FALSE,
     env |-> FALSE, workflow |-> {}, after |-> {}, section |-> FALSE,
     steps |-> [s \in StepNames |-> None]]

NoRecipe ==
    [file |-> "unread", id |-> None, command |-> None, texts |-> FALSE,
     stages |-> {}, order |-> <<>>, start |-> None,
     next |-> [s \in StageNames |-> {}], cycles |-> "reject"]

Init ==
    /\ phase = "config" /\ todo = {}
    /\ gate = [f \in GateFiles |-> NoGate]
    /\ recipe = [d \in RecipeDirs |-> NoRecipe]
    /\ errors = FALSE /\ configs = {}
    /\ recipes = [i \in Ids |-> None]
    /\ checking = None /\ colour = NoColours /\ stack = <<>> /\ cyclic = FALSE
    /\ registry = {}

LoadsGates ==
    \/ GatesDone
    \/ /\ phase = "gates"
       /\ \E f \in todo : \E g \in GateContents[f] :
              GateRejected(f, g) \/ GateThrows(f, g) \/ GateAccepted(f, g)

HasCycles ==
    \/ \E s \in StageNames : EnterRoot(s) \/ Visit(s)
    \/ Leave

LoadsRecipes ==
    \/ /\ phase = "recipes"
       /\ \E d \in todo : \E r \in RecipeContents[d] :
              RecipeSkipped(d, r) \/ RecipeMalformed(d, r) \/ SearchBegins(d, r)
    \/ HasCycles
    \/ RecipeJudged
    \/ RecipesDone

Next ==
    \/ LoadsConfig
    \/ LoadsGates
    \/ LoadsRecipes
    \/ \E m \in Manifests : ReadsManifest(m)

Spec == Init /\ [][Next]_vars

\* The event loop goes on: file reads return.
FairSpec == Spec /\ WF_vars(Next)
=============================================================================
