---------------------------- MODULE StartupProps ----------------------------
(***************************************************************************)
(* The properties of the start: what the rest of the program may assume of *)
(* the recipes, gates and scripts it is given.                             *)
(***************************************************************************)
EXTENDS Startup

Refusals == {"config_refused", "gates_refused", "recipes_refused", "scripts_refused"}

Phases == {"config", "gates", "recipes", "searching", "scripts", "running"} \cup Refusals

TypeOK ==
    /\ phase \in Phases
    /\ todo \in SUBSET (GateFiles \cup RecipeDirs)
    /\ gate \in [GateFiles -> Gates \cup {NoGate}]
    /\ recipe \in [RecipeDirs -> Recipes \cup {NoRecipe}]
    /\ errors \in BOOLEAN
    /\ configs \in SUBSET GateFiles
    /\ recipes \in [Ids -> RecipeDirs \cup {None}]
    /\ checking \in RecipeDirs \cup {None}
    /\ colour \in [StageNames -> {"none", "white", "gray", "black"}]
    /\ stack \in Seq([stage: StageNames, left: SUBSET StageNames])
    /\ cyclic \in BOOLEAN
    /\ registry \in SUBSET ScriptNames

\* A stage graph has no cycle when every set of stages has one that leads
\* out of the set or nowhere.
Sinkless(r, S) == S # {} /\ \A s \in S : Successors(r, s) \cap S # {}

Acyclic(r) == \A S \in SUBSET r.stages : ~Sinkless(r, S)

\* A recipe in the map is one the runtime can run: its start stage and its
\* transitions are stages, stage_order names every stage once and nothing
\* else, and it has no cycle unless it asks for one.  It is what
\* RecipeAssumption takes for granted of the stage graph, and what
\* validateStageGraphTopology and hasCycles have to establish together.
Sound(r) ==
    /\ r.start \in r.stages
    /\ \A s \in r.stages : /\ r.next[s] \subseteq r.stages \cup {Junk}
                           /\ Cardinality({i \in DOMAIN r.order : r.order[i] = s}) = 1
    /\ \A i \in DOMAIN r.order : r.order[i] \in r.stages \cup {Junk}
    /\ r.cycles = "reject" => Acyclic(r)

RecipesSound == \A d \in Loaded : Sound(recipe[d])

\* A recipe that another directory with the same id replaced.
Replaced(d) == recipes[recipe[d].id] \notin {None, d}

\* Once the application runs, a command is served by one gate or recipe that
\* claims it, and every gate and recipe that was read is reached by its
\* command: a gate unless it is disabled or a recipe claims its command, a
\* recipe unless another one has its id.
AllServed ==
    phase = "running" =>
        /\ \A c \in Commands : Cardinality(Served(c)) <= 1
        /\ \A f \in GateFiles :
               gate[f].file = "object" /\ gate[f].enabled =>
                   LET c == gate[f].command
                   IN  Served(c) = {f} \/ \E d \in Loaded : Served(c) = {d}
        /\ \A d \in RecipeDirs :
               recipe[d].file = "object" /\ ~Replaced(d) => Served(recipe[d].command) = {d}

BadGate(f) == gate[f] # NoGate /\ (GateInvalid(gate[f]) \/ WarningsThrow(gate[f]))

BadRecipe(d) ==
    \/ recipe[d].file = "malformed"
    \/ /\ recipe[d].file = "object"
       /\ RecipeInvalid(recipe[d]) \/ (recipe[d].cycles = "reject" /\ ~Acyclic(recipe[d]))

\* The start is refused for a fault of a file that was read, and with such a
\* fault, whenever it was found and whatever was read after it, the
\* application does not run.  In particular no recipe is turned away for a
\* cycle it does not have.
RefusedForCause ==
    /\ phase = "gates_refused" => DuplicateGates \/ \E f \in GateFiles : BadGate(f)
    /\ phase = "recipes_refused" => DuplicateCommands \/ \E d \in RecipeDirs : BadRecipe(d)
    /\ phase \in {"recipes", "searching", "scripts", "running"} =>
           ~DuplicateGates /\ \A f \in GateFiles : ~BadGate(f)
    /\ phase \in {"scripts", "running"} =>
           ~DuplicateCommands /\ \A d \in RecipeDirs : ~BadRecipe(d)

\* The start comes to an end, in particular the search for cycles does in a
\* graph full of them.
StartEnds == <>(phase \in {"running"} \cup Refusals)
=============================================================================
