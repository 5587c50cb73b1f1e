------------------------------ MODULE Recipe ------------------------------
(***************************************************************************)
(* A loaded recipe and the script registry, as the runtime sees them: the  *)
(* stage graph, the outputs a stage declares, the scripts it may call and  *)
(* the two budgets of the orchestrator (src/src/recipes/types.ts,          *)
(* src/src/scripts/types.ts).  The loader has already rejected a recipe    *)
(* whose start stage or transitions name a stage that does not exist.      *)
(***************************************************************************)
EXTENDS Naturals, Sequences

CONSTANTS
    None,            \* an optional field that is not set
    Stages,          \* keys of recipe.stages
    StartStage,      \* recipe.start_stage
    Transitions,     \* stage -> set of allowed_transitions
    Labels,          \* output labels
    Outputs,         \* stage -> sequence of the labels of its outputs
    Scripts,         \* script ids of the registry
    OtherScripts,    \* ids an orchestrator may name that no script has
    AllowedScripts,  \* stage -> set of allowed_scripts
    EnvReady,        \* scripts whose required environment variables are set
    Refusing,        \* scripts with rerun_policy "refuse"
    MaxStageRetries, \* orchestrator.max_stage_retries
    MaxTotalActions  \* orchestrator.max_total_actions

ScriptIds == Scripts \cup OtherScripts

ASSUME RecipeAssumption ==
    /\ StartStage \in Stages
    /\ None \notin Stages \cup ScriptIds \cup Labels
    /\ Transitions \in [Stages -> SUBSET Stages]
    /\ Outputs \in [Stages -> Seq(Labels)]
    /\ AllowedScripts \in [Stages -> SUBSET ScriptIds]
    /\ Scripts \cap OtherScripts = {}
    /\ EnvReady \subseteq Scripts
    /\ Refusing \subseteq Scripts
    /\ MaxStageRetries \in Nat
    /\ MaxTotalActions \in Nat
=============================================================================
