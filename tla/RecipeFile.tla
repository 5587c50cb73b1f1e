----------------------------- MODULE RecipeFile -----------------------------
(***************************************************************************)
(* What a recipe.yaml may hold and the rules of                            *)
(* src/src/recipes/loader.ts about it: one operator per rule, TRUE of a    *)
(* file that breaks it.  The search for cycles is in Startup, step by step.*)
(* Required texts (name, description, roles, objectives, backend, model,   *)
(* timeout) are one flag per section.                                      *)
(***************************************************************************)
EXTENDS Integers, Sequences

CONSTANTS
    None,        \* a field that is missing
    Ids,         \* ids of recipes and gates
    Commands,    \* slash commands: texts that start with "/"
    StageNames,  \* names a recipe may use for a stage
    Junk         \* an entry of a list that is not a text

ASSUME RecipeFileAssumption ==
    None \notin Ids \cup Commands \cup StageNames /\ Junk \notin StageNames

\* A file that cannot be read, is no YAML object, or has these sections.
Recipes ==
    [file: {"unreadable", "malformed", "object"},
     id: Ids \cup {None},
     command: Commands \cup {None},              \* None also when it lacks the slash
     texts: BOOLEAN,                             \* recipe, orchestrator and stage texts
     stages: SUBSET StageNames,                  \* keys of stages
     order: Seq(StageNames \cup {Junk}),         \* stage_order, empty when missing
     start: StageNames \cup {None},              \* start_stage
     next: [StageNames -> SUBSET (StageNames \cup {Junk})],  \* allowed_transitions
     cycles: {"allow", "reject"}]                \* cycle_policy

MetadataIncomplete(r) == r.id = None \/ r.command = None \/ ~r.texts

OrderMissing(r) == r.order = <<>>

StartMissing(r) == r.start = None

\* The rules below look at entries that are texts only.
DuplicateEntry(r) ==
    \E i, j \in DOMAIN r.order :
        i < j /\ r.order[i] = r.order[j] /\ r.order[i] # Junk

StartUnknown(r) == r.start \notin r.stages

EntryUnknown(r) ==
    \E i \in DOMAIN r.order : r.order[i] \notin r.stages \cup {Junk}

OrphanStage(r) == \E s \in r.stages : \A i \in DOMAIN r.order : r.order[i] # s

\* Mutant of TargetUnknown: only the start stage's transitions are looked at.
TargetUnknownAtStart(r) == ~(r.next[r.start] \subseteq r.stages \cup {Junk})

TargetUnknown(r) == \E s \in r.stages : ~(r.next[s] \subseteq r.stages \cup {Junk})

\* validateRecipe up to the search for cycles; an object without a stages
\* section has an order entry or a start stage that does not exist.
RecipeInvalid(r) ==
    \/ MetadataIncomplete(r)
    \/ OrderMissing(r)
    \/ StartMissing(r)
    \/ DuplicateEntry(r)
    \/ StartUnknown(r)
    \/ EntryUnknown(r)
    \/ OrphanStage(r)
    \/ TargetUnknown(r)

\* Mutant of Successors: an entry that is no text is followed.
SuccessorsAll(r, s) == r.next[s]

\* The neighbours the search follows: hasCycles skips what is no text, and
\* its colour map has no entry for a stage that does not exist.
Successors(r, s) == r.next[s] \cap r.stages
=============================================================================
