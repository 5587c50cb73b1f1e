------------------------------ MODULE GateFile ------------------------------
(***************************************************************************)
(* What a gate file may hold and the rules of src/src/gates/loader.ts      *)
(* about it.  The fields an execution requires by its type (model, tools,  *)
(* command, module, function, timeouts) are one kind of step definition.   *)
(***************************************************************************)
EXTENDS RecipeFile

CONSTANTS
    StepNames    \* names of workflow steps

\* "bare" has no execution section, "null" is no object at all.
StepDefs == {"runnable", "incomplete", "unknown_type", "bare", "null"}

Gates ==
    [file: {"unreadable", "malformed", "object"},
     id: Ids \cup {None},
     command: Commands \cup {None},
     enabled: BOOLEAN,                           \* not explicitly false
     env: BOOLEAN,                               \* every {{env.X}} is defined
     workflow: SUBSET StepNames,                 \* workflow.steps
     after: SUBSET StepNames,                    \* human_checkpoints
     section: BOOLEAN,                           \* there is a steps: section
     steps: [StepNames -> StepDefs \cup {None}]] \* its definitions

Defined(g) == {s \in StepNames : g.section /\ g.steps[s] # None}

GateMetadataMissing(g) == g.id = None \/ g.command = None

WorkflowBroken(g) ==
    \/ g.workflow = {}
    \/ g.section /\ ~(g.workflow \subseteq Defined(g))

ExecutionBroken(g) == \E s \in Defined(g) : g.steps[s] \in {"incomplete", "unknown_type"}

CheckpointUnknown(g) == ~(g.after \subseteq g.workflow)

\* processGateFile returns no configuration but errors.
GateInvalid(g) ==
    \/ g.file # "object"
    \/ ~g.env
    \/ GateMetadataMissing(g)
    \/ WorkflowBroken(g)
    \/ ExecutionBroken(g)
    \/ CheckpointUnknown(g)

\* checkWarnings reads config.steps and the fields of every definition, and
\* throws where a section or a definition is not there.
WarningsThrow(g) == ~g.section \/ \E s \in Defined(g) : g.steps[s] = "null"
=============================================================================
