------------------------- MODULE DecisionValidator -------------------------
(***************************************************************************)
(* The recipe policy every orchestrator decision is checked against before *)
(* it is applied (src/src/runtime/decision-validator.ts), with the two     *)
(* helpers of the worker that feed it: the recipe variant that lets the    *)
(* current stage be re-run, and the output labels that count as produced.  *)
(***************************************************************************)
EXTENDS TaskState

KnownActions == {"run_stage_agent", "run_script", "pause_for_input", "finish_run", "fail_run"}

\* A parsed decision.  Its action is whatever string the model returned;
\* "patch" is a script_id that input_patch carries.
Decisions == [action: KnownActions \cup {"unknown"},
              target: Stages \cup {None},
              script: ScriptIds \cup {None},
              patch: ScriptIds \cup {None}]

\* buildValidationRecipe adds the current stage to its own transitions.
ValidationTransitions(stage) == Transitions[stage] \cup {stage}

RunsOf(t, stage) ==
    {i \in DOMAIN t.subtasks : /\ t.subtasks[i].kind = "stage_agent_run"
                               /\ t.subtasks[i].stage = stage}

\* The outputs of a stage count as produced when a run of it completed, and
\* are not asked for when it was never run.
OutputsWaived(t, stage) ==
    \/ RunsOf(t, stage) = {}
    \/ \E i \in RunsOf(t, stage) : t.subtasks[i].status = "completed"

LabelsOf(stage) == {Outputs[stage][i] : i \in DOMAIN Outputs[stage]}

CompletedLabels(t, registered) ==
    registered \cup UNION {LabelsOf(s) : s \in {s \in Stages : OutputsWaived(t, s)}}

\* One operator per rule; each is TRUE of a decision that breaks it.
TargetStageMissing(d) == d.action = "run_stage_agent" /\ d.target = None

TransitionIllegal(d, stage) ==
    /\ d.action = "run_stage_agent"
    /\ d.target # None
    /\ d.target \notin ValidationTransitions(stage)

RetryBudgetSpent(d, t) ==
    /\ d.action = "run_stage_agent"
    /\ d.target # None
    /\ t.retries[d.target] >= MaxStageRetries

ActionBudgetSpent(t) == t.total >= MaxTotalActions

OutputsMissing(d, stage, done) ==
    d.action = "finish_run" /\ ~(LabelsOf(stage) \subseteq done)

ScriptIdMissing(d) == d.action = "run_script" /\ d.script = None

ScriptNotAllowed(d, stage) ==
    /\ d.action = "run_script"
    /\ d.script # None
    /\ d.script \notin Scripts \cap AllowedScripts[stage]

ScriptEnvMissing(d) ==
    d.action = "run_script" /\ d.script \in Scripts \ EnvReady

\* validateDecision: every rule, in the state of task t, with the labels
\* the journal registers.
ValidDecision(d, t, registered) ==
    LET stage == EffectiveStage(t)
    IN  ~ \/ TargetStageMissing(d)
          \/ TransitionIllegal(d, stage)
          \/ RetryBudgetSpent(d, t)
          \/ ActionBudgetSpent(t)
          \/ OutputsMissing(d, stage, CompletedLabels(t, registered))
          \/ ScriptIdMissing(d)
          \/ ScriptNotAllowed(d, stage)
          \/ ScriptEnvMissing(d)
=============================================================================
