----------------------------- MODULE TaskState -----------------------------
(***************************************************************************)
(* The task record of src/src/queue/types.ts and the operations of         *)
(* src/src/runtime/task-state.ts on it.  A subtask is named by its         *)
(* position in task.subtasks: generateSubtaskId numbers them from the      *)
(* length of that array.  startedAt and completedAt are represented by     *)
(* the subtask status, which changes together with them.                   *)
(* Payloads, artifact ids and costs are not represented: nothing in the    *)
(* runtime branches on them.                                               *)
(***************************************************************************)
EXTENDS Recipe

Kinds == {"orchestrator_eval", "stage_agent_run", "resume_after_input", "script_run"}

\* Statuses the runtime gives a task; nothing sets "aborted".
TaskStatuses == {"queued", "active", "paused", "waiting", "completed", "failed"}

\* Nothing sets "needs_input" or "skipped".
SubtaskStatuses == {"pending", "active", "completed", "failed"}

Subtasks == [kind: Kinds, stage: Stages, status: SubtaskStatuses,
             script: ScriptIds \cup {None},  \* payload.script_id of a script_run
             input: BOOLEAN]                 \* payload.humanInput of an orchestrator_eval

\* "unsaved" stands for a task that has no task.json yet.
Tasks == [status: TaskStatuses \cup {"unsaved"},
          stage: Stages \cup {None},         \* currentStageId
          retries: [Stages -> Nat],          \* stageRetryCount, 0 where absent
          total: Nat,                        \* totalActionCount
          subtasks: Seq(Subtasks),
          queue: Seq(Nat),                   \* queuedSubtaskIds
          active: Nat,                       \* activeSubtaskId, 0 when undefined
          human: BOOLEAN]                    \* capturedHumanContext is set

\* The task a router creates for a message; status is the one it gives.
NewTask(status) ==
    [status |-> status, stage |-> None, retries |-> [s \in Stages |-> 0],
     total |-> 0, subtasks |-> <<>>, queue |-> <<>>, active |-> 0,
     human |-> FALSE]

NewSubtask(kind, stage, script, input) ==
    [kind |-> kind, stage |-> stage, status |-> "pending",
     script |-> script, input |-> input]

\* Mutant of NextId: counts the waiting subtasks instead of all of them.
NextIdOfQueue(t) == Len(t.queue) + 1

\* The id the next enqueued subtask gets.
NextId(t) == Len(t.subtasks) + 1

EnqueueSubtask(t, sub) ==
    [t EXCEPT !.subtasks = Append(@, sub), !.queue = Append(@, NextId(t))]

DequeueNext(t) == [t EXCEPT !.queue = Tail(@)]

\* The lifecycle transitions set a subtask's status and task.activeSubtaskId.
MarkSubtask(t, id, status, active) ==
    [t EXCEPT !.subtasks[id].status = status, !.active = active]

MarkSubtaskActive(t, id) == MarkSubtask(t, id, "active", id)

\* markSubtaskComplete and markSubtaskFailed
SettleSubtask(t, id, status) == MarkSubtask(t, id, status, 0)

ClearActive(t) == [t EXCEPT !.active = 0]

\* The active subtask was started and never completed.
Interrupted(t) == t.active # 0 /\ t.subtasks[t.active].status = "active"

EffectiveStage(t) == IF t.stage = None THEN StartStage ELSE t.stage

\* Mutant of Recoverable: the startup scan leaves running tasks out.
RecoverableResting == {"paused", "waiting"}

\* Statuses the startup scan returns (RECOVERABLE_STATUSES).
Recoverable == {"active", "paused", "waiting"}
=============================================================================
