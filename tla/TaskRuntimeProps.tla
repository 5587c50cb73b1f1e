-------------------------- MODULE TaskRuntimeProps --------------------------
(***************************************************************************)
(* The properties of the task runtime.  Every one of them is about a task  *)
(* record and a journal that survive crashes and exceptions at any point,  *)
(* and about a job that may be delivered again after a crash.  A new       *)
(* delivery starts a new record, with subtask ids from the start and       *)
(* counters at 0, over a journal that keeps the lines of the old one: what *)
(* is said of a record is said of the journal since it began, and what is  *)
(* said of the task as a whole counts the records.                         *)
(***************************************************************************)
EXTENDS TaskRuntime

TypeOK ==
    /\ pc \in PCs
    /\ todo \in Seq(Writes)
    /\ mem \in Tasks
    /\ disk \in Tasks
    /\ journal \in Seq(Entries)
    /\ cur \in Nat
    /\ rejections \in 0 .. MaxRejections
    /\ verdict \in {None, "ok", "error", "needs_input"}
    /\ job \in Jobs
    /\ since \in 0 .. Len(journal)
    /\ starts \in 0 .. MaxStalled + 1
    /\ crashes \in Nat /\ throws \in 0 .. MaxThrows /\ crashes + throws <= MaxFaults
    /\ resumes \in 0 .. MaxResumes

EverLogged(type) == {i \in DOMAIN journal : journal[i].type = type}

\* The entries about the record that is in task.json.
Logged(type) == {i \in EverLogged(type) : i > since}

Counted == {"stage_agent_run", "script_run"}

OncePerRecord ==
    \A i, j \in Logged("subtask_started") : journal[i].id = journal[j].id => i = j

AtMostPerDelivery ==
    LET started == EverLogged("subtask_started")
    IN  \A i \in started : Cardinality({j \in started : journal[j].id = journal[i].id}) <= starts

\* A restart by recovery never repeats the agent call or the script of a
\* subtask it finds interrupted: no subtask of a record is started twice
\* (task-state.ts dequeueNext, rebuildQueueForActiveTask).  A job delivered
\* again does repeat them, under the same ids (generateSubtaskId counts from
\* the empty array of the job's copy), but an id is never started more often
\* than the job was delivered.
StartedOnce == OncePerRecord /\ AtMostPerDelivery

SettledAsLogged ==
    /\ \A i \in Logged("subtask_completed") : disk.subtasks[journal[i].id].status = "completed"
    /\ \A i \in Logged("subtask_failed") : disk.subtasks[journal[i].id].status = "failed"

RestIsLogged ==
    /\ disk.status = "completed" => Logged("task_completed") # {}
    /\ disk.status \in {"paused", "waiting"} =>
           \E i \in Logged("task_paused") : \A j \in Logged("task_resumed") : j < i

\* The journal and task.json agree about outcomes, from the line on at which
\* the record began (the outcomes of a record that a redelivered job replaced
\* stand before it, under the ids the new one uses again).  The outcome the
\* journal records for a subtask is the one task.json holds: recovery never
\* fails a subtask that was reported complete, and no handler reports before
\* its result is durable.  A task that task.json says is completed, paused or
\* waiting is so in the journal, which is written first (worker.ts, the head
\* comment): an old line about the run before does not make it so.
OutcomesAgree == SettledAsLogged /\ RestIsLogged

\* The durable counters account for every stage and script subtask of the
\* record, so a recovery neither refunds nor double-charges the budgets, and
\* the budgets of the recipe bound the work of one record (applyDecision,
\* checkRetryBudget, checkTotalActionBudget).  A job delivered again begins
\* with the whole budget: LifecycleSpec bounds how often that happens.
BudgetAccounted ==
    /\ Cardinality({i \in DOMAIN disk.subtasks : disk.subtasks[i].kind \in Counted}) = disk.total
    /\ disk.total <= MaxTotalActions
    /\ \A s \in Stages : /\ Cardinality(RunsOf(disk, s)) = disk.retries[s]
                         /\ disk.retries[s] <= MaxStageRetries

SingleContinuation == Len(disk.queue) <= 1

PausedIsQuiet ==
    disk.status \in {"paused", "waiting"} => disk.queue = <<>> /\ disk.active = 0

NoOrphanedWork ==
    \A i \in DOMAIN disk.subtasks :
        disk.subtasks[i].status = "active" /\ disk.subtasks[i].kind # "orchestrator_eval"
            => disk.active = i

\* What a human said is the input of the evaluation after the resume.
InputCarried ==
    crashes = 0 /\ throws = 0 /\ todo = <<>> =>
        \A i \in DOMAIN disk.subtasks :
            disk.subtasks[i].kind = "resume_after_input" /\ disk.subtasks[i].status = "completed"
                => /\ i + 1 \in DOMAIN disk.subtasks
                   /\ disk.subtasks[i + 1].kind = "orchestrator_eval" /\ disk.subtasks[i + 1].input

\* The run has one continuation, and recovery knows it.  No crash, exception or
\* resume leaves two subtasks queued, so the orchestrator is never asked twice
\* about one state; a paused or expired task has no work recorded as pending or
\* active that a reply would compete with; and only an orchestrator_eval can be
\* left active with nothing pointing at it: a stage or script subtask that is
\* active is the one task.activeSubtaskId names (rebuildQueueForActiveTask).  A
\* run that is resumed goes on with the reply, unless something failed between.
OneContinuation == SingleContinuation /\ PausedIsQuiet /\ NoOrphanedWork /\ InputCarried

\* A script that refuses to be run again completes at most once per task,
\* although a crash may separate its completion from the end of its subtask
\* and the orchestrator then asks for it again, in the same record or in the
\* one of a redelivered job (enforceRerunPolicy reads the whole journal).
RefusedRunsOnce ==
    \A i, j \in EverLogged("script_completed") :
        journal[i].what \in Refusing /\ journal[i].what = journal[j].what => i = j

\* Nothing is started for a task whose durable status says it rests.
StartsOnlyRunning ==
    [][Len(journal') > Len(journal) /\ journal'[Len(journal')].type = "subtask_started"
         => disk.status \in {"queued", "active"}]_vars

\* The durable record moves as TaskLifecycle says, across crashes, recoveries
\* and redeliveries.
Lifecycle == INSTANCE TaskLifecycle WITH status <- disk.status, spent <- disk.total,
                                         Budget <- MaxTotalActions,
                                         MaxStarts <- MaxStalled + 1

LifecycleSpec == Lifecycle!Spec

(***************************************************************************)
(* Liveness                                                                *)
(***************************************************************************)
\* runTask returns: the budgets and the rejection limit bound the loop.
RunReturns == InRunTask ~> ~InRunTask

\* The last evaluation was accepted and decided nothing: its decision has an
\* action that no rule of the validator and no case of applyDecision knows.
Undecided ==
    LET n == Len(journal)
    IN  /\ n > 1 /\ pc = "idle" /\ disk.queue = <<>>
        /\ journal[n - 1].type = "orchestrator_decision"
        /\ journal[n].type = "subtask_completed"

\* A durably active task comes to rest despite crashes, because recovery
\* hands it back to the worker.  Only a decision of an unknown action lets
\* runTask return with the task active and nothing to do.
ActiveSettles ==
    disk.status = "active" ~>
        disk.status \in {"paused", "waiting", "completed", "failed"} \/ Undecided

(***************************************************************************)
(* Statements of the documentation that the code does not keep.            *)
(***************************************************************************)
\* worker.ts: a stage_agent_run is marked "completed or failed based on the
\* result"; a script that asks for input does not complete its subtask.
CompletedMeansOk ==
    cur # 0 /\ verdict \in {"error", "needs_input"} =>
        mem.subtasks[cur].status # "completed"

\* task-state.ts: the scan finds the "tasks that need recovery on startup",
\* among them every task whose process died in the middle of a subtask.
InterruptedIsRecovered ==
    pc = "down" /\ Interrupted(disk) => disk.status \in Recoverable

\* scope-bees.md 5.5: PAUSED -> WAITING -> ACTIVE, when somebody replies.
WaitingResumes == disk.status = "waiting" ~> disk.status = "active"
=============================================================================
