# Verification of beesy

TLA+ models of beesy, the Slack-driven orchestrator of AI work (`src/src`), with
the TLC runs that check them and the theorems TLAPS proves about them. Paths
below are relative to `src/src` unless they start with a directory of the
repository root (`tests/`, `scope-bees.md`).

## The system

A Slack message becomes a task. `index.ts` routes it, puts it on a BullMQ queue
(`queue/task-queue.ts`), and one worker of concurrency 1 picks it up. A task that
came from a *recipe* is run by `runTask` (`runtime/worker.ts`); a task that came
from a *gate* is run by `executeTask` (`executor/task-executor.ts`).

| Component | State it keeps | Operations | Interacts with | What makes it correct |
|---|---|---|---|---|
| Worker loop `runtime/worker.ts` | the task in memory, `consecutiveRejections` | `runTask`, one handler per subtask kind, `applyDecision` | everything in this table down to the script runner | one continuation at a time, budgets respected, the loop ends, task.json and journal agree |
| Task state `runtime/task-state.ts` | `task.json`: status, subtasks, queue, active id, counters | enqueue, dequeue, mark active / complete / failed, persist | worker, pause controller | an id names one subtask of a record, queue order kept, task.json is a whole record at every moment |
| Recovery `runtime/task-state.ts` | none | `recoverTasks`, `rebuildQueueForActiveTask`, `performRecovery` | task.json, journal | every running task found, nothing repeated, nothing at rest started |
| Decision validator `runtime/decision-validator.ts` | none (pure) | eight rules | worker, script registry | a rejected decision changes nothing but the journal, the budgets bound the work |
| Pause controller `runtime/pause-controller.ts` | pause fields of the task | `resumeTask`, `checkTimeouts` | task state, journal | a reply is used once, an expired task can still be answered |
| Journal `runtime/journal.ts` | `journal.jsonl` | append, read | worker, script handler, delivery | order against task.json, torn lines skipped |
| Stage agent handler | artifacts on disk | run the agent, store outputs | CLI backends | a failed run does not count as done |
| Script handler | artifacts on disk, journal | checks, rerun policy, run, store | script runner, registry | a script that refuses reruns completes once |
| Script runner, CLI backends | child process, timers, flags | spawn, time out, kill | the operating system | exactly one result per call, no process or flag left |
| Gate executor | subtasks of the gate, outputs so far | `executeTask`, retries, progress | dispatcher, stderr batcher, adapter | attempts bounded, order of steps, progress matches the outcome |
| Delivery `delivery/*` | git worktree, remote, pull request, journal | stage, commit, push, upsert | git, GitHub | a retry neither repeats nor loses a step |
| Queue and wiring `queue/`, `index.ts` | Redis jobs | enqueue, deliver, reply, shut down | Slack adapter, worker | every accepted message is answered once |
| Loaders `gates/`, `recipes/`, `scripts/registry.ts` | maps filled at startup | read a directory or manifest, check every file, look for cycles | the file system | what they accept the runtime can run, and they refuse nothing else |
| Routers `gates/router.ts`, `recipes/router.ts` | a command map each | refuse duplicates, match | the loaders, the message handler | every command finds the one configuration that claims it |

How they interact: a job's processor calls `runTask` or `executeTask` and awaits
it; both call the runners and await them; the gate executor reports progress
through a callback, the stderr of a script through a batcher; the task state and
the journal are files every part of a run writes; recovery and the pause
controller act on what those files say; delivery reads the journal back.

What is hard: the process can die or a write can fail between any two durable writes,
and one handler makes up to eight of them to two files; after a crash the queue delivers
the job again with the task as it was when it was queued, and recovery goes on with the
task on disk; a reply, an expiry and the worker act on the same record; the orchestrator
is a language model whose answers are arbitrary; calls to agents and scripts fail, time
out or report errors in their result; events of a child process, timers and file
operations come in any order; the shutdown closes the queue twice; a git or gh call that
is reported as failed may have had its effect.

## Modules

    Recipe            constants of a recipe and the script registry, with their assumptions
     └ TaskState      the task record and the operations of task-state.ts on it
        └ DecisionValidator   the rules of decision-validator.ts
           └ TaskRuntime      runTask, its job, pausing, recovery: the state machine
              └ TaskRuntimeProps     the properties
                 ├ MCTaskRuntime     the small recipes TLC uses
                 └ TaskRuntimeProofs the theorems about types and starts
                    └ TaskOutcomeProofs the theorems about what is left behind
    TaskLifecycle     the abstract specification TaskRuntime implements

    GateTask          executeTask, the dispatcher and the stderr batcher
     └ GateTaskProps  ├ MCGateTask   └ GateTaskProofs
    StepMachine       the abstract specification GateTask implements

    JobPipeline       index.ts, the queue, Redis and Slack: from a message to its answer
     └ JobPipelineProps  ├ MCJobPipeline   └ JobPipelineProofs

    RecipeFile        what a recipe.yaml may hold, and the rules about it
     └ GateFile       the same of a gate file
        └ Startup     loading, checking and routing, up to the running application
           └ StartupProps  ├ MCStartup   └ StartupProofs

    PauseController   resumeTask and checkTimeouts called at the same time
     └ PauseControllerProps  ├ MCPauseController   └ PauseControllerProofs

    ProcessSupervisor one step run as a child process or a tool, with its retries
     └ ProcessSupervisorProps  ├ MCProcessSupervisor   └ ProcessSupervisorProofs

    DeliveryJournal   the journal file, and the delivery state read back from it
     └ Delivery       the workspace and the four delivery actions
        └ DeliveryProps ├ MCDelivery   └ DeliveryProofs

The seven machines are separate because the code joins them at one call each: what a run
does is one outcome for `JobPipeline`, what a call of a script, tool or agent does is
one outcome for `TaskRuntime` and `GateTask`. Which outcomes there are is taken from the
lower machine: `ProcessSupervisor` shows that a call is answered at all and with what,
`JobPipeline` that a run starts once at a time and that a stalled job is delivered
again, `Startup` that the recipes are such as `RecipeAssumption` has them,
`PauseController` that on one task object the ways out of a pause can be taken one at a
time, and when task.json is whole, as `TaskRuntime` takes for granted.

### TaskRuntime

**State.** `mem` is the `Task` object `runTask` holds, `disk` is `task.json`,
`journal` is `journal.jsonl`; `cur` is the subtask of the current loop pass and
`pc` the place in `runTask`. `job` is the job in the queue: to be delivered, held by
the processor or done, with the status the task has in the job's data and how often
it stalled. `verdict` records what the last agent or script reported and is read
only by a property. A subtask is named by its position in `task.subtasks`, because
`generateSubtaskId` numbers it from the array's length. Two histories say where the
record in task.json began: `starts` counts the runs that saved the job's copy of the
task, `since` is how many lines the journal had when the last of them did.

**Actions.** A handler is not one atomic step: it computes the list `todo` of its
durable writes in the order of the code, and `DoStep` makes one of them at a
time, so that `Crash` and `RunTaskThrows` can fall between any two. One write of
task.json is one step here, although `persistTask` opens, writes and renames a
temporary file: only one run at a time saves, so no two saves share a file, and
`PauseController` shows that task.json is then whole at every moment. In-memory
changes that precede a handler's first write are made when the list is computed;
nothing can observe memory in between.

| Action | Code |
|---|---|
| `Deliver`, `JobEnds` | the recipe branch of the job processor, `index.ts:231-264`: it makes a task of the job's data and runs it; the processor returns |
| `BeginRun` | `runTask` on that task up to its first write, `worker.ts:929-946`: no subtasks, counters at 0, over the task.json that is there |
| `EnterRunTask`, `Dequeue`, `Activate`, `LogStarted`, `LeaveLoop` | `runTask`, `worker.ts:923-1034` |
| `EvalUnparsable`, `EvalRejected`, `EvalApplied`, `EvalExhausted` | `handleOrchestratorEval` with `applyDecision`, `worker.ts:396-697` |
| `StageReturns`, `StageThrows` | `handleStageAgent`, `handleStageAgentRun` |
| `ScriptBlocked`, `ScriptRuns` | `handleScriptRunSubtask`, `handleScriptRun` |
| `HandleResume` | the `resume_after_input` case of `runTask` |
| `Resume`, `CheckTimeouts` | `resumeTask` followed by `runTask`, `checkTimeouts` |
| `RunTaskThrows` | an exception that leaves `runTask`, caught in `index.ts:255-263` |
| `Crash` | the process dies; a job it held has stalled, and is delivered again or, the `MaxStalled` times used up, failed |
| `Restart` | the process starts: `"plain"`, as `index.ts` does, or `"recovery"`, with `Recover`: `performRecovery` and `runTask` on the active tasks it returns |

The orchestrator's answer is any member of `Replies`, whatever the state; what an
agent or script reports is chosen when it is called.

**How a task goes on after a crash.** There are two ways, and the model has both,
also one after the other. *Redelivery* is what the program does: BullMQ finds the job
stalled and hands it to the worker again (`queue/task-queue.ts:179-190`, the default
of one redelivery). The processor deserialises the data the job was queued with and
runs that, so the first save of the new run puts a record with one evaluation, no
other subtasks and no work counted in the place of the one in task.json, whatever
that says: also over a task that is active, paused or completed, when the process
died before the job was taken as processed. The journal keeps its lines and is read
as a whole: what the old run registered or completed still counts for the outputs of
`finish_run` and for rerun policies, and the new run gives the old subtask ids
again. *Recovery* is what the documents describe: `performRecovery`, `resumeTask` and
`checkTimeouts` are called by tests, but nothing in `index.ts` calls them. The model
composes them the way the tests and `scope-bees.md` do: recovery at startup, then
`runTask` on what it returns; `resumeTask`, then `runTask`. The program as it stands
has the behaviours of `Startups = {"plain"}` without `Resume` and `CheckTimeouts`. A
job is delivered while nothing runs the task: a recovered run and a redelivered one
of the same task at the same time would need code that starts both, and there is none.

The router creates tasks with status `"queued"`, the tests of the worker with
`"active"`; `InitialStatuses` says which the job's data may have.

**Abstractions.** Payloads, prompts, costs, artifact contents and timestamps are
not represented, except the flag that human input is carried and the status that
changes together with the timestamps. The input and envelope schemas of a script
are reduced to "accepted or not". The `continue` and `restart` rerun policies run
the script either way and differ only in the data they pass. The workspace wiring
(`worker.ts:949-970`) is in `Delivery`; it writes fields no handler reads.

### GateTask

**State.** `pc` is the place in `executeTask`, `index` its position in the workflow;
`subtasks`, `status` and `outputs` are the task's; `context` is what the current
attempt was given, `shown` the progress last sent for each step. `child`, `timer`,
`buffer`, `awaited` and `sending` are a script's child and its stderr batcher: the
interval timer, the lines not yet drained, the drain `flush` waits for, and the
sends of interval drains nobody waits for. `printed`, `sunk` and `dispatched` are
histories the properties read.

| Action | Code |
|---|---|
| `Start`, `StartAttempt`, `LoopExhausted` | `executeTask`, `executor/task-executor.ts:310-425` |
| `CallSettles`, `ScriptSettles` with `Completes`, `Fails` | the end of `dispatch`, `handleSubtaskFailure`, `completeSubtask` |
| `ChildPrints`, `ChildCloses` | the stderr and close handlers of `runScript` |
| `IntervalFires`, `Flush`, `Dispose`, `SinkReturns` | `utils/stderr-batcher.ts`, `subtask-dispatcher.ts:115-147` |

A call of a tool or an agent is one outcome. The sink never rejects, because
`index.ts:272-284` catches. `Policies` may hold negative numbers, because the gate
loader only warns about a `maxRetries` above 3, and a workflow may name a step
twice. An `error` event of the child ends its printing like a close does.

### JobPipeline

**State.** `phase`, `adapter`, `closing`, `shutdown`, `ownsClose` are the process:
startup, the Slack connection, how far `TaskQueue.close` has got and whether the
application waits for a close of its own. `enq` is the promise chain of a message,
`active` and `place` the job that is processed and where, `job` and `stalls` what
Redis holds, `told` what Slack has shown the user, `ended` how runs of a task ended.

| Action | Code |
|---|---|
| `Message`, `AddSettles`, `AckSettles`, `RefusalSettles` | `createMessageHandler`, `enqueueAndAck`, `TaskQueue.enqueue` |
| `StartApp`, `Connects`, `ConnectFails`, `StartupExits` | `startApp`, `index.ts:446-519`, and its caller |
| `Signal`, `FatalSignal`, `Shutdown`, `AdapterStops`, `CloseGoesOn`, `ShutdownCompletes` | the signal listener of the queue, the shutdown of the application, `TaskQueue.close` await by await |
| `TakeJob`, `RunEnds`, `ReplySettles`, `ErrorReplySettles`, `JobSettles` | the worker of concurrency 1, `createWorkerProcessor`, `handleWorkerError` |
| `JobStalls`, `Crash`, `Exits` | BullMQ redelivers the job of a dead process; the process ends |

Which of several waiting jobs is taken, BullMQ's priority, is left open. Which
replies fail is free, and one that fails was not delivered. A failed start counts
as one of the `MaxCrashes`, so that it stops at some time. The branch of the
processor for a job without `recipeConfig` is unreachable, because the message
handler always adds it.

### ProcessSupervisor

**State.** Per call, `call` has the child, whether a descendant holds its pipes,
the timer, the events seen and the result of the promise; for a CLI agent `setup`
has the three file operations, `chain` how far each event handler's chain has got,
`flags` the flag files. `up` is false after an unhandled rejection.

| Action | Code |
|---|---|
| `Starts`, `StartFails` | `runScript`, `CLIAgentBackend.run`, `runTool`; a call after the first is a retry of `executeTask` |
| `TimeoutFires`, `GraceFires` | SIGTERM, then SIGKILL after the grace period; `createTimeoutRace` for a tool |
| `ErrorFires`, `CloseFires`, `ToolEnds` | the event handlers; the end of a tool |
| `MakesDir`, `WritesPrompt`, `WritesFlag` | `writePromptAndPendingFlag` |
| `Unlinks`, `Answers` | `transitionStateFlag` and the end of the chain |
| `Exits`, `Forks`, `Releases` | the child and the operating system |

`TimeoutKills` and `NothingLeft` are about the process the call spawned: of its
descendants only the pipes they hold are represented, and nothing in the code stops
them.

Not represented: a `kill` that fails, a descendant that closes the pipes while the
child lives, an import of a tool's module that never settles. The conditions in
front of SIGKILL hold whenever the child lives, so they are not represented either.

### Delivery

**State.** `saved` says that task.json has the branch name and workspace path; `git`
has the worktree, its index, the commits of the branch and how many of them the
remote has; `prs` the pull requests of the branch; `journal` the lines of the file
and whether the last lacks its newline; `at` the git or gh call that comes next,
`work` the result under construction. `missing` are files that were deleted. `afresh`
is a history: a run was begun from the data of its job, over the task.json of an
earlier one.

| Action | Code |
|---|---|
| `EnterRun`, `AddWorktree`, `SetIdentity`, `PersistWorkspace`, `LogWorkspace` | `runTask`, `worker.ts:948-970`, with `createWorkspace` |
| `ProcessFile`, `StageReturns` | `stageExplicit` |
| `CheckStaged`, `ConfigureIdentity`, `Commit`, `ReadSha` | `commitWithTrailers` |
| `Push` | `pushBranch` |
| `ListPrs`, `EditPr`, `CreatePr` | `upsertDraftPr` |
| `StartStep`, `Report` | the coordinator, external |
| `ClosePr`, `Crash` | somebody closes a pull request; the process dies |

Nothing in `src/src` calls the delivery actions; the manifest registers them, and
`tests/delivery` and `roles/implementation/delivery-coordinator.md` show the use: in
order, the next only after the one before succeeded, the results in the journal.
The model's coordinator reads the delivery state, starts the first step that is not
completed and journals its result. It goes on from staging only with something
staged, and may reject a result in which a `git add` failed.

After a crash a run is entered with what task.json has (recovery), or by a job that was
delivered again: its copy of the task has no workspace, and `worktree add` meets the
branch of the first run, so that the run goes on without one.

Every call can fail before or after its effect (`execFileSync` kills it at its
timeout). A missing token is such a failure. An append can be cut off in the middle
of its line or just before the newline. Files are named by the request after
`expandPatterns` removed duplicates; a pattern that cannot be expanded is a file
that is missing.

### Startup

**State.** `phase` is the place in `startApp`, `todo` the files of a listing still to
be read; `gate` and `recipe` have what was read, `configs` and `recipes` what was
accepted. `checking`, `colour`, `stack` and `cyclic` are one search for cycles: the
colour of each stage and the open calls of `dfs`, each with the neighbours it has
still to visit.

| Action | Code |
|---|---|
| `LoadsConfig` | `loadConfig`, `index.ts:447` |
| `GateRejected`, `GateThrows`, `GateAccepted` | `processGateFile`, `loadGates`, `checkWarnings` |
| `GatesDone` | `detectCrossFileDuplicates`, `initRouter` |
| `RecipeSkipped`, `RecipeMalformed`, `SearchBegins` | the loop of `loadRecipes` up to `hasCycles` |
| `EnterRoot`, `Visit`, `Leave` | `hasCycles` and its `dfs`, call by call |
| `RecipeJudged`, `RecipesDone` | the errors of a recipe; `buildCommandMap` |
| `ReadsManifest` | `loadScriptRegistry` |

The rules about one file are operators of `RecipeFile` and `GateFile`, one per rule
of the code, true of a file that breaks it. Required texts are one flag per section,
the fields an execution type requires one kind of definition. The order in which
a directory is listed and `dfs` visits neighbours is left open.

### PauseController

**State.** `object` has for every caller the task object it works on, `shared` says
that it is the same for all; `at` is a caller's place between two awaits. A save is
three steps: `time` has the name of a caller's temporary file, `open` the file it has
open and the text it will write, `tmp` the temporary files. `disk` (task.json) and
`tmp` hold a record, `Empty` or `Torn`, a mixture of two texts. `raced` and `collided`
are histories: somebody loaded a copy of his own while another call was under way;
somebody opened a temporary file that another call was using.

| Action | Code |
|---|---|
| `Load` | the caller, external: it has the object of the process or calls `loadTask`, which throws when task.json does not parse |
| `Resume`, `Refuse`, `LogResumed` | `resumeTask`, `pause-controller.ts:86-119` |
| `Expire`, `ExpireThrows`, `Pass` | `checkTimeouts`, `pause-controller.ts:137-160` |
| `OpenTmp` | `persistTask` up to the open of `writeFile`, which creates the file or empties it, `task-state.ts:220-228` |
| `WriteTmp` | the rest of `writeFile`: the text goes where the open file now is, also when somebody renamed it meanwhile |
| `Rename` | `rename`, `task-state.ts:229`: ENOENT when somebody else renamed the file |
| `Throw`, `Crash` | a failed write, which leaves an open file as it is; the process dies |

The name is `Date.now()`, so two saves in one millisecond use one file: the second
empties what the first has written and not yet renamed, or follows it into task.json.
A text that goes over another one is whole or `Torn`, whichever is longer.

The deadline has passed for the scans and the checkpoint of the pause is left out.

## What is checked

Each run's bounds are named constants; the environment's faults are capped, the
program's own loops are bounded by its budgets, retries and limits.

| Run | Specification | Shows |
|---|---|---|
| `task_safety` | `Spec`; two stages, an output, a script that refuses reruns, all actions and an unknown one, a task that arrives queued, as the router makes it; one crash or exception, one redelivery, a plain start or a recovery, one reply; 1 retry per stage, 2 actions, 1 rejection; a redelivery over at most 8 lines (`MaxOld`) | the six invariants, the action property `StartsOnlyRunning`, and that the record implements `TaskLifecycle` |
| `task_recovery` | `FairSpec`; one stage, two crashes, one redelivery, one rejection; a redelivery over at most 10 lines | `RunReturns` and `ActiveSettles` through two recoveries, also of a redelivered run |
| `agent_error` | violation | `CompletedMeansOk`: a failed agent run completes its subtask |
| `queued_crash` | violation | `InterruptedIsRecovered`: a task that arrived queued is not recovered |
| `waiting_stuck` | violation, `RepliedSpec` | `WaitingResumes`: an expired task cannot be answered |
| `gate_task` | `Spec`; a tool, a script that occurs twice, an agent; policies -1, 0 or 1; two lines per attempt | the invariants, and that the task implements `StepMachine` |
| `job_pipeline` | `FairSpec`; a recipe task and a gate task, one crash or failed start, one redelivery each, one signal or shutdown | what the user was told, what Redis holds and how the process ends agree; the queue is worked off, a shutdown ends |
| `ack_failure` | violation | `RefusedIsNotQueued`: the user is told that a queued task could not be queued |
| `startup` | `FairSpec`; two gate files and two recipe directories, every graph on three stages, a fault of every rule, duplicates across files, six manifests | what is loaded can be run, what is refused has a fault, every command is served; the start ends |
| `pause` | `FairSpec`; two replies and a scan, one object or copies, two file names, two failed writes, one crash | task.json is whole unless two saves shared a file; a reply that was accepted is kept; a refused one was one too many |
| `supervisor` | `FairSpec`; a step of each kind and one retry, two file operations that fail | results, flags and leftovers of a call agree; a timed out child is killed, the answer comes |
| `delivery` | `FairSpec`; two files and an excluded one, eight step starts, two faults, one crash with the record kept or the job begun afresh | journal, branch, remote and pull request agree; a delivery that is not stuck completes |

The properties of `TaskRuntime`, in words. A *record* is what one delivery of the job
wrote to task.json, with all that resumes and recoveries did to it; the journal goes
on over several records.

- `StartedOnce`: since the record began no subtask id is logged as started twice, so
  recovery repeats nothing; over all records, an id is started at most once for each.
- `OutcomesAgree`: the outcome the journal gives a subtask since the record began is
  the one in task.json, and a task that is completed, paused or waiting on disk is so
  in those lines of the journal.
- `BudgetAccounted`: the durable counters equal the stage and script subtasks of the
  record, and stay within the recipe's budgets.
- `OneContinuation`: never two subtasks queued on disk (`SingleContinuation`), none
  queued or active in a durably paused task (`PausedIsQuiet`), an active stage or
  script subtask is the one `activeSubtaskId` names (`NoOrphanedWork`), and without
  a failure in between the evaluation after a resume has the input (`InputCarried`).
- `RefusedRunsOnce`: a script that refuses reruns completes once, in all records together.
- `StartsOnlyRunning`: nothing is started while the durable status is at rest.
- `LifecycleSpec`: at most `MaxStalled + 1` records are begun, and within each status
  and spent budget move as `TaskLifecycle` says: a task costs at most that many budgets.
- `RunReturns`, `ActiveSettles`: the loop ends; an active task comes to rest, unless
  the orchestrator answered with an action nobody knows (`Undecided`).

Of `GateTask`:

- `StderrExact`: the sink gets every printed line once and in order; after a
  dispatch no timer runs and no line is left.
- `SeesEarlierOutputs`: a step sees the outputs of the steps before it, no others.
- `AttemptsCounted`: the attempt counter counts the dispatches, and a step that
  failed for good had exactly as many as its policy allows.
- `ProgressAgrees`: the thread shows the state each step is in.
- `MachineSpec`: the steps are done in order, each within its tries.

Of `JobPipeline`:

- `QueuedIsQueued`: what was acknowledged is in Redis.
- `ResultsTrue`: nothing untrue is told; a job counts as
  completed only if it was answered or its task rests.
- `CleanExit`: a process that ends by itself holds no job, although the two
  closes of the queue overlap and the second returns at once.
- `PipelineSettles`: the queue is worked off, except by a process
  that a signal during startup left connected with its queue closed (`Deaf`); a
  shutdown ends the process.

Of `ProcessSupervisor`:

- `ResultFits`: a call succeeds only with its own child and before its timeout.
- `FlagsTell`: the state flag on disk is the one the result says.
- `NothingLeft`: a settled call has no timer and no child of its own, except a tool.
- `TimeoutKills`, `AnswerComes`: a child that timed out ends; a call is answered
  unless a descendant keeps the pipes for ever.

Of `Delivery`:

- `JournalSound`: what the journal reports as completed is so (a workspace is in task.json
  too, unless a job begun afresh has overwritten it), and an append that is cut off
  costs one further entry at most.
- `DeliveredFits`: a delivery that reads as complete has on the remote the files
  it staged and nothing refused.
- `OnePullRequest`: at most one pull request of the branch is open.
- `DeliveryEnds`: a repeated delivery completes, unless it is stuck: without a
  workspace, with nothing to stage, or with a commit the journal does not know.

Of `Startup`:

- `RecipesSound`: a recipe in the map has the stage graph `RecipeAssumption` takes
  for granted, and no cycle unless it asks for one.
- `RefusedForCause`: a refused start had a faulty file or a duplicate, and no fault
  of a file that was read is let pass.
- `AllServed`: a command reaches the one configuration that claims it, also when a
  gate and a recipe claim the same.
- `StartEnds`: the start ends, the search for cycles in particular.

Of `PauseController`:

- `RecordKept`: `WholeFile`, task.json is a whole record unless two saves used one
  temporary file, and `ReplyKept`, unless copies were loaded during a call, task.json
  is whole, an accepted reply is in it for good, and no other resume or expiry in the
  journal or the record.
- `RefusedIsMoot`: a refused reply was one too many, failed writes and mixed texts apart.

**Bounds.** `TaskRuntime`: the loop repeats one shape, an evaluation, what it decided,
the next evaluation. Two actions give a stage followed by a script or another stage, a
rerun refused by a spent budget, and a finish with and without its output; one crash
anywhere in that reaches each pair of adjacent writes of every handler, and the
redelivered run or the recovery (of a task that a reply made active) then goes through
the whole loop again. `MaxOld` caps what a redelivered run begins over: 8 lines hold an
evaluation, the subtask it decided, and its artifact or its script's completion, the
entries a later run reads; longer journals are left to the theorems. `MaxFaults = 1`
leaves one crash or one exception. `task_recovery` has a task that arrives active, so
that recovery comes before any reply and before a redelivery too, and adds the second
crash, which falls into recovery itself or into a redelivered run, on a smaller recipe.
One redelivery is BullMQ's default; the theorems hold for any number. `GateTask`: two
lines are enough for one in the buffer and one on its way; a repeated step and one retry
give every way an output can be overwritten. `JobPipeline`: two tasks are needed for a
job that waits while another runs; one crash and one shutdown can fall anywhere in
either. `ProcessSupervisor`: a second call shows what the first left behind; two faults
let a setup and a flag transition of different calls fail. `Delivery`: two faults let an
append be cut off and a later one be lost, or a call fail and its retry; eight step
starts are the four steps and every repetition two faults and a crash can cause before
the delivery is complete or stuck, as `DeliveryEnds` confirms. `Startup`: three stages
give every shape a search meets (a cycle off the path, a stage reached twice, a
self-loop), two files every duplicate. `PauseController`: two replies and a scan give
every pair of callers and a third that comes late; two file names let saves share one or
not, and a third save meets what two have mixed.

`CHECK_DEADLOCK FALSE` is set because each system does stop: a task that ended is
never run again, an answered call does nothing more.

**Fairness.** In `TaskRuntime`, `FairSpec` assumes weak fairness of `WorkerStep`, which
is the event loop going on, and that includes that a call to an agent or a script
returns. Each call has a timeout that kills the child; the promise settles on the
`close` event, which needs the child's pipes closed too, so a grandchild that holds them
breaks the assumption (`AnswerComes`). Weak fairness of `Restart` assumes that a
supervisor starts the process again; `ActiveSettles` also that it starts with recovery.
`RepliedSpec` adds that somebody answers a task that can be resumed; only
`waiting_stuck`, a violation, uses it. Nothing is assumed of `CheckTimeouts`, crashes or
exceptions.

`GateTask` needs none: its properties are safety. `JobPipeline` has weak fairness of
`Progress`: the event loop goes on, Redis and Slack answer, a supervisor starts the
process again, and a run returns, which `RunReturns` shows of the recipe runtime.
Messages, signals, crashes and failing replies are not fair. `ProcessSupervisor` has
weak fairness of `EventLoop`, the timers, events and file operations of the process;
nothing is assumed of the child, which may run for ever and ignore SIGTERM.
`Delivery` has weak fairness of the undisturbed steps: calls end within their
timeouts, a run is entered again after a crash, and the coordinator repeats a step
that failed. The last is an assumption about the caller, not about `src/src`:
`DeliveryEnds` says what such repetition achieves. `Startup` and `PauseController`
have weak fairness of the steps of the program: file operations return. When a
reply or a scan comes is not fair.

**Disagreements.** The four violation runs each check a sentence of the repository
that the code does not keep; `PROJECT.json` quotes the lines under `findings`. More are
visible in the properties, without a run. After a crash between the enqueue
of a decision and the end of its evaluation two subtasks are active (the head comment
of `worker.ts` has one), which `NoOrphanedWork` limits to an evaluation. The end
of a run is in the journal before the status is on disk, so that a recovered task may
run on after its end entry, which `OutcomesAgree` leaves out. A redelivered job gives
its subtasks ids that the journal already has, although `generateSubtaskId` calls them
"stable, unique" (`task-state.ts:152`): a reader who takes the journal as a whole sees
subtasks started twice and outcomes of a record that is gone, the budget is spent again,
and the status goes back to queued, even of a task that was completed; the properties
say what is left, record by record. And `persistTask` says that readers "never observe a
partially-written file" (`task-state.ts:213`), which two saves in the same millisecond
break, for good if no later save follows: `WholeFile` excludes exactly that.

## What is proved

Every invariant of the passing runs, and every action property and refinement among
them, is stated by a theorem. The inductive invariants were checked with TLC, as
invariants of `task_safety` and `delivery`, before they were proved.

`TaskRuntimeProofs` proves for every recipe, registry, budget and number of
crashes, exceptions, replies and redeliveries, from `RecipeAssumption` and
`RuntimeAssumption`:

- `TypeCorrect`: `Spec => []TypeOK`. `TypeOK` alone is not inductive: a write
  `Settle(id, s)` updates `mem.subtasks[id]`, and the dequeued id must be one of
  the subtasks. `RecordInv` adds that `todo` holds only writes a handler makes
  (`HandlerWrites`), that memory and disk have the same subtasks and queue
  (`Synced`), and that queued ids and `cur` name subtasks (`QueueKnown`,
  `CurKnown`). `DeliveryInv` bounds the records: one is begun at most once for each
  delivery of the job, and a job is delivered again only when it stalled.
- `NoSubtaskStartedTwice`: `Spec => []StartedOnce`. `StartInv` adds that started
  ids are ids of subtasks (so the next id is fresh, `StartsKnown`), that the queue
  holds distinct ids none of which was started (`QueueFresh`), and that a subtask
  dequeued and not yet logged is neither started nor queued (`CurFresh`), all since the
  record began (`since`). When a new record begins, the starts of an id that become old
  are those of earlier records and at most one of the last (`OldBounded`).

`TaskOutcomeProofs`, from the same assumptions, about what a task leaves behind. What
makes these hard is that a handler changes memory first, and a crash can fall between
any two of the writes it still has to make: each invariant therefore relates the
record in memory, the record on disk and the journal to the places of `todo`. The
lemmas `...Places` and `...Facts` say once for each handler where in its list it
enqueues, settles and logs (`Places`, `LogPlaces`), and which of its writes come
before it saves the record (`OnlyLogsBefore`); `Shifted...` say what one write does
to the places. `StepCases` lists the steps every invariant must survive. A redelivered run
(`BeginRunFacts`) puts memory, disk and `todo` back to a fresh record and moves `since`
to the end of the journal: what is said of the record then holds of nothing, and what is
said of the whole journal is not disturbed.

- `StartsOnlyRunningTasks` and `ImplementsLifecycle`: `Spec => LifecycleSpec`, from
  `StatusInv`: memory is ahead of the disk by at most one move of `TaskLifecycle`
  (`AheadByOne`), what it is ahead by will be saved (`SavedSoon`), and which statuses
  a place in `runTask` allows (`RunningPlaces`). A record that has a subtask of a resume
  is no longer queued on the disk (`NeverResumed`), so that `resume_after_input`,
  which makes the task active, finds it active. `DiskFollows` is then the step of
  the refinement, and `BeginRun` its `Start`.
- `BudgetsAccounted`, from `BudgetInv`: the counters in memory are ahead of the disk
  by the charge for exactly one subtask, which is still to be enqueued, and no save
  comes before that.
- `RefusedScriptsRunOnce`, from `RefuseInv`: a completion about to be logged, of a
  script that refuses to be run again, is the only one, and none is in the journal.
  `CompletedKnown` says that the guard of the code, which reads the journal, decides
  this.
- `RunHasOneContinuation`, from `FlowInv` and `CarryInv`: a subtask is handled while
  the queue is empty and is the newest (`CurNewest`); a handler enqueues at most one,
  and unless an evaluation is under way settles it before (`EnqueueOnce`,
  `SettleActive`); what is under way is the active subtask (`OrphanIsActive`). A
  completed resume is the newest subtask or followed by the evaluation
  (`CompletedCarried`, without failures), and the reply stays in the record.
- `JournalAgreesWithTask`, from `OutcomeInv` and `RestInv`: an outcome still to be
  logged is settled by an earlier write of the same list or already there
  (`OutcomesComing`), and what is settled is active, so that no outcome is ever
  overwritten; a status of rest in memory is in the journal or will be before the next
  save (`StatusIsLogged`), and a resume is logged only after the save that ends it
  (`ResumedSaved`).

`GateTaskProofs`, for every workflow, every integer retry policy and any number of
lines, from `GateAssumption`:

- `GateTypeCorrect`, `StderrReachesSink`, from `GateInv`:
  the position is valid inside the loop (`IndexValid`), and a child, a timer and
  lines exist only in the dispatch of a script (`ChildPlaced`). A drain takes the
  whole buffer, so `sunk \o buffer` changes only when a line is printed.
- `AttemptsExact`, from `AttemptInv`: an active step is within its policy
  (`ActiveAllowed`), and the steps after the position are untouched (`RestPending`).
- `ProgressTrue`: the invariant is inductive; what an announcement and the end of
  an attempt show is said once, in `ProgressAnnounced` and `ProgressSettles`.
- `EarlierOutputsSeen`, from `OutputsInv`: inside the loop the kept outputs are the
  latest ones before the position, and the next attempt is given exactly these.
- `ImplementsStepMachine`: `Spec => MachineSpec`, from `MachineInv`: every position
  before the index is completed and every one after it untried, so that the number
  of completed steps (`DoneCounts`) is the position less one.

`JobPipelineProofs`, for every set of tasks and all bounds, from
`PipelineAssumption`: `PipeTypeCorrect`, `AcknowledgedIsQueued`, `AnswersTrue`,
`LeavesNoJob`. `PipeInv` adds that a processor that is not idle holds a job
(`HoldsJob`), that an acknowledgement is under way only after Redis has the job
(`AckAfterAdd`), what the place in the processor says about the runs that ended
(`PlaceTrue`), and that a close gets past the worker only when its job is released
(`ReleasedFirst`), which is why the overlapping closes are harmless.

`ProcessSupervisorProofs`, for any number of calls and faults, from
`SupervisorAssumption`: `SupervisorTypeCorrect`, `ResultsOfOwnChild`,
`SettledLeavesNothing`. `SupInv` adds that calls not yet made are untouched
(`FreshLater`) and how the child, the timer, the events and the result of one call
go together (`EventsFit`); as every action touches one call, lemma `OneCall` reduces
its preservation to that call. `FlagsTellResult` adds `FilesFit` for the runs of a CLI
agent without a failed file operation: no handler goes on before the prompt and the
pending flag are written, the error event means that there was no child, so that all
handlers of a run want the same flag (`Want`), and the first that ends has written it.

`DeliveryProofs`, for any files, faults and crashes, from `DeliveryAssumption`:
`DeliveryTypeCorrect`, `JournalTellsTruth`, `AtMostOneOpen`, `CompleteDeliveryFits`.
The lemmas `AppendTells` and `CutOffTells` say what an append does to an open and
to a closed journal: it adds at most its own entry (`Tells`) and loses at most the
last line. `DelInv` adds what has been done when a run stands at a call
(`WorkFits`), that a result about to be journalled is true (`ReportTrue`), that a
staged file stays in the index until it is committed (`StagedKept`), and what an
open journal has still to lose (`TearsCover`: the bound on the loss alone is not inductive,
because a complete line without its newline is lost only at the next append). Git
and the pull requests only grow (`Grows`), so an entry that was true stays true.
`CompleteDeliveryFits` needs the order of the entries, which `FitInv` adds: each was
written when its step was not done and the ones before it in `Order` were (`InTurn`),
the same holds of the step under way (`StepInTurn`), nothing is committed after a push was
reported (`AllPushed`), and only what may be delivered is staged, without a fault all
of it (`OnlyAllowed`, `AllStaged`). A lost entry is always the last, so the ones before
the rest stay (`AppendKeepsEarlier`). That the status of a step is that of its last
entry needs such an entry to exist: `LastOf`, by well-founded induction (`WFMin`).

`StartupProofs`, for any files, directories, manifests and stage graphs, from
`RecipeFileAssumption` and `StartupAssumption`: `TypeCorrect`, `CycleVerdict`,
`RecipesAreSound`, `RefusalsAreTrue`, `EveryCommandServed`. `CycleVerdict` says that
the search, when it is over, has reported a cycle exactly if there is one. Its
invariant `SearchInv` says that the gray stages are those on the path and the path
follows the transitions (`Coloured`, `Path`), so that a gray neighbour closes a cycle
(`BackEdgeIsCycle`), and that the successors of a black stage, and of a stage on the
path as far as visited, are black (`Visited`). A cycle is a set of stages each of
which has a successor in the set (`Sinkless`), so no induction over the graph is
needed: a stage all of whose successors are black adds no such set to the black
stages (`DoneAddsNoCycle`), and at the end all stages are black. The recipes in the
map, those that were read and the refusals follow from the verdict (`RecipesInv`).

`PauseControllerProofs`, for any number of replies, scans, file names, faults and
crashes, from `PauseAssumption`: `TypeCorrect`, `FileIsWhole` and `RecordIsKept`.
`WholeInv` says that without a collision a call that saves owns its temporary file
(`Owns`): nobody else uses the name, the file is empty while it is open and a record
once it is written, so that a rename publishes a record. `GuardInv` says that without a
race at most one caller is past its guard, that every object it can write is the one
record of its own (`Mine`), and how far that record has got: at which places task.json
is still paused, at which it is that record for good, and what its temporary file holds
at each step of a save, whatever the names are.

Only model-checked is what must happen eventually, which is out of the prover's
reach: `RunReturns` and `ActiveSettles` of the task runtime, `PipelineSettles`,
`TimeoutKills` and `AnswerComes`, `DeliveryEnds`, `StartEnds` and `RefusedIsMoot`.

## Plan

Next, with the hazards of `PROJECT.json` it answers:

1. Runs that show further disagreements, where they fit: a task whose workspace
   creation was interrupted never gets one (`README.md` of the repository, line
   161), a complete journal entry lost after one that was cut off, a signal during
   startup.

Theorems still wanted: an abstract specification of a delivery (the four steps in
their order, each once) and of the life of a job, with the refinement by `Delivery`
and `JobPipeline`; of the latter, that a task runs once at a time.

Not modelled, and not planned: prompt and context text, evidence files, Slack
formatting, identity trailers, the best-effort delivery notification, `cleanupWorkspace`
(no caller), configuration, logging.
