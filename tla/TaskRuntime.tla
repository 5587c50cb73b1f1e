---------------------------- MODULE TaskRuntime ----------------------------
(***************************************************************************)
(* One recipe task and its job: the worker loop (src/src/runtime/          *)
(* worker.ts), the durable task record and the journal it writes           *)
(* (task-state.ts, journal.ts), pausing, resuming and expiring             *)
(* (pause-controller.ts), and the two ways a run goes on after a crash.    *)
(*   - The queue delivers the job again (queue/task-queue.ts, index.ts).   *)
(*     The processor runs the copy of the task the job was queued with:    *)
(*     no subtasks, counters at 0.  The first write of that run replaces   *)
(*     task.json; the journal keeps the lines it has.                      *)
(*   - The startup recovery (performRecovery followed by runTask on the    *)
(*     tasks it returns) goes on with the record in task.json.             *)
(*                                                                         *)
(* A handler turns into the list "todo" of the durable writes it makes, in *)
(* the order of the code, and DoStep makes one write at a time: a crash or *)
(* an I/O exception can fall between any two of them.  The value of a call *)
(* to an agent or a script is chosen when the call is made.                *)
(***************************************************************************)
EXTENDS DecisionValidator, SequencesExt

CONSTANTS
    InitialStatuses, \* statuses the task may have in the data of its job
    Startups,       \* how the process may start: "plain", "recovery"
    MaxStalled,     \* maxStalledCount: redeliveries of a job that stalled
    MaxRejections,  \* MAX_CONSECUTIVE_REJECTIONS
    Actions,        \* decision actions the orchestrator may return
    MaxThrows,      \* bound: exceptions that escape runTask
    MaxFaults,      \* bound: crashes and such exceptions together
    MaxResumes,     \* bound: human replies
    MaxOld          \* bound: lines of the journal a job is delivered over

ASSUME RuntimeAssumption ==
    /\ InitialStatuses \subseteq {"queued", "active"}
    /\ Startups \subseteq {"plain", "recovery"}
    /\ MaxStalled \in Nat
    /\ MaxRejections \in Nat \ {0}
    /\ Actions \subseteq KnownActions \cup {"unknown"}
    /\ MaxThrows \in Nat
    /\ MaxFaults \in Nat
    /\ MaxResumes \in Nat
    /\ MaxOld \in Nat

VARIABLES
    pc,          \* where the process is; see PCs
    todo,        \* durable writes the current handler has still to make
    mem,         \* the task record in memory; what loadTask returns when idle
    disk,        \* task.json
    journal,     \* journal.jsonl
    cur,         \* the subtask being processed, 0 for none
    rejections,  \* consecutiveRejections of the current orchestrator_eval, else 0
    verdict,     \* what the agent or script of subtask cur reported, or None
    job,         \* the job in the queue; see Jobs
    since,       \* history: the lines of the journal that are older than disk
    starts,      \* history: runs that saved the job's copy of the task
    crashes, throws, resumes

delivery == <<job, since, starts>>

counters == <<crashes, throws, resumes>>

vars == <<pc, todo, mem, disk, journal, cur, rejections, verdict, delivery, counters>>

\* "idle": the process is up and does not run the task.  "down": the process
\* is not running.  The others are places in runTask; the place counts once
\* todo is empty.  At "fetched" the run has its own copy of the task, made
\* from the job, and has saved nothing: mem is still what is on disk.
PCs == {"idle", "down", "fetched", "entry", "loop", "dequeued", "activated", "handle"}

InRunTask == pc \in {"fetched", "entry", "loop", "dequeued", "activated", "handle"}

\* "waiting": to be delivered.  "held": the processor runs it.  "done":
\* completed, or failed for good.  status is the task's in the job's data.
Jobs == [place: {"waiting", "held", "done"}, status: InitialStatuses, stalls: Nat]

(***************************************************************************)
(* The writes of a handler.                                                *)
(***************************************************************************)
EntryTypes == {"subtask_queued", "subtask_started", "orchestrator_decision",
               "decision_rejected", "subtask_completed", "subtask_failed",
               "task_paused", "task_resumed", "task_waiting", "task_completed",
               "task_failed", "artifact_registered", "script_started",
               "script_completed", "script_failed"}

\* "what" is the label of an artifact or the id of a script.
Entries == [type: EntryTypes, id: Nat, what: Labels \cup ScriptIds \cup {None}]

LogWhat(type, id, what) ==
    [op |-> "log", entry |-> [type |-> type, id |-> id, what |-> what]]
Log(type, id) == LogWhat(type, id, None)
Enqueue(sub) == [op |-> "enqueue", sub |-> sub]
Settle(id, status) == [op |-> "settle", id |-> id, status |-> status]
Unset == [op |-> "unset"]
Save == [op |-> "save"]

Writes == [op: {"log"}, entry: Entries]
          \cup [op: {"enqueue"}, sub: Subtasks]
          \cup [op: {"settle"}, id: Nat, status: SubtaskStatuses]
          \cup [op: {"unset", "save"}]

\* The journal is read as a whole: the lines of an earlier run count.
Registered == {e.what : e \in {e \in ToSet(journal) : e.type = "artifact_registered"}}

HasCompleted(script) ==
    \E e \in ToSet(journal) : e.type = "script_completed" /\ e.what = script

\* enqueueOrchestratorEval
EnqueueEval(t, input) ==
    <<Enqueue(NewSubtask("orchestrator_eval", EffectiveStage(t), None, input)),
      Log("subtask_queued", NextId(t))>>

\* recordSubtaskFailure, and the persistTask that ends the loop body
RecordFailure(t, id) ==
    <<Settle(id, "failed"), Log("subtask_failed", id)>>
        \o EnqueueEval(t, FALSE) \o <<Save>>

\* Mutant of RecordSuccess: the journal first, then task.json.
RecordSuccessJournalFirst(t, id, input) ==
    <<Log("subtask_completed", id), Settle(id, "completed")>>
        \o EnqueueEval(t, input) \o <<Save>>

\* Mutant of RecordSuccess: the next evaluation is queued first.
RecordSuccessEnqueueFirst(t, id, input) ==
    EnqueueEval(t, input)
        \o <<Settle(id, "completed"), Log("subtask_completed", id), Save>>

\* The success path shared by the stage, script and resume handlers.
RecordSuccess(t, id, input) ==
    <<Settle(id, "completed"), Log("subtask_completed", id)>>
        \o EnqueueEval(t, input) \o <<Save>>

\* One artifact_registered entry for each label, in order.
Artifacts(id, labels) ==
    [i \in 1 .. Len(labels) |-> LogWhat("artifact_registered", id, labels[i])]

(***************************************************************************)
(* Process and job.                                                        *)
(***************************************************************************)
Init ==
    /\ pc = "idle"
    /\ todo = <<>>
    /\ mem = NewTask("unsaved") /\ disk = NewTask("unsaved")
    /\ journal = <<>>
    /\ cur = 0 /\ rejections = 0 /\ verdict = None
    /\ job \in [place: {"waiting"}, status: InitialStatuses, stalls: {0}]
    /\ since = 0 /\ starts = 0
    /\ crashes = 0 /\ throws = 0 /\ resumes = 0

At(place) == pc = place /\ todo = <<>>

\* The queue hands the job to the processor, which makes a task of its data
\* and calls runTask on it, whatever task.json holds.
Deliver ==
    /\ At("idle")
    /\ job.place = "waiting"
    /\ Len(journal) <= MaxOld
    /\ pc' = "fetched"
    /\ job' = [job EXCEPT !.place = "held"]
    /\ UNCHANGED <<todo, mem, disk, journal, cur, rejections, verdict,
                   since, starts, counters>>

\* The task the processor makes of the job's data.
Delivered == NewTask(job.status)

\* runTask on that task, up to its first write.  Its queue is empty, so it
\* enqueues an orchestrator_eval, and the persist of enqueueSubtask puts the
\* task in the place of the one in task.json.
BeginRun ==
    /\ At("fetched")
    /\ mem' = EnqueueSubtask([Delivered EXCEPT !.stage = EffectiveStage(Delivered)],
                             NewSubtask("orchestrator_eval", EffectiveStage(Delivered), None, FALSE))
    /\ disk' = mem'
    /\ todo' = <<Log("subtask_queued", NextId(Delivered))>>
    /\ pc' = "loop"
    /\ since' = Len(journal)
    /\ starts' = starts + 1
    /\ UNCHANGED <<journal, cur, rejections, verdict, job, counters>>

\* The processor returns and the queue takes the job as processed.  A crash
\* before this delivers the job of a finished run again.
JobEnds ==
    /\ At("idle")
    /\ job.place = "held"
    /\ job' = [job EXCEPT !.place = "done"]
    /\ UNCHANGED <<pc, todo, mem, disk, journal, cur, rejections, verdict,
                   since, starts, counters>>

\* runTask before its loop, on a task that was resumed or recovered: an empty
\* queue gets a first orchestrator_eval.
EnterRunTask ==
    /\ At("entry")
    /\ pc' = "loop"
    /\ IF mem.queue = <<>>
       THEN /\ mem' = [mem EXCEPT !.stage = EffectiveStage(mem)]
            /\ todo' = EnqueueEval(mem, FALSE)
       ELSE UNCHANGED <<mem, todo>>
    /\ UNCHANGED <<disk, journal, cur, rejections, verdict, delivery, counters>>

TerminalStatuses == {"completed", "failed", "paused"}

\* runTask returns.
LeaveLoop ==
    /\ At("loop")
    /\ mem.status \in TerminalStatuses \/ mem.queue = <<>>
    /\ pc' = "idle" /\ cur' = 0 /\ verdict' = None
    /\ UNCHANGED <<todo, mem, disk, journal, rejections, delivery, counters>>

Dequeue ==
    /\ At("loop")
    /\ mem.status \notin TerminalStatuses
    /\ mem.queue # <<>>
    /\ cur' = Head(mem.queue)
    /\ mem' = DequeueNext(mem)
    /\ disk' = mem'
    /\ verdict' = None
    /\ pc' = "dequeued"
    /\ UNCHANGED <<todo, journal, rejections, delivery, counters>>

Activate ==
    /\ At("dequeued")
    /\ mem' = MarkSubtaskActive(mem, cur)
    /\ disk' = mem'
    /\ pc' = "activated"
    /\ UNCHANGED <<todo, journal, cur, rejections, verdict, delivery, counters>>

LogStarted ==
    /\ At("activated")
    /\ journal' = Append(journal, Log("subtask_started", cur).entry)
    /\ pc' = "handle"
    /\ UNCHANGED <<todo, mem, disk, cur, rejections, verdict, delivery, counters>>

\* One durable write of the current handler.
DoStep ==
    /\ todo # <<>>
    /\ todo' = Tail(todo)
    /\ LET w == Head(todo) IN
       \/ /\ w.op = "log"
          /\ journal' = Append(journal, w.entry)
          /\ UNCHANGED <<mem, disk>>
       \/ /\ w.op # "log"
          /\ mem' = CASE w.op = "enqueue" -> EnqueueSubtask(mem, w.sub)
                      [] w.op = "settle"  -> SettleSubtask(mem, w.id, w.status)
                      [] w.op = "unset"   -> ClearActive(mem)
                      [] w.op = "save"    -> mem
          /\ disk' = mem'
          /\ UNCHANGED journal
    /\ UNCHANGED <<pc, cur, rejections, verdict, delivery, counters>>

(***************************************************************************)
(* orchestrator_eval                                                       *)
(***************************************************************************)
Handling(kind) == At("handle") /\ mem.subtasks[cur].kind = kind

\* The reply is not JSON: an agent that failed or timed out included.
EvalUnparsable ==
    /\ Handling("orchestrator_eval")
    /\ rejections < MaxRejections
    /\ todo' = <<Log("decision_rejected", cur)>>
    /\ rejections' = rejections + 1
    /\ UNCHANGED <<pc, mem, disk, journal, cur, verdict, delivery, counters>>

\* Mutant of EvalRejected: the rejection limit is not tested.
EvalRejectedUnbounded(d) ==
    /\ Handling("orchestrator_eval")
    /\ ~ValidDecision(d, mem, Registered)
    /\ todo' = <<Log("orchestrator_decision", cur), Log("decision_rejected", cur)>>
    /\ rejections' = rejections + 1
    /\ UNCHANGED <<pc, mem, disk, journal, cur, verdict, delivery, counters>>

EvalRejected(d) ==
    /\ Handling("orchestrator_eval")
    /\ rejections < MaxRejections
    /\ ~ValidDecision(d, mem, Registered)
    /\ todo' = <<Log("orchestrator_decision", cur), Log("decision_rejected", cur)>>
    /\ rejections' = rejections + 1
    /\ UNCHANGED <<pc, mem, disk, journal, cur, verdict, delivery, counters>>

\* Decisions that end the run or pause it: the status they give the task
\* and the entry they write.
EndStatus == [finish_run |-> "completed", fail_run |-> "failed", pause_for_input |-> "paused"]
EndEntry == [finish_run |-> "task_completed", fail_run |-> "task_failed",
             pause_for_input |-> "task_paused"]

\* Mutant of Applied: a script run is not counted against the total.
AppliedFreeScripts(d, t) ==
    IF d.action = "run_stage_agent"
    THEN [t EXCEPT !.stage = d.target, !.retries[d.target] = @ + 1, !.total = @ + 1]
    ELSE IF d.action \in DOMAIN EndStatus
         THEN [t EXCEPT !.status = EndStatus[d.action]]
         ELSE t

\* The record applyDecision leaves before its first write; an action it
\* does not know leaves it alone.
Applied(d, t) ==
    CASE d.action = "run_stage_agent" ->
            [t EXCEPT !.stage = d.target, !.retries[d.target] = @ + 1, !.total = @ + 1]
      [] d.action = "run_script"      -> [t EXCEPT !.total = @ + 1]
      [] d.action \in DOMAIN EndStatus -> [t EXCEPT !.status = EndStatus[d.action]]
      [] d.action = "unknown"         -> t

\* The script_id of a run_script payload: input_patch is spread over it.
PayloadScript(d) == IF d.patch # None THEN d.patch ELSE d.script

\* The subtask applyDecision enqueues for a decision that runs something.
DecidedSubtask(d, t) ==
    IF d.action = "run_stage_agent"
    THEN NewSubtask("stage_agent_run", d.target, None, FALSE)
    ELSE NewSubtask("script_run", EffectiveStage(t), PayloadScript(d), FALSE)

\* Mutant of ApplyDecision: a pause is persisted on the spot.
ApplyDecisionSavesPause(d, t) ==
    CASE d.action \in {"run_stage_agent", "run_script"} ->
            <<Enqueue(DecidedSubtask(d, t)), Log("subtask_queued", NextId(t))>>
      [] d.action \in DOMAIN EndEntry -> <<Log(EndEntry[d.action], 0), Save>>
      [] d.action = "unknown"         -> <<>>

\* The writes of applyDecision.
ApplyDecision(d, t) ==
    CASE d.action \in {"run_stage_agent", "run_script"} ->
            <<Enqueue(DecidedSubtask(d, t)), Log("subtask_queued", NextId(t))>>
      [] d.action \in DOMAIN EndEntry -> <<Log(EndEntry[d.action], 0)>>
      [] d.action = "unknown"         -> <<>>

EvalApplied(d) ==
    /\ Handling("orchestrator_eval")
    /\ rejections < MaxRejections
    /\ ValidDecision(d, mem, Registered)
    /\ mem' = Applied(d, mem)
    /\ todo' = <<Log("orchestrator_decision", cur)>>
               \o ApplyDecision(d, mem)
               \o <<Settle(cur, "completed"), Log("subtask_completed", cur), Save>>
    /\ pc' = "loop" /\ rejections' = 0
    /\ UNCHANGED <<disk, journal, cur, verdict, delivery, counters>>

\* Mutant of EvalExhausted: off by one against the loop's condition.
EvalExhaustedLate ==
    /\ Handling("orchestrator_eval")
    /\ rejections > MaxRejections
    /\ mem' = [mem EXCEPT !.status = "failed"]
    /\ todo' = <<Settle(cur, "failed"), Log("task_failed", 0), Save>>
    /\ pc' = "loop" /\ rejections' = 0
    /\ UNCHANGED <<disk, journal, cur, verdict, delivery, counters>>

\* Rejected MaxRejections times in a row: the task fails.
EvalExhausted ==
    /\ Handling("orchestrator_eval")
    /\ rejections = MaxRejections
    /\ mem' = [mem EXCEPT !.status = "failed"]
    /\ todo' = <<Settle(cur, "failed"), Log("subtask_failed", cur),
                 Log("task_failed", 0), Save>>
    /\ pc' = "loop" /\ rejections' = 0
    /\ UNCHANGED <<disk, journal, cur, verdict, delivery, counters>>

(***************************************************************************)
(* stage_agent_run                                                         *)
(***************************************************************************)
\* Whether the StepOutput of a backend has its error field set: a failed
\* spawn, a timeout and an exit code other than 0 set it.
AgentResults == {"ok", "error"}

\* The backend returned, with an error in its StepOutput or without one.
\* normalizeOutput stores the declared outputs in either case.
StageReturns(result) ==
    /\ Handling("stage_agent_run")
    /\ verdict' = result
    /\ todo' = Artifacts(cur, Outputs[mem.subtasks[cur].stage])
               \o RecordSuccess(mem, cur, FALSE)
    /\ pc' = "loop"
    /\ UNCHANGED <<mem, disk, journal, cur, rejections, delivery, counters>>

\* The handler threw after registering the first n outputs: no role file,
\* no such backend, or a failing write of an artifact or of a mirror.
StageThrows(n) ==
    /\ Handling("stage_agent_run")
    /\ LET labels == Outputs[mem.subtasks[cur].stage] IN
       /\ n <= Len(labels)
       /\ todo' = Artifacts(cur, SubSeq(labels, 1, n)) \o RecordFailure(mem, cur)
    /\ verdict' = "error"
    /\ pc' = "loop"
    /\ UNCHANGED <<mem, disk, journal, cur, rejections, delivery, counters>>

(***************************************************************************)
(* script_run                                                              *)
(***************************************************************************)
Script == mem.subtasks[cur].script

\* Mutant of ScriptAdmitted: a completed script is run again.
ScriptAdmittedAgain == Script \in EnvReady

\* The checks made before the process is spawned.
ScriptAdmitted ==
    Script \in EnvReady /\ ~(Script \in Refusing /\ HasCompleted(Script))

\* A check failed; a payload that breaks the input schema always may.
ScriptBlocked ==
    /\ Handling("script_run")
    /\ todo' = RecordFailure(mem, cur)
    /\ verdict' = "error"
    /\ pc' = "loop"
    /\ UNCHANGED <<mem, disk, journal, cur, rejections, delivery, counters>>

\* How a run of the process ends.  Exit 0 with a valid envelope is "ok"; exit
\* 2 is "needs_input"; any other exit, a timeout, a failed spawn or a bad
\* envelope is "error"; "throw" is a failing write on the way.
ScriptResults == {"ok", "needs_input", "error", "throw"}

\* The writes that follow; "ok" registers the artifacts of the envelope.
ScriptWrites(result, labels) ==
    LET ended(type) == <<LogWhat(type, cur, Script)>>
    IN  CASE result = "ok"          -> Artifacts(cur, labels) \o ended("script_completed")
                                       \o RecordSuccess(mem, cur, FALSE)
          [] result = "needs_input" -> RecordSuccess(mem, cur, FALSE)
          [] result = "error"       -> ended("script_failed") \o RecordFailure(mem, cur)
          [] result = "throw"       -> Artifacts(cur, labels) \o RecordFailure(mem, cur)

\* The process ran.
ScriptRuns(result, labels) ==
    /\ Handling("script_run")
    /\ ScriptAdmitted
    /\ result \in {"ok", "throw"} \/ labels = <<>>
    /\ verdict' = IF result = "throw" THEN "error" ELSE result
    /\ todo' = <<LogWhat("script_started", cur, Script)>> \o ScriptWrites(result, labels)
    /\ pc' = "loop"
    /\ UNCHANGED <<mem, disk, journal, cur, rejections, delivery, counters>>

(***************************************************************************)
(* Pause, resume, expiry                                                   *)
(***************************************************************************)
\* resume_after_input
HandleResume ==
    /\ Handling("resume_after_input")
    /\ mem' = [mem EXCEPT !.status = "active"]
    /\ todo' = RecordSuccess(mem, cur, mem.human)
    /\ pc' = "loop"
    /\ UNCHANGED <<disk, journal, cur, rejections, verdict, delivery, counters>>

\* resumeTask on the loaded task, and runTask after it.  It returns false
\* and does nothing for a task that is not paused.  A paused task has a
\* current stage, so EffectiveStage is that stage.
Resume ==
    /\ At("idle")
    /\ resumes < MaxResumes
    /\ mem.status = "paused"
    /\ mem' = [mem EXCEPT !.status = "active", !.human = TRUE]
    /\ todo' = <<Enqueue(NewSubtask("resume_after_input", EffectiveStage(mem), None, FALSE)),
                 Log("task_resumed", 0), Save>>
    /\ pc' = "entry"
    /\ resumes' = resumes + 1
    /\ UNCHANGED <<disk, journal, cur, rejections, verdict, delivery, crashes, throws>>

\* Mutant of CheckTimeouts: the deadline is looked at, the status is not.
CheckTimeoutsAnyStatus ==
    /\ At("idle")
    /\ mem' = [mem EXCEPT !.status = "waiting"]
    /\ todo' = <<Log("task_waiting", 0), Save>>
    /\ UNCHANGED <<pc, disk, journal, cur, rejections, verdict, delivery, counters>>

\* checkTimeouts on a paused task whose deadline has passed.
CheckTimeouts ==
    /\ At("idle")
    /\ mem.status = "paused"
    /\ mem' = [mem EXCEPT !.status = "waiting"]
    /\ todo' = <<Log("task_waiting", 0), Save>>
    /\ UNCHANGED <<pc, disk, journal, cur, rejections, verdict, delivery, counters>>

(***************************************************************************)
(* Failures and recovery                                                   *)
(***************************************************************************)
\* What was only in memory is gone.
DropRun(place) ==
    /\ pc' = place /\ todo' = <<>> /\ mem' = disk
    /\ cur' = 0 /\ rejections' = 0 /\ verdict' = None
    /\ UNCHANGED <<disk, journal, since, starts>>

\* An exception escapes runTask: the orchestrator's role file or backend is
\* missing, its reply is the JSON null, or a write of the task or the journal
\* failed.  The processor reports it and ends the job; the record in memory is
\* dropped.
RunTaskThrows ==
    /\ InRunTask
    /\ throws < MaxThrows /\ crashes + throws < MaxFaults
    /\ throws' = throws + 1
    /\ DropRun("idle")
    /\ UNCHANGED <<job, crashes, resumes>>

\* The job of a process that died: the queue finds it stalled, and delivers
\* it again or, the MaxStalled times used up, fails it.
Stalled ==
    IF job.place # "held" THEN job
    ELSE IF job.stalls < MaxStalled
         THEN [job EXCEPT !.place = "waiting", !.stalls = @ + 1]
         ELSE [job EXCEPT !.place = "done"]

Crash ==
    /\ pc # "down"
    /\ crashes + throws < MaxFaults
    /\ crashes' = crashes + 1
    /\ job' = Stalled
    /\ DropRun("down")
    /\ UNCHANGED <<throws, resumes>>

\* Mutant of RebuildQueue: no early return when the queue is populated.
RebuildQueueAlways(t) ==
    (IF Interrupted(t)
     THEN <<Settle(t.active, "failed"), Log("subtask_failed", t.active)>> ELSE <<>>)
    \o IF t.stage = None THEN <<>> ELSE EnqueueEval(t, FALSE)

\* The writes of rebuildQueueForActiveTask
RebuildQueue(t) ==
    IF t.queue # <<>> THEN <<>>
    ELSE (CASE Interrupted(t) -> <<Settle(t.active, "failed"), Log("subtask_failed", t.active)>>
            [] ~Interrupted(t) /\ t.active # 0 -> <<Unset>>
            [] t.active = 0 -> <<>>)
         \o IF t.stage = None THEN <<>> ELSE EnqueueEval(t, FALSE)

\* Mutant of Recover: every recovered task goes to the worker.
RecoverAll ==
    IF mem.status \in Recoverable
    THEN pc' = "entry" /\ todo' = RebuildQueue(mem)
    ELSE pc' = "idle" /\ UNCHANGED todo

\* performRecovery.  An active task goes back to the worker; a paused one
\* stays, or expires through CheckTimeouts; the scan does not return a task
\* in any other status.
Recover ==
    IF mem.status \in Recoverable /\ mem.status = "active"
    THEN pc' = "entry" /\ todo' = RebuildQueue(mem)
    ELSE pc' = "idle" /\ UNCHANGED todo

\* The process starts.  index.ts as it stands starts "plain": it recovers
\* nothing and waits for the queue.
Restart ==
    /\ pc = "down"
    /\ \/ "plain" \in Startups /\ pc' = "idle" /\ UNCHANGED todo
       \/ "recovery" \in Startups /\ Recover
    /\ UNCHANGED <<mem, disk, journal, cur, rejections, verdict, delivery, counters>>

(***************************************************************************)
(* Specification                                                           *)
(***************************************************************************)
\* Decisions the model enumerates: the fields an action does not read are
\* left unset.
Replies ==
    {d \in Decisions : /\ d.action \in Actions
                       /\ d.action # "run_stage_agent" => d.target = None
                       /\ d.action # "run_script" => d.script = None /\ d.patch = None}

\* The labels of the artifacts in a script's envelope.
EnvelopeLabels == {<<>>} \cup {<<l>> : l \in Labels}

Eval == EvalUnparsable \/ EvalExhausted
        \/ \E d \in Replies : EvalRejected(d) \/ EvalApplied(d)

Stage == \/ \E result \in AgentResults : StageReturns(result)
         \/ \E n \in UNION {0 .. Len(Outputs[s]) : s \in Stages} : StageThrows(n)

RunScript == \/ ScriptBlocked
             \/ \E result \in ScriptResults, labels \in EnvelopeLabels :
                    ScriptRuns(result, labels)

\* What the event loop does once it has been given a task.
WorkerStep == Deliver \/ BeginRun \/ JobEnds \/ EnterRunTask \/ LeaveLoop \/ Dequeue
              \/ Activate \/ LogStarted \/ DoStep \/ Eval \/ Stage \/ RunScript \/ HandleResume

Next == WorkerStep \/ Resume \/ CheckTimeouts \/ RunTaskThrows \/ Crash \/ Restart

Spec == Init /\ [][Next]_vars

\* Calls to agents and scripts return (each has a timeout) and a process
\* that went down is started again.
FairSpec == Spec /\ WF_vars(WorkerStep) /\ WF_vars(Restart)

\* Somebody answers a task that can be resumed.
RepliedSpec == FairSpec /\ WF_vars(Resume)
=============================================================================
