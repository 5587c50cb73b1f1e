------------------------- MODULE TaskRuntimeProofs -------------------------
(***************************************************************************)
(* Proofs about TaskRuntime for every recipe, script registry and budget.  *)
(* Each theorem rests on an inductive invariant: TypeInv for TypeOK, and   *)
(* StartInv on top of it for StartedOnce.  The lemmas about writes and     *)
(* about the operations on the task record come first.                     *)
(***************************************************************************)
EXTENDS TaskRuntimeProps, TLAPS, FiniteSetTheorems

(***************************************************************************)
(* Writes                                                                  *)
(***************************************************************************)
\* The writes a handler may leave to be done: it never logs the start of a
\* subtask, which only LogStarted does.
HandlerWrites == {w \in Writes : w.op = "log" => w.entry.type # "subtask_started"}

\* The effective stage of a task is a stage of the recipe.
LEMMA StageType == ASSUME NEW t \in Tasks PROVE EffectiveStage(t) \in Stages
  BY RecipeAssumption DEF EffectiveStage, Tasks

\* An entry of any other type is a write of a handler.
LEMMA LogType ==
  ASSUME NEW type \in EntryTypes \ {"subtask_started"}, NEW id \in Nat,
         NEW what \in Labels \cup ScriptIds \cup {None}
  PROVE  /\ LogWhat(type, id, what) \in HandlerWrites
         /\ Log(type, id) \in HandlerWrites
  BY DEF Log, LogWhat, HandlerWrites, Writes, Entries

\* Settling a subtask is a write of a handler.
LEMMA SettleType ==
  ASSUME NEW id \in Nat, NEW status \in SubtaskStatuses
  PROVE  Settle(id, status) \in HandlerWrites
  BY DEF Settle, HandlerWrites, Writes

\* So are saving the record and clearing activeSubtaskId.
LEMMA SaveType == Save \in HandlerWrites /\ Unset \in HandlerWrites
  BY DEF Save, Unset, HandlerWrites, Writes

\* So are enqueuing a new subtask and logging its id.
LEMMA EnqueueType ==
  ASSUME NEW t \in Tasks, NEW kind \in Kinds, NEW stage \in Stages,
         NEW script \in ScriptIds \cup {None}, NEW input \in BOOLEAN
  PROVE  /\ Enqueue(NewSubtask(kind, stage, script, input)) \in HandlerWrites
         /\ Log("subtask_queued", NextId(t)) \in HandlerWrites
<1>1. NewSubtask(kind, stage, script, input) \in Subtasks
  BY DEF NewSubtask, Subtasks, SubtaskStatuses
<1>2. NextId(t) \in Nat
  BY DEF NextId, Tasks
<1> QED BY <1>1, <1>2, LogType DEF Enqueue, HandlerWrites, Writes, EntryTypes

\* What enqueueOrchestratorEval writes.
LEMMA EnqueueEvalType ==
  ASSUME NEW t \in Tasks, NEW input \in BOOLEAN
  PROVE  EnqueueEval(t, input) \in Seq(HandlerWrites)
  BY StageType, EnqueueType DEF EnqueueEval, Kinds

\* What registerArtifacts and normalizeOutput write.
LEMMA ArtifactsType ==
  ASSUME NEW id \in Nat, NEW labels \in Seq(Labels)
  PROVE  Artifacts(id, labels) \in Seq(HandlerWrites)
<1>1. \A i \in 1 .. Len(labels) :
         LogWhat("artifact_registered", id, labels[i]) \in HandlerWrites
  BY LogType DEF EntryTypes
<1> QED BY <1>1 DEF Artifacts

\* Three sequences over a set concatenate to one over that set.
LEMMA ConcatType ==
  ASSUME NEW S, NEW a \in Seq(S), NEW b \in Seq(S), NEW c \in Seq(S)
  PROVE  a \o b \o c \in Seq(S)
  OBVIOUS

\* Two sequences over a set concatenate to one over that set.
LEMMA AppendedType ==
  ASSUME NEW S, NEW a \in Seq(S), NEW b \in Seq(S)
  PROVE  a \o b \in Seq(S)
  OBVIOUS

\* Short sequences over a set.
LEMMA PairType ==
  ASSUME NEW S, NEW x \in S, NEW y \in S
  PROVE  <<x>> \in Seq(S) /\ <<x, y>> \in Seq(S)
  OBVIOUS

\* What the success and failure paths of a handler write.
LEMMA RecordType ==
  ASSUME NEW t \in Tasks, NEW id \in Nat, NEW input \in BOOLEAN
  PROVE  /\ RecordSuccess(t, id, input) \in Seq(HandlerWrites)
         /\ RecordFailure(t, id) \in Seq(HandlerWrites)
<1> DEFINE done == <<Settle(id, "completed"), Log("subtask_completed", id)>>
           failed == <<Settle(id, "failed"), Log("subtask_failed", id)>>
           saved == <<Save>>
<1>1. done \in Seq(HandlerWrites) /\ failed \in Seq(HandlerWrites)
  BY SettleType, LogType, PairType DEF EntryTypes, SubtaskStatuses
<1>2. saved \in Seq(HandlerWrites)
  BY SaveType
<1>3. EnqueueEval(t, input) \in Seq(HandlerWrites) /\ EnqueueEval(t, FALSE) \in Seq(HandlerWrites)
  BY EnqueueEvalType
<1>4. /\ RecordSuccess(t, id, input) = done \o EnqueueEval(t, input) \o saved
      /\ RecordFailure(t, id) = failed \o EnqueueEval(t, FALSE) \o saved
  BY DEF RecordSuccess, RecordFailure
<1> HIDE DEF done, failed, saved
<1>5. done \o EnqueueEval(t, input) \o saved \in Seq(HandlerWrites)
  BY <1>1, <1>2, <1>3, ConcatType
<1>6. failed \o EnqueueEval(t, FALSE) \o saved \in Seq(HandlerWrites)
  BY <1>1, <1>2, <1>3, ConcatType
<1> QED BY <1>4, <1>5, <1>6

\* What rebuildQueueForActiveTask writes.
LEMMA RebuildType ==
  ASSUME NEW t \in Tasks
  PROVE  RebuildQueue(t) \in Seq(HandlerWrites)
<1> DEFINE failed == <<Settle(t.active, "failed"), Log("subtask_failed", t.active)>>
           unset == <<Unset>>
           none == <<>>
           reenter == IF t.stage = None THEN none ELSE EnqueueEval(t, FALSE)
<1>1. failed \in Seq(HandlerWrites)
  <2>1. t.active \in Nat
    BY DEF Tasks
  <2> QED BY <2>1, SettleType, LogType, PairType DEF EntryTypes, SubtaskStatuses
<1>2. unset \in Seq(HandlerWrites) /\ none \in Seq(HandlerWrites)
  BY SaveType
<1>3. reenter \in Seq(HandlerWrites)
  BY <1>2, EnqueueEvalType
<1>4. RebuildQueue(t) \in {none, failed \o reenter, unset \o reenter, none \o reenter}
  BY DEF RebuildQueue
<1> HIDE DEF failed, unset, none, reenter
<1>5. /\ failed \o reenter \in Seq(HandlerWrites)
      /\ unset \o reenter \in Seq(HandlerWrites)
      /\ none \o reenter \in Seq(HandlerWrites)
  BY <1>1, <1>2, <1>3
<1> QED BY <1>2, <1>4, <1>5

\* What a decision leaves of the task record it is applied to.
LEMMA AppliedType ==
  ASSUME NEW d \in Decisions, NEW t \in Tasks, ~TargetStageMissing(d)
  PROVE  /\ Applied(d, t) \in Tasks
         /\ Applied(d, t).subtasks = t.subtasks
         /\ Applied(d, t).queue = t.queue
         /\ Applied(d, t).active = t.active
<1> USE DEF EndStatus
<1>1. CASE d.action = "run_stage_agent"
  <2> DEFINE r == [t.retries EXCEPT ![d.target] = @ + 1]
             n == t.total + 1
  <2>1. d.target \in Stages
    BY <1>1 DEF Decisions, TargetStageMissing
  <2>2. r \in [Stages -> Nat] /\ n \in Nat
    BY <2>1 DEF Tasks
  <2>3. Applied(d, t) = [t EXCEPT !.stage = d.target, !.retries = r, !.total = n]
    BY <1>1 DEF Applied, Tasks
  <2> HIDE DEF r, n
  <2> QED BY <2>1, <2>2, <2>3 DEF Tasks
<1>2. CASE d.action = "run_script"
  <2> DEFINE n == t.total + 1
  <2>1. n \in Nat
    BY DEF Tasks
  <2>2. Applied(d, t) = [t EXCEPT !.total = n]
    BY <1>2 DEF Applied
  <2> HIDE DEF n
  <2> QED BY <2>1, <2>2 DEF Tasks
<1>3. CASE d.action \in {"finish_run", "fail_run", "pause_for_input"}
  <2>1. PICK s \in TaskStatuses : Applied(d, t) = [t EXCEPT !.status = s]
    BY <1>3 DEF Applied, TaskStatuses
  <2> QED BY <2>1 DEF Tasks
<1>4. CASE d.action = "unknown"
  BY <1>4 DEF Applied
<1> QED BY <1>1, <1>2, <1>3, <1>4 DEF Decisions, KnownActions

\* What applyDecision writes.
LEMMA ApplyDecisionType ==
  ASSUME NEW d \in Decisions, NEW t \in Tasks, ~TargetStageMissing(d)
  PROVE  ApplyDecision(d, t) \in Seq(HandlerWrites)
<1> DEFINE w == Enqueue(DecidedSubtask(d, t))
           l == Log("subtask_queued", NextId(t))
<1>1. CASE d.action = "run_stage_agent"
  <2>1. w \in HandlerWrites /\ l \in HandlerWrites
    BY <1>1, EnqueueType DEF Decisions, TargetStageMissing, DecidedSubtask, Kinds
  <2>2. ApplyDecision(d, t) = <<w, l>>
    BY <1>1 DEF ApplyDecision, EndEntry
  <2> HIDE DEF w, l
  <2> QED BY <2>1, <2>2
<1>2. CASE d.action = "run_script"
  <2>1. PayloadScript(d) \in ScriptIds \cup {None}
    BY DEF PayloadScript, Decisions
  <2>2. w \in HandlerWrites /\ l \in HandlerWrites
    BY <1>2, <2>1, StageType, EnqueueType DEF DecidedSubtask, Kinds
  <2>3. ApplyDecision(d, t) = <<w, l>>
    BY <1>2 DEF ApplyDecision, EndEntry
  <2> HIDE DEF w, l
  <2> QED BY <2>2, <2>3
<1>3. CASE d.action \in {"finish_run", "fail_run", "pause_for_input"}
  <2>1. PICK type \in EntryTypes \ {"subtask_started"} : ApplyDecision(d, t) = <<Log(type, 0)>>
    BY <1>3 DEF ApplyDecision, EndEntry, EntryTypes
  <2>2. Log(type, 0) \in HandlerWrites
    BY LogType
  <2> QED BY <2>1, <2>2, PairType
<1>4. CASE d.action = "unknown"
  BY <1>4 DEF ApplyDecision, EndEntry
<1> QED BY <1>1, <1>2, <1>3, <1>4 DEF Decisions, KnownActions

(***************************************************************************)
(* Operations on the task record                                           *)
(***************************************************************************)
\* enqueueSubtask appends to the subtasks and to the queue.
LEMMA EnqueuedTask ==
  ASSUME NEW t \in Tasks, NEW sub \in Subtasks
  PROVE  /\ EnqueueSubtask(t, sub) \in Tasks
         /\ EnqueueSubtask(t, sub).subtasks = Append(t.subtasks, sub)
         /\ EnqueueSubtask(t, sub).queue = Append(t.queue, Len(t.subtasks) + 1)
         /\ EnqueueSubtask(t, sub).active = t.active
<1> DEFINE s == Append(t.subtasks, sub)
           q == Append(t.queue, Len(t.subtasks) + 1)
<1>1. s \in Seq(Subtasks) /\ q \in Seq(Nat)
  BY DEF Tasks
<1>2. EnqueueSubtask(t, sub) = [t EXCEPT !.subtasks = s, !.queue = q]
  BY DEF EnqueueSubtask, NextId, Tasks
<1> HIDE DEF s, q
<1>3. EnqueueSubtask(t, sub) \in Tasks /\ EnqueueSubtask(t, sub).active = t.active
  BY <1>1, <1>2 DEF Tasks
<1>4. EnqueueSubtask(t, sub).subtasks = s /\ EnqueueSubtask(t, sub).queue = q
  BY <1>2 DEF Tasks
<1> QED BY <1>3, <1>4 DEF s, q

\* A change of the status of one subtask keeps the ids that exist.
LEMMA MarkedTask ==
  ASSUME NEW t \in Tasks, NEW id \in Nat, NEW status \in SubtaskStatuses, NEW active \in Nat
  PROVE  /\ MarkSubtask(t, id, status, active) \in Tasks
         /\ DOMAIN MarkSubtask(t, id, status, active).subtasks = DOMAIN t.subtasks
         /\ MarkSubtask(t, id, status, active).queue = t.queue
<1> DEFINE u == [t.subtasks EXCEPT ![id].status = status]
<1>1. t.subtasks \in Seq(Subtasks) /\ DOMAIN t.subtasks = 1 .. Len(t.subtasks)
  BY DEF Tasks
<1>2. \A i \in DOMAIN t.subtasks : u[i] \in Subtasks
  <2> TAKE i \in DOMAIN t.subtasks
  <2>1. t.subtasks[i] \in Subtasks
    BY <1>1
  <2>2. CASE i = id
    <3>1. u[i] = [t.subtasks[i] EXCEPT !.status = status]
      BY <2>2
    <3> QED BY <2>1, <3>1 DEF Subtasks
  <2>3. CASE i # id
    BY <2>1, <2>3
  <2> QED BY <2>2, <2>3
<1>3. DOMAIN u = DOMAIN t.subtasks /\ u = [i \in DOMAIN t.subtasks |-> u[i]]
  OBVIOUS
<1>4. MarkSubtask(t, id, status, active) = [t EXCEPT !.subtasks = u, !.active = active]
  BY DEF MarkSubtask, Tasks
<1> HIDE DEF u
<1>5. u \in [DOMAIN t.subtasks -> Subtasks]
  BY <1>2, <1>3, Zenon
<1>6. u \in Seq(Subtasks)
  BY <1>1, <1>5
<1> QED BY <1>3, <1>4, <1>6 DEF Tasks

\* markSubtaskComplete and markSubtaskFailed keep the ids and the queue.
LEMMA SettledTask ==
  ASSUME NEW t \in Tasks, NEW id \in Nat, NEW status \in SubtaskStatuses
  PROVE  /\ SettleSubtask(t, id, status) \in Tasks
         /\ DOMAIN SettleSubtask(t, id, status).subtasks = DOMAIN t.subtasks
         /\ SettleSubtask(t, id, status).queue = t.queue
  BY MarkedTask DEF SettleSubtask

\* markSubtaskActive keeps the ids and the queue.
LEMMA ActivatedTask ==
  ASSUME NEW t \in Tasks, NEW id \in Nat
  PROVE  /\ MarkSubtaskActive(t, id) \in Tasks
         /\ DOMAIN MarkSubtaskActive(t, id).subtasks = DOMAIN t.subtasks
         /\ MarkSubtaskActive(t, id).queue = t.queue
  BY MarkedTask DEF MarkSubtaskActive, SubtaskStatuses

\* dequeueNext removes the head of the queue.
LEMMA DequeuedTask ==
  ASSUME NEW t \in Tasks, t.queue # <<>>
  PROVE  /\ DequeueNext(t) \in Tasks
         /\ DequeueNext(t).subtasks = t.subtasks
         /\ DequeueNext(t).queue = Tail(t.queue)
         /\ Head(t.queue) \in Nat
<1> DEFINE q == Tail(t.queue)
<1>1. q \in Seq(Nat) /\ Head(t.queue) \in Nat
  BY DEF Tasks
<1>2. DequeueNext(t) = [t EXCEPT !.queue = q]
  BY DEF DequeueNext
<1> HIDE DEF q
<1>3. DequeueNext(t) \in Tasks /\ DequeueNext(t).subtasks = t.subtasks /\ DequeueNext(t).queue = q
  BY <1>1, <1>2 DEF Tasks
<1> QED BY <1>1, <1>3 DEF q

\* Clearing activeSubtaskId keeps the subtasks and the queue.
LEMMA ClearedTask ==
  ASSUME NEW t \in Tasks
  PROVE  /\ ClearActive(t) \in Tasks
         /\ ClearActive(t).subtasks = t.subtasks
         /\ ClearActive(t).queue = t.queue
  BY DEF ClearActive, Tasks

\* The subtasks and the queue in memory are the ones on disk: what is ahead
\* of the disk is only in the other fields.
Synced == mem.subtasks = disk.subtasks /\ mem.queue = disk.queue

\* The queue and the current subtask name subtasks that exist.
QueueKnown == \A k \in DOMAIN mem.queue : mem.queue[k] \in DOMAIN mem.subtasks

CurKnown == pc \in {"dequeued", "activated", "handle"} => cur \in DOMAIN mem.subtasks

\* The inductive invariant of type correctness: the record and the run on it,
\* and the deliveries that bound how often a record is begun.
RecordInv == TypeOK /\ todo \in Seq(HandlerWrites) /\ Synced /\ QueueKnown /\ CurKnown

\* Before the first run has saved the task there is nothing.
Unbegun ==
    starts = 0 => /\ pc \in {"idle", "down", "fetched"} /\ todo = <<>> /\ journal = <<>>
                  /\ mem = NewTask("unsaved") /\ disk = NewTask("unsaved")

\* A job is begun once for each time it was delivered, and delivered again
\* only when it stalled.
DeliveryInv ==
    /\ Unbegun
    /\ job.stalls <= MaxStalled
    /\ starts <= job.stalls + 1
    /\ job.place = "waiting" \/ pc = "fetched" => starts <= job.stalls
    /\ pc = "fetched" => job.place = "held"

TypeInv == RecordInv /\ DeliveryInv

\* A new task is a task record.
LEMMA NewTaskType ==
  ASSUME NEW status \in TaskStatuses \cup {"unsaved"}
  PROVE  NewTask(status) \in Tasks
<1>1. [s \in Stages |-> 0] \in [Stages -> Nat] /\ <<>> \in Seq(Subtasks) /\ <<>> \in Seq(Nat)
  OBVIOUS
<1> QED BY <1>1 DEF NewTask, Tasks

\* The initial states satisfy the invariant.
LEMMA TypeInit == Init => TypeInv
<1> SUFFICES ASSUME Init PROVE TypeInv
  OBVIOUS
<1>1. mem \in Tasks /\ disk \in Tasks
  BY NewTaskType, RuntimeAssumption DEF Init, TaskStatuses
<1>2. mem.subtasks = <<>> /\ disk.subtasks = <<>> /\ mem.queue = <<>> /\ disk.queue = <<>>
  BY DEF Init, NewTask
<1>3. TypeOK
  BY <1>1, RuntimeAssumption DEF Init, TypeOK, PCs, Jobs
<1>4. DeliveryInv
  BY RuntimeAssumption DEF Init, DeliveryInv, Unbegun
<1> QED BY <1>2, <1>3, <1>4 DEF Init, TypeInv, RecordInv, Synced, QueueKnown, CurKnown

\* The job of a process that died is a job.
LEMMA StalledType == job \in Jobs => Stalled \in Jobs
<1> SUFFICES ASSUME job \in Jobs PROVE Stalled \in Jobs
  OBVIOUS
<1> DEFINE n == job.stalls + 1
<1>1. n \in Nat
  BY DEF Jobs
<1>2. Stalled \in {job, [job EXCEPT !.place = "waiting", !.stalls = n], [job EXCEPT !.place = "done"]}
  BY DEF Stalled, Jobs
<1> HIDE DEF n
<1> QED BY <1>1, <1>2 DEF Jobs

\* The parts of BeginRun that are not about the task.
LEMMA BegunRun ==
  ASSUME BeginRun
  PROVE  /\ since' = Len(journal) /\ starts' = starts + 1 /\ journal' = journal /\ job' = job
         /\ pc = "fetched" /\ pc' = "loop" /\ todo = <<>>
  BY DEF BeginRun, At

\* The first write of the run on the job's copy: one subtask, which is queued.
LEMMA BegunTask ==
  ASSUME job \in Jobs, BeginRun
  PROVE  /\ mem' \in Tasks /\ disk' = mem'
         /\ DOMAIN mem'.subtasks = {1} /\ mem'.queue = <<1>>
         /\ todo' \in Seq(HandlerWrites)
         /\ since' = Len(journal) /\ starts' = starts + 1
<1> DEFINE t == [Delivered EXCEPT !.stage = EffectiveStage(Delivered)]
           sub == NewSubtask("orchestrator_eval", EffectiveStage(Delivered), None, FALSE)
<1>1. Delivered \in Tasks /\ Delivered.subtasks = <<>> /\ Delivered.queue = <<>>
  <2>1. job.status \in TaskStatuses \cup {"unsaved"}
    BY RuntimeAssumption DEF Jobs, TaskStatuses
  <2> QED BY <2>1, NewTaskType DEF Delivered, NewTask
<1>2. EffectiveStage(Delivered) \in Stages
  BY <1>1, StageType
<1>3. t \in Tasks /\ t.subtasks = <<>> /\ t.queue = <<>>
  BY <1>1, <1>2 DEF Tasks
<1>4. sub \in Subtasks
  BY <1>2 DEF NewSubtask, Subtasks, Kinds, SubtaskStatuses
<1>5. mem' = EnqueueSubtask(t, sub) /\ disk' = mem'
  BY DEF BeginRun
<1>6. todo' = <<Log("subtask_queued", NextId(Delivered))>>
  BY DEF BeginRun
<1>7. NextId(Delivered) \in Nat
  BY <1>1 DEF NextId
<1>8. Log("subtask_queued", NextId(Delivered)) \in HandlerWrites
  BY <1>7, LogType DEF EntryTypes
<1> HIDE DEF t, sub
<1>9. mem' \in Tasks /\ mem'.subtasks = Append(<<>>, sub) /\ mem'.queue = Append(<<>>, 1)
  BY <1>3, <1>4, <1>5, EnqueuedTask
<1>10. todo' \in Seq(HandlerWrites)
  BY <1>6, <1>8, PairType
<1>11. DOMAIN mem'.subtasks = {1} /\ mem'.queue = <<1>>
  BY <1>4, <1>9
<1> QED BY <1>5, <1>9, <1>10, <1>11, BegunRun

\* The run on the job's copy begins.
LEMMA BeginRunType == TypeInv /\ BeginRun => RecordInv'
<1> SUFFICES ASSUME TypeInv, BeginRun PROVE RecordInv'
  OBVIOUS
<1>1. /\ mem' \in Tasks /\ disk' = mem' /\ DOMAIN mem'.subtasks = {1} /\ mem'.queue = <<1>>
      /\ todo' \in Seq(HandlerWrites) /\ since' = Len(journal) /\ starts' = starts + 1
  BY BegunTask DEF TypeInv, RecordInv, TypeOK
<1>2. UNCHANGED <<journal, cur, rejections, verdict, job, crashes, throws, resumes>> /\ pc' = "loop"
  BY DEF BeginRun, counters
<1>3. todo' \in Seq(Writes) /\ Len(journal) \in Nat /\ MaxStalled \in Nat
  <2>1. HandlerWrites \subseteq Writes
    BY DEF HandlerWrites
  <2>2. todo' \in Seq(Writes)
    BY <1>1, <2>1
  <2>3. journal \in Seq(Entries)
    BY DEF TypeInv, RecordInv, TypeOK
  <2>4. Len(journal) \in Nat
    BY <2>3
  <2>5. MaxStalled \in Nat
    BY RuntimeAssumption
  <2> QED BY <2>2, <2>4, <2>5
<1>a. starts \in Nat /\ starts < MaxStalled + 1
  BY <1>3 DEF BeginRun, At, DeliveryInv, Jobs, TypeInv, RecordInv, TypeOK
<1>4. TypeOK'
  BY <1>1, <1>2, <1>3, <1>a DEF TypeInv, RecordInv, TypeOK, PCs
<1> QED BY <1>1, <1>2, <1>4 DEF TypeInv, RecordInv, Synced, QueueKnown, CurKnown

\* A write of the current handler.
LEMMA DoStepType == TypeInv /\ DoStep => RecordInv'
<1> SUFFICES ASSUME TypeInv, DoStep PROVE RecordInv'
  OBVIOUS
<1> USE DEF TypeInv, RecordInv, TypeOK
<1> DEFINE w == Head(todo)
<1>1. w \in HandlerWrites /\ todo' \in Seq(HandlerWrites) /\ todo' \in Seq(Writes)
  BY DEF DoStep, HandlerWrites
<1>2. CASE w.op = "log"
  <2>1. /\ journal' = Append(journal, w.entry) /\ UNCHANGED <<mem, disk>>
        /\ UNCHANGED <<pc, cur, rejections, verdict, delivery, counters>>
    BY <1>2 DEF DoStep
  <2>2. w.entry \in Entries
    BY <1>1, <1>2 DEF HandlerWrites, Writes
  <2>3. journal' \in Seq(Entries)
    BY <2>1, <2>2
  <2> HIDE DEF w
  <2> QED BY <1>1, <2>1, <2>3 DEF Synced, QueueKnown, CurKnown, counters, delivery
<1>3. CASE w.op # "log"
  <2>1. /\ disk' = mem' /\ UNCHANGED journal
        /\ UNCHANGED <<pc, cur, rejections, verdict, delivery, counters>>
    BY <1>3 DEF DoStep
  <2>2. /\ mem' \in Tasks
        /\ DOMAIN mem.subtasks \subseteq DOMAIN mem'.subtasks
        /\ \A k \in DOMAIN mem'.queue : mem'.queue[k] \in DOMAIN mem'.subtasks
    <3>1. CASE w.op = "enqueue"
      <4>1. mem' = EnqueueSubtask(mem, w.sub)
        BY <1>3, <3>1 DEF DoStep
      <4>2. w.sub \in Subtasks
        BY <1>1, <3>1 DEF HandlerWrites, Writes
      <4> DEFINE sub == w.sub
      <4> HIDE DEF w, sub
      <4>3. /\ mem' \in Tasks
            /\ mem'.subtasks = Append(mem.subtasks, sub)
            /\ mem'.queue = Append(mem.queue, Len(mem.subtasks) + 1)
        BY <4>1, <4>2, EnqueuedTask DEF sub
      <4>4. mem.subtasks \in Seq(Subtasks) /\ mem.queue \in Seq(Nat) /\ sub \in Subtasks
        BY <4>2 DEF Tasks, sub
      <4>5. DOMAIN mem'.subtasks = DOMAIN mem.subtasks \cup {Len(mem.subtasks) + 1}
        BY <4>3, <4>4
      <4>6. \A k \in DOMAIN mem'.queue :
               (k \in DOMAIN mem.queue /\ mem'.queue[k] = mem.queue[k])
               \/ mem'.queue[k] = Len(mem.subtasks) + 1
        BY <4>3, <4>4
      <4> QED BY <4>3, <4>5, <4>6 DEF QueueKnown
    <3>2. CASE w.op = "settle"
      <4>1. mem' = SettleSubtask(mem, w.id, w.status)
        BY <1>3, <3>2 DEF DoStep
      <4>2. w.id \in Nat /\ w.status \in SubtaskStatuses
        BY <1>1, <3>2 DEF HandlerWrites, Writes
      <4> HIDE DEF w
      <4>3. mem' \in Tasks /\ DOMAIN mem'.subtasks = DOMAIN mem.subtasks /\ mem'.queue = mem.queue
        BY <4>1, <4>2, SettledTask
      <4> QED BY <4>3 DEF QueueKnown
    <3>3. CASE w.op = "unset"
      <4>1. mem' = ClearActive(mem)
        BY <1>3, <3>3 DEF DoStep
      <4> QED BY <4>1, ClearedTask DEF QueueKnown
    <3>4. CASE w.op = "save"
      <4>1. mem' = mem
        BY <1>3, <3>4 DEF DoStep
      <4> QED BY <4>1 DEF QueueKnown
    <3> QED BY <1>1, <1>3, <3>1, <3>2, <3>3, <3>4 DEF HandlerWrites, Writes
  <2>3. TypeOK'
    BY <1>1, <2>1, <2>2 DEF counters, delivery
  <2>4. CurKnown'
    BY <2>1, <2>2 DEF CurKnown
  <2> QED BY <1>1, <2>1, <2>2, <2>3, <2>4 DEF Synced, QueueKnown
<1> QED BY <1>2, <1>3

\* The other steps of a handler choose what to write and change fields of
\* the record in memory that are not the subtasks or the queue.
LEMMA HandlerStepType ==
  /\ TypeInv
  /\ mem' \in Tasks /\ mem'.subtasks = mem.subtasks /\ mem'.queue = mem.queue
  /\ todo' \in Seq(HandlerWrites)
  /\ pc' = pc \/ pc' \in {"idle", "fetched", "entry", "loop"}
  /\ cur' \in Nat /\ (cur' = cur \/ pc' # pc)
  /\ rejections' \in 0 .. MaxRejections
  /\ verdict' \in {None, "ok", "error", "needs_input"}
  /\ resumes' \in 0 .. MaxResumes
  /\ job' = job \/ job' \in Jobs
  /\ UNCHANGED <<disk, journal, since, starts, crashes, throws>>
  => RecordInv'
<1> SUFFICES ASSUME TypeInv,
                    mem' \in Tasks, mem'.subtasks = mem.subtasks, mem'.queue = mem.queue,
                    todo' \in Seq(HandlerWrites),
                    pc' = pc \/ pc' \in {"idle", "fetched", "entry", "loop"},
                    cur' \in Nat, cur' = cur \/ pc' # pc,
                    rejections' \in 0 .. MaxRejections,
                    verdict' \in {None, "ok", "error", "needs_input"},
                    resumes' \in 0 .. MaxResumes,
                    job' = job \/ job' \in Jobs,
                    UNCHANGED <<disk, journal, since, starts, crashes, throws>>
             PROVE  RecordInv'
  OBVIOUS
<1>1. todo' \in Seq(Writes)
  BY DEF HandlerWrites
<1>2. TypeOK'
  BY <1>1 DEF TypeInv, RecordInv, TypeOK, PCs
<1>3. Synced' /\ QueueKnown'
  BY DEF TypeInv, RecordInv, Synced, QueueKnown
<1>4. CurKnown'
  BY DEF TypeInv, RecordInv, CurKnown
<1> QED BY <1>2, <1>3, <1>4 DEF TypeInv, RecordInv

(***************************************************************************)
(* Type correctness                                                        *)
(***************************************************************************)
\* The subtask being handled, and the fields of it a handler uses.
LEMMA CurType ==
  ASSUME TypeInv, pc = "handle"
  PROVE  /\ cur \in Nat
         /\ mem.subtasks[cur].stage \in Stages
         /\ Outputs[mem.subtasks[cur].stage] \in Seq(Labels)
         /\ Script \in ScriptIds \cup {None}
<1>1. cur \in DOMAIN mem.subtasks /\ mem.subtasks \in Seq(Subtasks)
  BY DEF TypeInv, RecordInv, TypeOK, CurKnown, Tasks
<1>2. mem.subtasks[cur] \in Subtasks /\ cur \in Nat
  BY <1>1
<1> QED BY <1>2, RecipeAssumption DEF Subtasks, Script

\* A change of status keeps the subtasks and the queue.
LEMMA StatusType ==
  ASSUME NEW t \in Tasks, NEW status \in TaskStatuses
  PROVE  /\ [t EXCEPT !.status = status] \in Tasks
         /\ [t EXCEPT !.status = status].subtasks = t.subtasks
         /\ [t EXCEPT !.status = status].queue = t.queue
  BY DEF Tasks

\* orchestrator_eval keeps the invariant.
LEMMA EvalStepType == TypeInv /\ Eval => RecordInv'
<1> SUFFICES ASSUME TypeInv, Eval PROVE RecordInv'
  OBVIOUS
<1> USE DEF Handling, At
<1>a. /\ mem \in Tasks /\ cur \in Nat /\ rejections \in Nat
      /\ rejections \in 0 .. MaxRejections /\ MaxRejections \in Nat /\ resumes \in 0 .. MaxResumes
      /\ verdict \in {None, "ok", "error", "needs_input"}
  BY RuntimeAssumption DEF TypeInv, RecordInv, TypeOK
<1>b. /\ Log("decision_rejected", cur) \in HandlerWrites
      /\ Log("orchestrator_decision", cur) \in HandlerWrites
      /\ Log("subtask_completed", cur) \in HandlerWrites
      /\ Log("subtask_failed", cur) \in HandlerWrites
      /\ Log("task_failed", 0) \in HandlerWrites
      /\ Settle(cur, "completed") \in HandlerWrites
      /\ Settle(cur, "failed") \in HandlerWrites
      /\ Save \in HandlerWrites
  BY <1>a, LogType, SettleType, SaveType DEF EntryTypes, SubtaskStatuses
<1>1. CASE EvalUnparsable
  <2>1. todo' \in Seq(HandlerWrites)
    BY <1>1, <1>b, PairType DEF EvalUnparsable
  <2> QED BY <1>1, <1>a, <2>1, HandlerStepType DEF EvalUnparsable, counters, delivery
<1>2. ASSUME NEW d \in Replies, EvalRejected(d) PROVE RecordInv'
  <2>1. todo' \in Seq(HandlerWrites)
    BY <1>2, <1>b, PairType DEF EvalRejected
  <2> QED BY <1>2, <1>a, <2>1, HandlerStepType DEF EvalRejected, counters, delivery
<1>3. ASSUME NEW d \in Replies, EvalApplied(d) PROVE RecordInv'
  <2>1. d \in Decisions /\ ~TargetStageMissing(d)
    BY <1>3 DEF EvalApplied, ValidDecision, Replies
  <2> DEFINE first == <<Log("orchestrator_decision", cur)>>
             last == <<Settle(cur, "completed"), Log("subtask_completed", cur), Save>>
  <2>2. first \in Seq(HandlerWrites) /\ last \in Seq(HandlerWrites)
    BY <1>b
  <2>3. ApplyDecision(d, mem) \in Seq(HandlerWrites)
    BY <1>a, <2>1, ApplyDecisionType
  <2>4. todo' = first \o ApplyDecision(d, mem) \o last
    BY <1>3 DEF EvalApplied
  <2> HIDE DEF first, last
  <2>5. todo' \in Seq(HandlerWrites)
    BY <2>2, <2>3, <2>4, ConcatType
  <2>6. mem' \in Tasks /\ mem'.subtasks = mem.subtasks /\ mem'.queue = mem.queue
    BY <1>3, <1>a, <2>1, AppliedType DEF EvalApplied
  <2> QED BY <1>3, <1>a, <2>5, <2>6, HandlerStepType DEF EvalApplied, counters, delivery
<1>4. CASE EvalExhausted
  <2>1. todo' \in Seq(HandlerWrites)
    BY <1>4, <1>b DEF EvalExhausted
  <2>2. mem' \in Tasks /\ mem'.subtasks = mem.subtasks /\ mem'.queue = mem.queue
    BY <1>4, <1>a, StatusType DEF EvalExhausted, TaskStatuses
  <2> QED BY <1>4, <1>a, <2>1, <2>2, HandlerStepType DEF EvalExhausted, counters, delivery
<1> QED BY <1>1, <1>2, <1>3, <1>4 DEF Eval

\* stage_agent_run keeps the invariant.
LEMMA StageStepType == TypeInv /\ Stage => RecordInv'
<1> SUFFICES ASSUME TypeInv, Stage PROVE RecordInv'
  OBVIOUS
<1> USE DEF Handling, At
<1> DEFINE labels == Outputs[mem.subtasks[cur].stage]
<1>a. /\ mem \in Tasks /\ rejections \in 0 .. MaxRejections /\ resumes \in 0 .. MaxResumes
  BY DEF TypeInv, RecordInv, TypeOK
<1>b. cur \in Nat /\ labels \in Seq(Labels)
  BY CurType DEF Stage, StageReturns, StageThrows
<1>1. ASSUME NEW result \in AgentResults, StageReturns(result) PROVE RecordInv'
  <2>1. todo' = Artifacts(cur, labels) \o RecordSuccess(mem, cur, FALSE)
    BY <1>1 DEF StageReturns
  <2> HIDE DEF labels
  <2>2. /\ Artifacts(cur, labels) \in Seq(HandlerWrites)
        /\ RecordSuccess(mem, cur, FALSE) \in Seq(HandlerWrites)
    BY <1>a, <1>b, ArtifactsType, RecordType
  <2>3. todo' \in Seq(HandlerWrites)
    BY <2>1, <2>2, AppendedType
  <2> QED BY <1>1, <1>a, <1>b, <2>3, HandlerStepType DEF StageReturns, AgentResults, counters, delivery
<1>2. ASSUME NEW n \in Nat, StageThrows(n) PROVE RecordInv'
  <2>1. todo' = Artifacts(cur, SubSeq(labels, 1, n)) \o RecordFailure(mem, cur) /\ n <= Len(labels)
    BY <1>2 DEF StageThrows
  <2> HIDE DEF labels
  <2>2. SubSeq(labels, 1, n) \in Seq(Labels)
    BY <1>b, <2>1
  <2>3. /\ Artifacts(cur, SubSeq(labels, 1, n)) \in Seq(HandlerWrites)
        /\ RecordFailure(mem, cur) \in Seq(HandlerWrites)
    BY <1>a, <1>b, <2>2, ArtifactsType, RecordType
  <2>4. todo' \in Seq(HandlerWrites)
    BY <2>1, <2>3
  <2> QED BY <1>2, <1>a, <1>b, <2>4, HandlerStepType DEF StageThrows, counters, delivery
<1>3. \A s \in Stages : Len(Outputs[s]) \in Nat
  BY RecipeAssumption
<1> QED BY <1>1, <1>2, <1>3 DEF Stage

\* script_run keeps the invariant.
LEMMA ScriptStepType == TypeInv /\ RunScript => RecordInv'
<1> SUFFICES ASSUME TypeInv, RunScript PROVE RecordInv'
  OBVIOUS
<1> USE DEF Handling, At
<1>a. /\ mem \in Tasks /\ rejections \in 0 .. MaxRejections /\ resumes \in 0 .. MaxResumes
  BY DEF TypeInv, RecordInv, TypeOK
<1>b. cur \in Nat /\ Script \in ScriptIds \cup {None}
  BY CurType DEF RunScript, ScriptBlocked, ScriptRuns
<1>1. CASE ScriptBlocked
  <2>1. todo' \in Seq(HandlerWrites)
    BY <1>1, <1>a, <1>b, RecordType DEF ScriptBlocked
  <2> QED BY <1>1, <1>a, <1>b, <2>1, HandlerStepType DEF ScriptBlocked, counters, delivery
<1>2. ASSUME NEW result \in ScriptResults,
             NEW labels \in EnvelopeLabels, ScriptRuns(result, labels)
      PROVE  RecordInv'
  <2> DEFINE started == <<LogWhat("script_started", cur, Script)>>
             completed == <<LogWhat("script_completed", cur, Script)>>
             failed == <<LogWhat("script_failed", cur, Script)>>
             registered == Artifacts(cur, labels)
             success == RecordSuccess(mem, cur, FALSE)
             failure == RecordFailure(mem, cur)
  <2>1. /\ started \in Seq(HandlerWrites) /\ completed \in Seq(HandlerWrites)
        /\ failed \in Seq(HandlerWrites)
    BY <1>b, LogType, PairType DEF EntryTypes
  <2>2. labels \in Seq(Labels)
    <3>1. \A l \in Labels : <<l>> \in Seq(Labels)
      BY PairType
    <3>2. <<>> \in Seq(Labels)
      OBVIOUS
    <3> QED BY <3>1, <3>2 DEF EnvelopeLabels
  <2>3. /\ registered \in Seq(HandlerWrites) /\ success \in Seq(HandlerWrites)
        /\ failure \in Seq(HandlerWrites)
    BY <1>a, <1>b, <2>2, ArtifactsType, RecordType
  <2>4. todo' \in {started \o (registered \o completed \o success), started \o success,
                   started \o (failed \o failure), started \o (registered \o failure)}
    BY <1>2 DEF ScriptRuns, ScriptWrites, ScriptResults
  <2>5. verdict' \in {"ok", "error", "needs_input"}
    BY <1>2 DEF ScriptRuns, ScriptResults
  <2> HIDE DEF started, completed, failed, registered, success, failure
  <2>6. /\ registered \o completed \o success \in Seq(HandlerWrites)
        /\ failed \o failure \in Seq(HandlerWrites)
        /\ registered \o failure \in Seq(HandlerWrites)
    BY <2>1, <2>3, ConcatType
  <2>7. /\ started \o (registered \o completed \o success) \in Seq(HandlerWrites)
        /\ started \o success \in Seq(HandlerWrites)
        /\ started \o (failed \o failure) \in Seq(HandlerWrites)
        /\ started \o (registered \o failure) \in Seq(HandlerWrites)
    BY <2>1, <2>3, <2>6
  <2>8. todo' \in Seq(HandlerWrites)
    BY <2>4, <2>7
  <2> QED BY <1>2, <1>a, <1>b, <2>5, <2>8, HandlerStepType DEF ScriptRuns, counters, delivery
<1> QED BY <1>1, <1>2 DEF RunScript

\* runTask outside the handlers, and resume_after_input.
LEMMA WorkerStepType == TypeInv /\ WorkerStep => RecordInv'
<1> SUFFICES ASSUME TypeInv, WorkerStep PROVE RecordInv'
  OBVIOUS
<1> USE DEF Handling, At
<1>a. /\ mem \in Tasks /\ disk \in Tasks /\ journal \in Seq(Entries) /\ cur \in Nat
      /\ todo \in Seq(HandlerWrites) /\ rejections \in 0 .. MaxRejections
      /\ resumes \in 0 .. MaxResumes /\ verdict \in {None, "ok", "error", "needs_input"}
  BY DEF TypeInv, RecordInv, TypeOK
<1>1. CASE Deliver \/ JobEnds
  <2>1. job' \in Jobs
    BY <1>1 DEF Deliver, JobEnds, Jobs, TypeInv, RecordInv, TypeOK
  <2> QED BY <1>1, <1>a, <2>1, HandlerStepType DEF Deliver, JobEnds, counters
<1>10. CASE BeginRun
  BY <1>10, BeginRunType
<1>2. CASE EnterRunTask
  <2>1. /\ mem' \in Tasks /\ mem'.subtasks = mem.subtasks /\ mem'.queue = mem.queue
    BY <1>2, <1>a, StageType DEF EnterRunTask, Tasks
  <2>2. todo' \in Seq(HandlerWrites)
    BY <1>2, <1>a, EnqueueEvalType DEF EnterRunTask
  <2> QED BY <1>2, <1>a, <2>1, <2>2, HandlerStepType DEF EnterRunTask, counters, delivery
<1>3. CASE LeaveLoop
  BY <1>3, <1>a, HandlerStepType DEF LeaveLoop, counters, delivery
<1>4. CASE Dequeue
  <2>1. mem' = DequeueNext(mem) /\ disk' = mem' /\ mem.queue # <<>> /\ cur' = Head(mem.queue)
    BY <1>4 DEF Dequeue
  <2>2. /\ mem' \in Tasks /\ mem'.subtasks = mem.subtasks /\ mem'.queue = Tail(mem.queue)
        /\ cur' \in Nat
    BY <1>a, <2>1, DequeuedTask
  <2>3. mem.queue \in Seq(Nat)
    BY <1>a DEF Tasks
  <2>4. cur' \in DOMAIN mem.subtasks
    BY <2>1, <2>3 DEF TypeInv, RecordInv, QueueKnown
  <2>5. QueueKnown'
    BY <2>1, <2>2, <2>3 DEF TypeInv, RecordInv, QueueKnown
  <2>6. TypeOK'
    BY <1>4, <2>1, <2>2 DEF Dequeue, TypeInv, RecordInv, TypeOK, PCs, counters, delivery
  <2> QED BY <1>4, <2>1, <2>2, <2>4, <2>5, <2>6 DEF Dequeue, TypeInv, RecordInv, Synced, CurKnown
<1>5. CASE Activate
  <2>1. mem' = MarkSubtaskActive(mem, cur) /\ disk' = mem'
    BY <1>5 DEF Activate
  <2>2. mem' \in Tasks /\ DOMAIN mem'.subtasks = DOMAIN mem.subtasks /\ mem'.queue = mem.queue
    BY <1>a, <2>1, ActivatedTask
  <2>3. TypeOK'
    BY <1>5, <2>1, <2>2 DEF Activate, TypeInv, RecordInv, TypeOK, PCs, counters, delivery
  <2> QED BY <1>5, <2>1, <2>2, <2>3 DEF Activate, TypeInv, RecordInv, Synced, QueueKnown, CurKnown
<1>6. CASE LogStarted
  <2>1. Log("subtask_started", cur).entry \in Entries
    BY <1>a DEF Log, LogWhat, Entries, EntryTypes
  <2>2. journal' \in Seq(Entries)
    BY <1>6, <1>a, <2>1 DEF LogStarted
  <2>3. TypeOK'
    BY <1>6, <2>2 DEF LogStarted, TypeInv, RecordInv, TypeOK, PCs, counters, delivery
  <2> QED BY <1>6, <2>3 DEF LogStarted, TypeInv, RecordInv, Synced, QueueKnown, CurKnown
<1>7. CASE DoStep
  BY <1>7, DoStepType
<1>8. CASE Eval \/ Stage \/ RunScript
  BY <1>8, EvalStepType, StageStepType, ScriptStepType
<1>9. CASE HandleResume
  <2>1. mem' \in Tasks /\ mem'.subtasks = mem.subtasks /\ mem'.queue = mem.queue
    BY <1>9, <1>a, StatusType DEF HandleResume, TaskStatuses
  <2>2. todo' \in Seq(HandlerWrites)
    <3>1. mem.human \in BOOLEAN
      BY <1>a DEF Tasks
    <3> QED BY <1>9, <1>a, <3>1, RecordType DEF HandleResume
  <2> QED BY <1>9, <1>a, <2>1, <2>2, HandlerStepType DEF HandleResume, counters, delivery
<1> QED BY <1>1, <1>2, <1>3, <1>4, <1>5, <1>6, <1>7, <1>8, <1>9, <1>10 DEF WorkerStep

\* Every step keeps the record well formed.
LEMMA RecordStep == TypeInv /\ [Next]_vars => RecordInv'
<1> SUFFICES ASSUME TypeInv, [Next]_vars PROVE RecordInv'
  OBVIOUS
<1> USE DEF At
<1>a. /\ mem \in Tasks /\ disk \in Tasks /\ cur \in Nat /\ rejections \in 0 .. MaxRejections
      /\ resumes \in 0 .. MaxResumes /\ verdict \in {None, "ok", "error", "needs_input"}
      /\ 0 \in 0 .. MaxRejections
  BY RuntimeAssumption DEF TypeInv, RecordInv, TypeOK
<1>1. CASE WorkerStep
  BY <1>1, WorkerStepType
<1>2. CASE Resume
  <2>1. mem' \in Tasks /\ mem'.subtasks = mem.subtasks /\ mem'.queue = mem.queue
    BY <1>2, <1>a DEF Resume, Tasks, TaskStatuses
  <2> DEFINE w == Enqueue(NewSubtask("resume_after_input", EffectiveStage(mem), None, FALSE))
             l == Log("task_resumed", 0)
  <2>a. w \in HandlerWrites /\ l \in HandlerWrites /\ Save \in HandlerWrites
    BY <1>a, EnqueueType, StageType, LogType, SaveType DEF Kinds, EntryTypes
  <2>b. todo' = <<w, l, Save>>
    BY <1>2 DEF Resume
  <2> HIDE DEF w, l
  <2>2. todo' \in Seq(HandlerWrites)
    BY <2>a, <2>b
  <2>3. resumes' \in 0 .. MaxResumes
    BY <1>2, <1>a, RuntimeAssumption DEF Resume
  <2> QED BY <1>2, <1>a, <2>1, <2>2, <2>3, HandlerStepType DEF Resume, delivery
<1>3. CASE CheckTimeouts
  <2>1. mem' \in Tasks /\ mem'.subtasks = mem.subtasks /\ mem'.queue = mem.queue
    BY <1>3, <1>a, StatusType DEF CheckTimeouts, TaskStatuses
  <2>2. todo' \in Seq(HandlerWrites)
    BY <1>3, LogType, SaveType, PairType DEF CheckTimeouts, EntryTypes
  <2> QED BY <1>3, <1>a, <2>1, <2>2, HandlerStepType DEF CheckTimeouts, counters, delivery
<1>4. CASE RunTaskThrows \/ Crash
  <2>1. /\ pc' \in {"idle", "down"} /\ todo' = <<>> /\ mem' = disk /\ cur' = 0 /\ rejections' = 0
        /\ verdict' = None /\ UNCHANGED <<disk, journal, since, starts, resumes>>
    BY <1>4 DEF RunTaskThrows, Crash, DropRun
  <2>2. /\ crashes' \in Nat /\ throws' \in 0 .. MaxThrows
        /\ crashes' + throws' <= MaxFaults
    BY <1>4, RuntimeAssumption DEF RunTaskThrows, Crash, TypeInv, RecordInv, TypeOK
  <2>3. job' \in Jobs
    BY <1>4, StalledType DEF RunTaskThrows, Crash, TypeInv, RecordInv, TypeOK
  <2>4. TypeOK'
    BY <1>a, <2>1, <2>2, <2>3 DEF TypeInv, RecordInv, TypeOK, PCs
  <2> QED BY <2>1, <2>4 DEF TypeInv, RecordInv, Synced, QueueKnown, CurKnown
<1>5. CASE Restart
  <2>1. todo' \in Seq(HandlerWrites)
    BY <1>5, <1>a, RebuildType DEF Restart, Recover, TypeInv, RecordInv
  <2>2. pc' \in {"entry", "idle"}
    BY <1>5 DEF Restart, Recover
  <2> QED BY <1>5, <1>a, <2>1, <2>2, HandlerStepType DEF Restart, counters, delivery
<1>6. CASE UNCHANGED vars
  BY <1>6 DEF vars, counters, delivery, TypeInv, RecordInv, TypeOK, Synced, QueueKnown, CurKnown
<1> QED BY <1>1, <1>2, <1>3, <1>4, <1>5, <1>6 DEF Next

\* Nothing but the first write of a run makes something of nothing.
LEMMA UnbegunStep == TypeInv /\ [Next]_vars => Unbegun'
<1> SUFFICES ASSUME TypeInv, [Next]_vars, starts' = 0
             PROVE  /\ pc' \in {"idle", "down", "fetched"} /\ todo' = <<>> /\ journal' = <<>>
                    /\ mem' = NewTask("unsaved") /\ disk' = NewTask("unsaved")
  BY DEF Unbegun
<1>1. starts \in Nat /\ Unbegun
  BY DEF TypeInv, RecordInv, TypeOK, DeliveryInv
<1>2. ~BeginRun
  BY <1>1, BegunRun
<1>3. starts = 0
  BY <1>2 DEF Next, WorkerStep, Deliver, JobEnds, EnterRunTask, LeaveLoop, Dequeue, Activate, LogStarted,
         DoStep, Eval, EvalUnparsable, EvalRejected, EvalApplied, EvalExhausted,
         Stage, StageReturns, StageThrows, RunScript, ScriptBlocked, ScriptRuns, HandleResume,
         Resume, CheckTimeouts, RunTaskThrows, Crash, DropRun, Restart, delivery, vars
<1>4. /\ pc \in {"idle", "down", "fetched"} /\ todo = <<>> /\ journal = <<>>
      /\ mem = NewTask("unsaved") /\ disk = NewTask("unsaved")
  BY <1>1, <1>3 DEF Unbegun
<1>5. mem.status = "unsaved"
  BY <1>4 DEF NewTask
<1> HIDE DEF Unbegun
<1>6. \/ Deliver \/ JobEnds \/ RunTaskThrows \/ Crash \/ Restart \/ UNCHANGED vars
  BY <1>2, <1>4, <1>5 DEF Next, WorkerStep, EnterRunTask, LeaveLoop, Dequeue, Activate, LogStarted,
         DoStep, Eval, EvalUnparsable, EvalRejected, EvalApplied, EvalExhausted,
         Stage, StageReturns, StageThrows, RunScript, ScriptBlocked, ScriptRuns, HandleResume,
         Resume, CheckTimeouts, Handling, At
<1> QED BY <1>4, <1>5, <1>6 DEF Deliver, JobEnds, At, RunTaskThrows, Crash, DropRun, Restart, Recover, vars

\* Only the queue, the first write of a run and a crash move a delivery on.
LEMMA DeliveryStep == TypeInv /\ [Next]_vars => DeliveryInv'
<1> SUFFICES ASSUME TypeInv, [Next]_vars PROVE DeliveryInv'
  OBVIOUS
<1>a. /\ job \in Jobs /\ starts \in Nat /\ MaxStalled \in Nat /\ job.stalls \in Nat
  BY RuntimeAssumption DEF TypeInv, RecordInv, TypeOK, Jobs
<1>b. Unbegun'
  BY UnbegunStep
<1> USE <1>b DEF TypeInv, DeliveryInv
<1>1. CASE Deliver
  <2>1. job' = [job EXCEPT !.place = "held"] /\ job.place = "waiting" /\ starts' = starts
    BY <1>1 DEF Deliver
  <2>2. job'.stalls = job.stalls /\ job'.place = "held"
    BY <1>a, <2>1 DEF Jobs
  <2> QED BY <1>a, <2>1, <2>2
<1>2. CASE BeginRun
  BY <1>2, <1>a DEF BeginRun, At
<1>3. CASE JobEnds
  <2>1. job' = [job EXCEPT !.place = "done"] /\ starts' = starts /\ pc' = pc /\ pc = "idle"
    BY <1>3 DEF JobEnds, At
  <2>2. job'.stalls = job.stalls /\ job'.place = "done"
    BY <1>a, <2>1 DEF Jobs
  <2> QED BY <1>a, <2>1, <2>2
<1>4. CASE Crash
  <2>1. pc' = "down" /\ starts' = starts /\ job' = Stalled
    BY <1>4 DEF Crash, DropRun
  <2>2. CASE job.place # "held"
    BY <2>1, <2>2 DEF Stalled
  <2>3. CASE job.place = "held" /\ job.stalls < MaxStalled
    <3>1. job' = [job EXCEPT !.place = "waiting", !.stalls = job.stalls + 1]
      BY <2>1, <2>3 DEF Stalled, Jobs
    <3>2. job'.stalls = job.stalls + 1
      BY <1>a, <3>1 DEF Jobs
    <3> QED BY <1>a, <2>1, <2>3, <3>2
  <2>4. CASE job.place = "held" /\ ~(job.stalls < MaxStalled)
    <3>1. job' = [job EXCEPT !.place = "done"]
      BY <2>1, <2>4 DEF Stalled
    <3>2. job'.stalls = job.stalls /\ job'.place = "done"
      BY <1>a, <3>1 DEF Jobs
    <3> QED BY <1>a, <2>1, <3>2
  <2> QED BY <2>2, <2>3, <2>4
<1>5. CASE RunTaskThrows
  BY <1>5 DEF RunTaskThrows, DropRun
<1>6. CASE EnterRunTask \/ LeaveLoop \/ Dequeue \/ Activate \/ LogStarted \/ DoStep \/ HandleResume
           \/ Resume \/ CheckTimeouts \/ Restart
  <2>1. delivery' = delivery /\ (pc' = "fetched" => pc = "fetched")
    BY <1>6 DEF EnterRunTask, LeaveLoop, Dequeue, Activate, LogStarted, DoStep, HandleResume,
                Resume, CheckTimeouts, Restart, Recover, Handling, At, delivery
  <2> QED BY <2>1 DEF delivery
<1>7. CASE Eval \/ Stage \/ RunScript
  <2>1. delivery' = delivery /\ (pc' = "fetched" => pc = "fetched")
    BY <1>7 DEF Eval, EvalUnparsable, EvalRejected, EvalApplied, EvalExhausted,
                Stage, StageReturns, StageThrows, RunScript, ScriptBlocked, ScriptRuns, delivery
  <2> QED BY <2>1 DEF delivery
<1>8. CASE UNCHANGED vars
  BY <1>8 DEF vars, delivery
<1> QED BY <1>1, <1>2, <1>3, <1>4, <1>5, <1>6, <1>7, <1>8 DEF Next, WorkerStep

\* Every step keeps the invariant of type correctness.
LEMMA TypeStep == TypeInv /\ [Next]_vars => TypeInv'
  BY RecordStep, DeliveryStep DEF TypeInv

\* In every run and for every recipe, every variable keeps its type: the record
\* in memory and task.json stay well formed through crashes and exceptions.
THEOREM TypeCorrect == Spec => []TypeOK
<1>1. TypeInv => TypeOK
  BY DEF TypeInv, RecordInv
<1> QED BY <1>1, TypeInit, TypeStep, PTL DEF Spec

(***************************************************************************)
(* No subtask is started twice                                             *)
(***************************************************************************)
\* Subtasks the journal says were started, and subtasks that are queued.
StartedIds == {journal[i].id : i \in Logged("subtask_started")}

QueueIds == {mem.queue[k] : k \in DOMAIN mem.queue}

\* A start was logged only for a subtask that exists, so an id that NextId
\* gives out was never started.
StartsKnown == StartedIds \subseteq DOMAIN mem.subtasks

\* What is queued was never started and is queued once.
QueueFresh ==
    /\ QueueIds \cap StartedIds = {}
    /\ \A k, l \in DOMAIN mem.queue : mem.queue[k] = mem.queue[l] => k = l

\* Nor was the subtask between its removal from the queue and its start, and
\* it is not queued again.
CurFresh ==
    pc \in {"dequeued", "activated"} =>
        todo = <<>> /\ cur \notin StartedIds /\ cur \notin QueueIds

\* Starts of an id that stand before the record in task.json began.
OldStarts(id) == {i \in EverLogged("subtask_started") : i <= since /\ journal[i].id = id}

\* Each record before this one started an id at most once.
OldBounded ==
    \A id \in Nat : OldStarts(id) # {} => Cardinality(OldStarts(id)) < starts

\* The inductive invariant of StartedOnce.
StartInv == StartsKnown /\ QueueFresh /\ CurFresh /\ OncePerRecord /\ OldBounded

\* The initial states satisfy the invariant.
LEMMA StartInit == Init => StartInv
<1> SUFFICES ASSUME Init PROVE StartInv
  OBVIOUS
<1>1. journal = <<>> /\ mem.queue = <<>> /\ pc = "idle"
  BY DEF Init, NewTask
<1>2. /\ EverLogged("subtask_started") = {} /\ Logged("subtask_started") = {}
      /\ StartedIds = {} /\ QueueIds = {}
  BY <1>1 DEF EverLogged, Logged, StartedIds, QueueIds
<1>3. OldBounded
  BY <1>1, <1>2 DEF OldBounded, OldStarts
<1> QED BY <1>1, <1>2, <1>3 DEF StartInv, StartsKnown, QueueFresh, CurFresh, OncePerRecord

\* A step that neither writes the journal nor touches the subtasks or the queue.
LEMMA StartQuiet ==
  /\ StartInv
  /\ journal' = journal /\ since' = since /\ starts' = starts
  /\ mem'.queue = mem.queue /\ DOMAIN mem'.subtasks = DOMAIN mem.subtasks
  /\ pc' \in {"dequeued", "activated"} =>
       pc \in {"dequeued", "activated"} /\ todo' = todo /\ cur' = cur
  => StartInv'
<1> SUFFICES ASSUME StartInv, journal' = journal, since' = since, starts' = starts,
                    mem'.queue = mem.queue,
                    DOMAIN mem'.subtasks = DOMAIN mem.subtasks,
                    pc' \in {"dequeued", "activated"} =>
                      pc \in {"dequeued", "activated"} /\ todo' = todo /\ cur' = cur
             PROVE  StartInv'
  OBVIOUS
<1>1. /\ EverLogged("subtask_started")' = EverLogged("subtask_started")
      /\ Logged("subtask_started")' = Logged("subtask_started")
      /\ StartedIds' = StartedIds /\ QueueIds' = QueueIds
  BY DEF EverLogged, Logged, StartedIds, QueueIds
<1>2. OncePerRecord'
  BY <1>1 DEF StartInv, OncePerRecord
<1>3. OldBounded'
  BY <1>1 DEF StartInv, OldBounded, OldStarts
<1> QED BY <1>1, <1>2, <1>3 DEF StartInv, StartsKnown, QueueFresh, CurFresh

\* A line written at the end of the journal is younger than the record, and
\* the starts before the record stay as they are.
LEMMA OldStartsKept ==
  ASSUME TypeInv, OldBounded, NEW e \in Entries, journal' = Append(journal, e),
         since' = since, starts' = starts
  PROVE  OldBounded'
<1>1. since \in 0 .. Len(journal) /\ journal \in Seq(Entries)
  BY DEF TypeInv, RecordInv, TypeOK
<1>2. \A id \in Nat : OldStarts(id)' = OldStarts(id)
  BY <1>1 DEF OldStarts, EverLogged
<1> QED BY <1>2 DEF OldBounded

\* A write of a handler logs no start, and what it enqueues gets a fresh id.
LEMMA StartDoStep == TypeInv /\ StartInv /\ DoStep => StartInv'
<1> SUFFICES ASSUME TypeInv, StartInv, DoStep PROVE StartInv'
  OBVIOUS
<1> DEFINE w == Head(todo)
<1>1. /\ w \in HandlerWrites /\ pc' = pc /\ cur' = cur /\ pc \notin {"dequeued", "activated"}
      /\ mem \in Tasks /\ journal \in Seq(Entries) /\ since' = since /\ starts' = starts
      /\ since \in 0 .. Len(journal)
  BY DEF DoStep, TypeInv, RecordInv, TypeOK, StartInv, CurFresh, delivery
<1>2. CASE w.op = "log"
  <2>1. /\ journal' = Append(journal, w.entry) /\ mem' = mem
    BY <1>2 DEF DoStep
  <2>2. w.entry.type # "subtask_started" /\ w.entry \in Entries
    BY <1>1, <1>2 DEF HandlerWrites, Writes
  <2> DEFINE e == w.entry
  <2> HIDE DEF w, e
  <2>3. /\ Logged("subtask_started")' = Logged("subtask_started")
        /\ \A i \in Logged("subtask_started") : journal'[i] = journal[i]
    BY <1>1, <2>1, <2>2 DEF EverLogged, Logged, e
  <2>4. StartedIds' = StartedIds /\ QueueIds' = QueueIds
    BY <2>1, <2>3 DEF StartedIds, QueueIds
  <2>5. OncePerRecord'
    BY <2>3 DEF StartInv, OncePerRecord
  <2>6. OldBounded'
    BY <1>1, <2>1, <2>2, OldStartsKept DEF StartInv, e
  <2> QED BY <1>1, <2>1, <2>4, <2>5, <2>6 DEF StartInv, StartsKnown, QueueFresh, CurFresh
<1>3. CASE w.op = "enqueue"
  <2>1. mem' = EnqueueSubtask(mem, w.sub) /\ journal' = journal
    BY <1>3 DEF DoStep
  <2>2. w.sub \in Subtasks
    BY <1>1, <1>3 DEF HandlerWrites, Writes
  <2> DEFINE sub == w.sub
             new == Len(mem.subtasks) + 1
  <2> HIDE DEF w, sub
  <2>3. mem'.subtasks = Append(mem.subtasks, sub) /\ mem'.queue = Append(mem.queue, new)
    BY <1>1, <2>1, <2>2, EnqueuedTask DEF sub
  <2>4. mem.subtasks \in Seq(Subtasks) /\ mem.queue \in Seq(Nat) /\ sub \in Subtasks
    BY <1>1, <2>2 DEF Tasks, sub
  <2>5. /\ DOMAIN mem'.subtasks = DOMAIN mem.subtasks \cup {new} /\ new \notin DOMAIN mem.subtasks
    BY <2>3, <2>4
  <2>6. /\ EverLogged("subtask_started")' = EverLogged("subtask_started")
        /\ Logged("subtask_started")' = Logged("subtask_started") /\ StartedIds' = StartedIds
    BY <1>1, <2>1 DEF EverLogged, Logged, StartedIds
  <2>7. /\ DOMAIN mem'.queue = DOMAIN mem.queue \cup {Len(mem.queue) + 1}
        /\ \A k \in DOMAIN mem.queue : k # Len(mem.queue) + 1 /\ mem'.queue[k] = mem.queue[k]
        /\ mem'.queue[Len(mem.queue) + 1] = new
    BY <2>3, <2>4
  <2>8. QueueIds' = QueueIds \cup {new} /\ new \notin QueueIds
    BY <2>5, <2>7 DEF QueueIds, TypeInv, RecordInv, QueueKnown
  <2>9. new \notin StartedIds
    BY <2>5 DEF StartInv, StartsKnown
  <2>10. QueueFresh'
    <3>1. (QueueIds \cap StartedIds = {})'
      BY <2>6, <2>8, <2>9 DEF StartInv, QueueFresh
    <3>2. \A k, l \in DOMAIN mem'.queue : mem'.queue[k] = mem'.queue[l] => k = l
      <4>1. \A k \in DOMAIN mem.queue : mem.queue[k] # new
        BY <2>8 DEF QueueIds
      <4> HIDE DEF new
      <4> QED BY <2>7, <4>1 DEF StartInv, QueueFresh
    <3> QED BY <3>1, <3>2 DEF QueueFresh
  <2>11. StartsKnown' /\ OncePerRecord'
    BY <2>1, <2>5, <2>6 DEF StartInv, StartsKnown, OncePerRecord
  <2>12. OldBounded'
    BY <1>1, <2>1, <2>6 DEF StartInv, OldBounded, OldStarts
  <2> QED BY <1>1, <2>10, <2>11, <2>12 DEF StartInv, CurFresh
<1>4. CASE w.op \in {"settle", "unset", "save"}
  <2>1. journal' = journal
    BY <1>4 DEF DoStep
  <2>2. DOMAIN mem'.subtasks = DOMAIN mem.subtasks /\ mem'.queue = mem.queue
    <3>1. CASE w.op = "settle"
      <4>1. mem' = SettleSubtask(mem, w.id, w.status)
        BY <3>1 DEF DoStep
      <4>2. w.id \in Nat /\ w.status \in SubtaskStatuses
        BY <1>1, <3>1 DEF HandlerWrites, Writes
      <4> HIDE DEF w
      <4> QED BY <1>1, <4>1, <4>2, SettledTask
    <3>2. CASE w.op = "unset"
      <4>1. mem' = ClearActive(mem)
        BY <3>2 DEF DoStep
      <4> QED BY <1>1, <4>1, ClearedTask
    <3>3. CASE w.op = "save"
      BY <3>3 DEF DoStep
    <3> QED BY <1>4, <3>1, <3>2, <3>3
  <2> QED BY <1>1, <2>1, <2>2, StartQuiet
<1> QED BY <1>1, <1>2, <1>3, <1>4 DEF HandlerWrites, Writes

\* The id that leaves the queue was never started.
LEMMA StartDequeue == TypeInv /\ StartInv /\ Dequeue => StartInv'
<1> SUFFICES ASSUME TypeInv, StartInv, Dequeue PROVE StartInv'
  OBVIOUS
<1>1. /\ mem' = DequeueNext(mem) /\ mem.queue # <<>> /\ cur' = Head(mem.queue)
      /\ journal' = journal /\ todo' = <<>> /\ pc' = "dequeued"
      /\ since' = since /\ starts' = starts
  BY DEF Dequeue, At, delivery
<1>2. mem'.subtasks = mem.subtasks /\ mem'.queue = Tail(mem.queue)
  BY <1>1, DequeuedTask DEF TypeInv, RecordInv, TypeOK
<1>3. mem.queue \in Seq(Nat)
  BY DEF TypeInv, RecordInv, TypeOK, Tasks
<1>4. /\ EverLogged("subtask_started")' = EverLogged("subtask_started")
      /\ Logged("subtask_started")' = Logged("subtask_started") /\ StartedIds' = StartedIds
  BY <1>1 DEF EverLogged, Logged, StartedIds
<1>5. /\ 1 \in DOMAIN mem.queue /\ cur' = mem.queue[1]
      /\ \A k \in DOMAIN mem'.queue :
           k + 1 \in DOMAIN mem.queue /\ mem'.queue[k] = mem.queue[k + 1] /\ k + 1 # 1 /\ k \in Nat
  BY <1>1, <1>2, <1>3
<1>6. cur' \notin QueueIds' /\ QueueIds' \subseteq QueueIds /\ cur' \in QueueIds
  BY <1>5 DEF StartInv, QueueFresh, QueueIds
<1>7. cur' \notin StartedIds
  BY <1>6 DEF StartInv, QueueFresh
<1>8. QueueFresh'
  <2>1. \A k, l \in DOMAIN mem'.queue : mem'.queue[k] = mem'.queue[l] => k = l
    BY <1>5 DEF StartInv, QueueFresh
  <2> QED BY <1>4, <1>6, <2>1 DEF StartInv, QueueFresh
<1>9. OldBounded'
  BY <1>1, <1>4 DEF StartInv, OldBounded, OldStarts
<1> QED BY <1>1, <1>2, <1>4, <1>6, <1>7, <1>8, <1>9 DEF StartInv, StartsKnown, CurFresh, OncePerRecord

\* The start of the current subtask is the first one logged for it.
LEMMA StartLogStarted == TypeInv /\ StartInv /\ LogStarted => StartInv'
<1> SUFFICES ASSUME TypeInv, StartInv, LogStarted PROVE StartInv'
  OBVIOUS
<1> DEFINE n == Len(journal) + 1
           e == Log("subtask_started", cur).entry
<1>1. /\ journal' = Append(journal, e) /\ mem' = mem /\ pc = "activated" /\ pc' = "handle"
      /\ journal \in Seq(Entries) /\ since' = since /\ starts' = starts /\ since \in 0 .. Len(journal)
      /\ cur \in Nat
  BY DEF LogStarted, At, TypeInv, RecordInv, TypeOK, delivery
<1>2. e.type = "subtask_started" /\ e.id = cur /\ e \in Entries
  BY <1>1 DEF Log, LogWhat, Entries, EntryTypes
<1> HIDE DEF e
<1>3. /\ Logged("subtask_started")' = Logged("subtask_started") \cup {n}
      /\ n \notin Logged("subtask_started")
      /\ journal'[n] = e /\ \A i \in Logged("subtask_started") : journal'[i] = journal[i]
  BY <1>1, <1>2 DEF EverLogged, Logged
<1>4. StartedIds' = StartedIds \cup {cur} /\ QueueIds' = QueueIds
  <2>1. QueueIds' = QueueIds
    BY <1>1 DEF QueueIds
  <2>2. StartedIds' = {journal'[i].id : i \in Logged("subtask_started")'}
    BY DEF StartedIds
  <2> HIDE DEF n
  <2>3. StartedIds' = {journal'[i].id : i \in Logged("subtask_started") \cup {n}}
    BY <1>3, <2>2
  <2>4. StartedIds' = {journal'[i].id : i \in Logged("subtask_started")} \cup {journal'[n].id}
    BY <2>3
  <2>5. StartedIds = {journal'[i].id : i \in Logged("subtask_started")}
    BY <1>3 DEF StartedIds
  <2> QED BY <1>2, <1>3, <2>1, <2>4, <2>5
<1>5. cur \notin StartedIds /\ cur \notin QueueIds /\ cur \in DOMAIN mem.subtasks
  BY <1>1 DEF StartInv, CurFresh, TypeInv, RecordInv, CurKnown
<1>6. OncePerRecord'
  <2>1. \A i \in Logged("subtask_started") : journal[i].id # cur
    BY <1>5 DEF StartedIds
  <2> HIDE DEF n
  <2> QED BY <1>2, <1>3, <2>1 DEF StartInv, OncePerRecord
<1>7. OldBounded'
  BY <1>1, <1>2, OldStartsKept DEF StartInv
<1> QED BY <1>1, <1>4, <1>5, <1>6, <1>7 DEF StartInv, StartsKnown, QueueFresh, CurFresh

\* Counting: a set of positions in the journal is finite, and one position
\* more makes it larger by at most one.
LEMMA PositionsFinite ==
  ASSUME journal \in Seq(Entries), NEW S \in SUBSET DOMAIN journal
  PROVE  IsFiniteSet(S) /\ Cardinality(S) \in Nat
<1>1. IsFiniteSet(1 .. Len(journal)) /\ DOMAIN journal = 1 .. Len(journal)
  BY FS_Interval
<1> QED BY <1>1, FS_Subset, FS_CardinalityType

\* All the starts of an id: those before the record and at most one since.
LEMMA StartsCounted == TypeInv /\ StartInv => AtMostPerDelivery
<1> SUFFICES ASSUME TypeInv, StartInv, NEW i \in EverLogged("subtask_started")
             PROVE  Cardinality({j \in EverLogged("subtask_started") : journal[j].id = journal[i].id}) <= starts
  BY DEF AtMostPerDelivery
<1> DEFINE id == journal[i].id
           all == {j \in EverLogged("subtask_started") : journal[j].id = id}
           old == OldStarts(id)
           new == {j \in Logged("subtask_started") : journal[j].id = id}
<1>1. journal \in Seq(Entries) /\ since \in Nat /\ starts \in Nat
  BY DEF TypeInv, RecordInv, TypeOK
<1>2. id \in Nat /\ i \in DOMAIN journal
  <2>1. i \in DOMAIN journal
    BY DEF EverLogged
  <2>2. journal[i] \in Entries
    BY <1>1, <2>1
  <2> QED BY <2>1, <2>2 DEF Entries
<1>3. starts >= 1
  BY <1>1, <1>2 DEF TypeInv, DeliveryInv, Unbegun
<1>4. all = old \cup new /\ old \subseteq DOMAIN journal /\ new \subseteq DOMAIN journal
  BY <1>1 DEF OldStarts, Logged, EverLogged
<1>5. \A j, k \in new : j = k
  BY DEF StartInv, OncePerRecord
<1>6. old # {} => Cardinality(old) < starts
  BY <1>2 DEF StartInv, OldBounded
<1> HIDE DEF id, all, old, new
<1>7. IsFiniteSet(old) /\ Cardinality(old) \in Nat
  BY <1>1, <1>4, PositionsFinite
<1>8. Cardinality(old) + 1 <= starts
  BY <1>1, <1>3, <1>6, <1>7, FS_EmptySet
<1>9. Cardinality(all) <= Cardinality(old) + 1
  <2>1. CASE new = {}
    BY <1>4, <1>7, <2>1
  <2>2. ASSUME NEW j \in new PROVE Cardinality(all) <= Cardinality(old) + 1
    <3>1. all = old \cup {j}
      BY <1>4, <1>5, <2>2
    <3>2. \/ Cardinality(old \cup {j}) = Cardinality(old) + 1
          \/ Cardinality(old \cup {j}) = Cardinality(old)
      BY <1>7, FS_AddElement
    <3> QED BY <1>7, <3>1, <3>2
  <2> QED BY <2>1, <2>2
<1>10. Cardinality(all) \in Nat
  BY <1>1, <1>4, PositionsFinite
<1> QED BY <1>1, <1>7, <1>8, <1>9, <1>10 DEF all, id

\* A new record: none of its subtasks was started, and what was started under
\* their ids was so for the records before it.
LEMMA StartBeginRun == TypeInv /\ StartInv /\ BeginRun => StartInv'
<1> SUFFICES ASSUME TypeInv, StartInv, BeginRun PROVE StartInv'
  OBVIOUS
<1>1. /\ mem'.queue = <<1>> /\ since' = Len(journal) /\ starts' = starts + 1
      /\ journal' = journal /\ pc' = "loop"
      /\ journal \in Seq(Entries) /\ starts \in Nat
  BY BegunTask, BegunRun DEF TypeInv, RecordInv, TypeOK
<1>2. Logged("subtask_started")' = {} /\ StartedIds' = {}
  BY <1>1 DEF Logged, EverLogged, StartedIds
<1>3. QueueFresh'
  BY <1>1, <1>2 DEF QueueFresh
<1>4. OldBounded'
  <2> SUFFICES ASSUME NEW id \in Nat, OldStarts(id)' # {}
               PROVE  Cardinality(OldStarts(id)') < starts'
    BY DEF OldBounded
  <2>1. OldStarts(id)' = {j \in EverLogged("subtask_started") : journal[j].id = id}
    BY <1>1 DEF OldStarts, EverLogged
  <2>2. PICK i \in EverLogged("subtask_started") : journal[i].id = id
    BY <2>1
  <2>3. Cardinality({j \in EverLogged("subtask_started") : journal[j].id = journal[i].id}) <= starts
    BY StartsCounted DEF AtMostPerDelivery
  <2> DEFINE S == {j \in EverLogged("subtask_started") : journal[j].id = id}
  <2>4. Cardinality(S) <= starts
    BY <2>2, <2>3
  <2>5. S \subseteq DOMAIN journal
    BY DEF EverLogged
  <2> HIDE DEF S
  <2>6. Cardinality(S) \in Nat
    BY <1>1, <2>5, PositionsFinite
  <2>7. Cardinality(S) < starts'
    BY <1>1, <2>4, <2>6
  <2> QED BY <2>1, <2>7 DEF S
<1> QED BY <1>1, <1>2, <1>3, <1>4 DEF StartInv, StartsKnown, CurFresh, OncePerRecord

\* Every step keeps the invariant of StartedOnce.
LEMMA StartStep == TypeInv /\ StartInv /\ [Next]_vars => StartInv'
<1> SUFFICES ASSUME TypeInv, StartInv, [Next]_vars PROVE StartInv'
  OBVIOUS
<1> USE DEF At, Handling
<1>a. mem \in Tasks
  BY DEF TypeInv, RecordInv, TypeOK
<1> USE DEF delivery
<1>1. CASE DoStep \/ Dequeue \/ LogStarted \/ BeginRun
  BY <1>1, StartDoStep, StartDequeue, StartLogStarted, StartBeginRun
<1>2. CASE Activate
  <2>1. mem' = MarkSubtaskActive(mem, cur) /\ cur \in Nat
    BY <1>2 DEF Activate, TypeInv, RecordInv, TypeOK
  <2>2. DOMAIN mem'.subtasks = DOMAIN mem.subtasks /\ mem'.queue = mem.queue
    BY <1>a, <2>1, ActivatedTask
  <2> QED BY <1>2, <2>2, StartQuiet DEF Activate
<1>3. CASE Deliver \/ JobEnds \/ EnterRunTask \/ LeaveLoop \/ HandleResume \/ Resume \/ CheckTimeouts
  <2>1. mem'.subtasks = mem.subtasks /\ mem'.queue = mem.queue
    BY <1>3, <1>a DEF Deliver, JobEnds, EnterRunTask, LeaveLoop, HandleResume, Resume, CheckTimeouts, Tasks
  <2>2. /\ journal' = journal /\ pc' \notin {"dequeued", "activated"}
        /\ since' = since /\ starts' = starts
    BY <1>3 DEF Deliver, JobEnds, EnterRunTask, LeaveLoop, HandleResume, Resume, CheckTimeouts
  <2> QED BY <2>1, <2>2, StartQuiet
<1>4. CASE Eval
  <2>1. ASSUME NEW d \in Replies, EvalApplied(d)
        PROVE  mem'.subtasks = mem.subtasks /\ mem'.queue = mem.queue
    <3>1. d \in Decisions /\ ~TargetStageMissing(d)
      BY <2>1 DEF EvalApplied, ValidDecision, Replies
    <3> QED BY <1>a, <2>1, <3>1, AppliedType DEF EvalApplied
  <2>2. mem'.subtasks = mem.subtasks /\ mem'.queue = mem.queue
    BY <1>4, <1>a, <2>1 DEF Eval, EvalUnparsable, EvalRejected, EvalExhausted, Tasks
  <2>3. /\ journal' = journal /\ pc' \notin {"dequeued", "activated"}
        /\ since' = since /\ starts' = starts
    BY <1>4 DEF Eval, EvalUnparsable, EvalRejected, EvalApplied, EvalExhausted
  <2> QED BY <2>2, <2>3, StartQuiet
<1>5. CASE Stage \/ RunScript
  <2>1. /\ mem' = mem /\ journal' = journal /\ pc' \notin {"dequeued", "activated"}
        /\ since' = since /\ starts' = starts
    BY <1>5 DEF Stage, StageReturns, StageThrows, RunScript, ScriptBlocked, ScriptRuns
  <2> QED BY <2>1, StartQuiet
<1>6. CASE RunTaskThrows \/ Crash
  <2>1. /\ mem' = disk /\ journal' = journal /\ pc' \notin {"dequeued", "activated"}
        /\ since' = since /\ starts' = starts
    BY <1>6 DEF RunTaskThrows, Crash, DropRun
  <2> QED BY <2>1, StartQuiet DEF TypeInv, RecordInv, Synced
<1>7. CASE Restart
  BY <1>7, StartQuiet DEF Restart, Recover
<1>8. CASE UNCHANGED vars
  BY <1>8, StartQuiet DEF vars
<1> QED BY <1>1, <1>2, <1>3, <1>4, <1>5, <1>6, <1>7, <1>8 DEF Next, WorkerStep

\* For every recipe and any number of crashes, exceptions, resumes and
\* redeliveries: since a record began, the journal holds at most one
\* subtask_started for a subtask of it, so recovery repeats no agent call and
\* no script; and in the whole journal an id is started at most once for each
\* record, that is, for each time the job was delivered.
THEOREM NoSubtaskStartedTwice == Spec => []StartedOnce
<1>1. TypeInv /\ StartInv => StartedOnce
  BY StartsCounted DEF StartInv, StartedOnce
<1> QED BY <1>1, TypeInit, TypeStep, StartInit, StartStep, PTL DEF Spec
=============================================================================
