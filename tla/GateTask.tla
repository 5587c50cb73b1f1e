------------------------------ MODULE GateTask ------------------------------
(***************************************************************************)
(* One gate task from the worker's call of executeTask to its return:      *)
(* the executor (src/src/executor/task-executor.ts), the dispatcher        *)
(* (subtask-dispatcher.ts) and the batcher that forwards the stderr of a   *)
(* script to the task's thread (src/src/utils/stderr-batcher.ts).          *)
(*                                                                         *)
(* The executor is sequential; what runs beside it is the child of a       *)
(* script, which prints at any time until it closes, the interval timer of *)
(* the batcher, and the sends the batcher has begun.  The code between two *)
(* awaits is one action.                                                   *)
(***************************************************************************)
EXTENDS Integers, Sequences, FiniteSets

CONSTANTS
    StepIds,     \* step definitions of the gate
    Workflow,    \* workflow.steps; a step may occur more than once
    Type,        \* execution type of each step
    Policies,    \* retryPolicy.maxRetries the steps may have; the loader checks no bound
    MaxLines     \* bound: stderr lines a script prints

N == Len(Workflow)

ASSUME GateAssumption ==
    /\ Workflow \in Seq(StepIds)
    /\ Type \in [StepIds -> {"agent", "script", "tool"}]
    /\ Policies \subseteq [StepIds -> Int]
    /\ MaxLines \in Nat

VARIABLES
    pc,          \* where executeTask is; see Places
    status,      \* task.status
    index,       \* task.currentSubtask, from 1
    subtasks,    \* status, attempt and maxRetries of each workflow position
    outputs,     \* accumulatedOutputs: step -> position it came from, 0 if absent
    context,     \* priorOutputs of the dispatch going on
    dispatched,  \* number of calls of dispatch for each position
    shown,       \* the last progress event of each position
    child,       \* the script: "none", "running" or how its promise settled
    timer,       \* the batcher's interval is set
    buffer,      \* the batcher's buffer
    sending,     \* texts whose sink call has not returned
    awaited,     \* the text the dispatcher waits for, <<>> for none
    printed,     \* lines the children printed, in order
    sunk         \* lines given to the sink, in order

executor == <<pc, status, index, subtasks, outputs, context, dispatched, shown>>
batcher == <<child, timer, buffer, sending, awaited, printed, sunk>>
vars == <<executor, batcher>>

Places == {"queued", "attempt", "call", "script", "flushed", "disposed", "returned"}
Results == {"ok", "error", "throw"}

\* A line is the position, the attempt and its number within the attempt.
Lines == (1 .. N) \X Nat \X Nat

Current == subtasks[index]

Statuses == {"pending", "active", "completed", "failed"}

Subtasks == [status: Statuses, attempt: Nat \ {0}, maxRetries: Int]

GenerateSubtasks(policy) ==
    [i \in 1 .. N |-> [status |-> "pending", attempt |-> 1,
                       maxRetries |-> policy[Workflow[i]]]]

Init ==
    /\ pc = "queued" /\ status = "queued" /\ index = 1
    /\ \E policy \in Policies : subtasks = GenerateSubtasks(policy)
    /\ outputs = [s \in StepIds |-> 0]
    /\ context = outputs
    /\ dispatched = [i \in 1 .. N |-> 0]
    /\ shown = [i \in 1 .. N |-> "none"]
    /\ child = "none" /\ timer = FALSE
    /\ buffer = <<>> /\ sending = {} /\ awaited = <<>>
    /\ printed = <<>> /\ sunk = <<>>

\* executeTask up to its loop.
Start ==
    /\ pc = "queued"
    /\ IF N = 0
       THEN status' = "completed" /\ pc' = "returned"
       ELSE status' = "active" /\ pc' = "attempt"
    /\ UNCHANGED <<index, subtasks, outputs, context, dispatched, shown, batcher>>

\* Mutant of Shown: a retry is not announced.
ShownOnce(event) ==
    IF event = "started" /\ shown[index] # "none" THEN shown ELSE [shown EXCEPT ![index] = event]

\* emitProgress; an exception of the callback is caught.
Shown(event) == [shown EXCEPT ![index] = event]

\* buildStepContext: every attempt gets a copy of its own.
PriorOutputs == outputs

\* The head of the retry loop, to the call of dispatch.  A script gets a new
\* batcher; an agent and a tool do not.
StartAttempt ==
    /\ pc = "attempt"
    /\ Current.attempt <= Current.maxRetries + 1
    /\ subtasks' = [subtasks EXCEPT ![index].status = "active"]
    /\ shown' = Shown("started")
    /\ context' = PriorOutputs
    /\ dispatched' = [dispatched EXCEPT ![index] = @ + 1]
    /\ IF Type[Workflow[index]] = "script"
       THEN pc' = "script" /\ child' = "running" /\ timer' = TRUE /\ buffer' = <<>>
       ELSE pc' = "call" /\ UNCHANGED <<child, timer, buffer>>
    /\ UNCHANGED <<status, index, outputs, sending, awaited, printed, sunk>>

\* The safety guard after the retry loop: no attempt was allowed at all.
LoopExhausted ==
    /\ pc = "attempt"
    /\ Current.attempt > Current.maxRetries + 1
    /\ status' = "failed"
    /\ pc' = "returned"
    /\ UNCHANGED <<index, subtasks, outputs, context, dispatched, shown, batcher>>

\* Mutant of Accumulated: the output is kept before its error is looked at.
AccumulatedAlways(result) == [outputs EXCEPT ![Workflow[index]] = index]

\* accumulatedOutputs after an attempt
Accumulated(result) ==
    IF result = "ok" THEN [outputs EXCEPT ![Workflow[index]] = index] ELSE outputs

\* Mutant of Completes: the last position is treated as any other.
CompletesPastEnd ==
    /\ subtasks' = [subtasks EXCEPT ![index].status = "completed"]
    /\ shown' = Shown("completed")
    /\ index' = index + 1 /\ pc' = "attempt" /\ UNCHANGED status

\* A StepOutput without an error.
Completes ==
    /\ subtasks' = [subtasks EXCEPT ![index].status = "completed"]
    /\ shown' = Shown("completed")
    /\ IF index = N
       THEN status' = "completed" /\ pc' = "returned" /\ UNCHANGED index
       ELSE index' = index + 1 /\ pc' = "attempt" /\ UNCHANGED status

\* Mutants of RetriesLeft: one attempt too few, and one too many.
RetriesLeftStrict == Current.attempt < Current.maxRetries
RetriesLeftLoop == Current.attempt <= Current.maxRetries + 1

RetriesLeft == Current.attempt <= Current.maxRetries

\* handleSubtaskFailure, for an error in the output and for an exception.
Fails ==
    /\ shown' = Shown("failed")
    /\ IF RetriesLeft
       THEN /\ subtasks' = [subtasks EXCEPT ![index].status = "pending",
                                           ![index].attempt = @ + 1]
            /\ pc' = "attempt"
            /\ UNCHANGED status
       ELSE /\ subtasks' = [subtasks EXCEPT ![index].status = "failed"]
            /\ status' = "failed"
            /\ pc' = "returned"
    /\ UNCHANGED index

\* The continuation of "await dispatch".
Settles(result) ==
    /\ IF result = "ok" THEN Completes ELSE Fails
    /\ outputs' = Accumulated(result)
    /\ UNCHANGED <<context, dispatched>>

\* The backend of an agent or the tool returned or threw.
CallSettles(result) ==
    /\ pc = "call"
    /\ Settles(result)
    /\ UNCHANGED batcher

(***************************************************************************)
(* A script and its batcher                                                *)
(***************************************************************************)
\* The lines the child of this attempt has printed.
PrintedNow ==
    {k \in DOMAIN printed : printed[k][1] = index /\ printed[k][2] = Current.attempt}

\* The child prints a line: push.
ChildPrints ==
    /\ child = "running"
    /\ Cardinality(PrintedNow) < MaxLines
    /\ LET line == <<index, Current.attempt, Len(printed) + 1>> IN
       /\ buffer' = Append(buffer, line)
       /\ printed' = Append(printed, line)
    /\ UNCHANGED <<executor, child, timer, sending, awaited, sunk>>

\* runScript settles once the child has closed; it throws if spawn does,
\* and then no child ever printed.
ChildCloses(result) ==
    /\ child = "running"
    /\ result = "throw" => PrintedNow = {}
    /\ child' = result
    /\ UNCHANGED <<executor, timer, buffer, sending, awaited, printed, sunk>>

\* Mutant of Drain: the buffer is emptied by a copy that leaves it as it was.
DrainCopying ==
    /\ buffer' = buffer
    /\ sunk' = sunk \o buffer
    /\ sending' = IF buffer = <<>> THEN sending ELSE sending \cup {buffer}

\* drainBuffer up to its await: an empty buffer sends nothing.
Drain ==
    /\ buffer' = <<>>
    /\ sunk' = sunk \o buffer
    /\ sending' = IF buffer = <<>> THEN sending ELSE sending \cup {buffer}

\* The interval fires; nobody waits for this drain.
IntervalFires ==
    /\ timer
    /\ buffer # <<>>
    /\ Drain
    /\ UNCHANGED <<executor, child, timer, awaited, printed>>

\* The sink never rejects: index.ts catches what sendReply throws.
SinkReturns(text) ==
    /\ text \in sending
    /\ sending' = sending \ {text}
    /\ UNCHANGED <<executor, child, timer, buffer, awaited, printed, sunk>>

\* await batcher.flush(), reached when runScript did not throw.
Flush ==
    /\ pc = "script"
    /\ child \in {"ok", "error"}
    /\ Drain
    /\ awaited' = buffer
    /\ pc' = "flushed"
    /\ UNCHANGED <<status, index, subtasks, outputs, context, dispatched, shown,
                   child, timer, printed>>

\* Mutant of Dispose: the interval is left set.
DisposeKeepingTimer ==
    /\ \/ pc = "script" /\ child = "throw"
       \/ pc = "flushed" /\ awaited \notin sending
    /\ Drain
    /\ awaited' = buffer
    /\ pc' = "disposed"
    /\ UNCHANGED <<status, index, subtasks, outputs, context, dispatched, shown,
                   child, timer, printed>>

\* The finally block: await batcher.dispose().
Dispose ==
    /\ \/ pc = "script" /\ child = "throw"
       \/ pc = "flushed" /\ awaited \notin sending
    /\ timer' = FALSE
    /\ Drain
    /\ awaited' = buffer
    /\ pc' = "disposed"
    /\ UNCHANGED <<status, index, subtasks, outputs, context, dispatched, shown,
                   child, printed>>

\* runSubtask returns what runScript settled with.
ScriptSettles ==
    /\ pc = "disposed"
    /\ awaited \notin sending
    /\ Settles(child)
    /\ child' = "none" /\ awaited' = <<>>
    /\ UNCHANGED <<timer, buffer, sending, printed, sunk>>

Executor == Start \/ StartAttempt \/ LoopExhausted \/ Flush \/ Dispose \/ ScriptSettles
            \/ \E result \in Results : CallSettles(result) \/ ChildCloses(result)

Next == Executor \/ ChildPrints \/ IntervalFires \/ \E text \in sending : SinkReturns(text)

Spec == Init /\ [][Next]_vars
=============================================================================
