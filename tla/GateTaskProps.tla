--------------------------- MODULE GateTaskProps ---------------------------
(***************************************************************************)
(* The properties of a gate task.                                          *)
(***************************************************************************)
EXTENDS GateTask

TypeOK ==
    /\ pc \in Places
    /\ status \in {"queued", "active", "completed", "failed"}
    /\ index \in 1 .. N \cup {1}
    /\ subtasks \in [1 .. N -> Subtasks]
    /\ outputs \in [StepIds -> 0 .. N]
    /\ context \in [StepIds -> 0 .. N]
    /\ dispatched \in [1 .. N -> Nat]
    /\ shown \in [1 .. N -> {"none", "started", "completed", "failed"}]
    /\ child \in Results \cup {"none", "running"}
    /\ timer \in BOOLEAN
    /\ buffer \in Seq(Lines) /\ awaited \in Seq(Lines)
    /\ sending \subseteq Seq(Lines)
    /\ printed \in Seq(Lines) /\ sunk \in Seq(Lines)

LinesOnce == sunk \o buffer = printed

BatcherDisposed ==
    pc \notin {"script", "flushed", "disposed"} => ~timer /\ buffer = <<>>

\* Every line a script prints reaches the sink once and in order, whichever
\* of the interval, flush and dispose drains it (stderr-batcher.ts: the
\* buffer "is drained atomically before awaiting the sink"), and when the
\* dispatch has settled, also by an exception, no timer runs on and no line is
\* left behind (subtask-dispatcher.ts, the finally block).
StderrExact == LinesOnce /\ BatcherDisposed

\* The position whose output a step finds under an id: the latest one before it.
LatestBefore(s, i) ==
    LET earlier == {j \in 1 .. i - 1 : Workflow[j] = s}
    IN  IF earlier = {} THEN 0 ELSE CHOOSE j \in earlier : \A k \in earlier : k <= j

\* A step sees the outputs of all the steps before it and of nothing else:
\* no failed attempt, its own included, leaves one (buildStepContext).
SeesEarlierOutputs ==
    pc \in {"call", "script", "flushed", "disposed"} =>
        \A s \in StepIds : context[s] = LatestBefore(s, index)

\* The attempt counter, which decides about retries, counts the calls of
\* dispatch, and a step that failed for good was called exactly as often as
\* its policy allows.
AttemptsCounted ==
    \A i \in 1 .. N :
        /\ subtasks[i].attempt = IF subtasks[i].status = "pending" THEN dispatched[i] + 1
                                 ELSE dispatched[i]
        /\ subtasks[i].status = "failed" => dispatched[i] = subtasks[i].maxRetries + 1

\* The thread shows what happened to each step: a step waiting for its retry
\* was shown as failed, and no step is shown as started that is not.
ProgressAgrees ==
    \A i \in 1 .. N :
        shown[i] = CASE subtasks[i].status = "active" -> "started"
                     [] subtasks[i].status = "pending" ->
                            IF subtasks[i].attempt = 1 THEN "none" ELSE "failed"
                     [] OTHER -> subtasks[i].status

\* The gate task implements the step machine.
Tries ==
    [i \in 1 .. N |-> IF subtasks[i].maxRetries < 0 THEN 0 ELSE subtasks[i].maxRetries + 1]

Done == Cardinality({i \in 1 .. N : subtasks[i].status = "completed"})

\* Failed attempts at the position after the ones that are done.
Failures ==
    LET i == Done + 1
    IN  IF i > N THEN 0
        ELSE subtasks[i].attempt - IF subtasks[i].status = "failed" THEN 0 ELSE 1

Machine == INSTANCE StepMachine WITH Steps <- N, tries <- Tries,
                                     status <- status, done <- Done, failures <- Failures

MachineSpec == Machine!Spec
=============================================================================
