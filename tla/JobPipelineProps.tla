-------------------------- MODULE JobPipelineProps --------------------------
(***************************************************************************)
(* The properties of the way from a message to its answer.                 *)
(***************************************************************************)
EXTENDS JobPipeline

TypeOK ==
    /\ phase \in Phases
    /\ adapter \in {"off", "on", "stopping", "stopped"}
    /\ closing \in {"open", "worker", "quit", "closed"}
    /\ shutdown \in {"none", "waiting", "complete"} /\ ownsClose \in BOOLEAN
    /\ enq \in [Tasks -> EnqStates]
    /\ active \in Tasks \cup {NoTask} /\ place \in Places
    /\ job \in [Tasks -> JobStates] /\ stalls \in [Tasks -> 0 .. MaxStalled]
    /\ ended \in [Tasks -> SUBSET Outcomes] /\ told \in [Tasks -> SUBSET Messages]
    /\ crashes \in 0 .. MaxCrashes /\ stops \in 0 .. MaxStops

\* A task the user was told is queued is in Redis, whatever stopped since
\* (enqueueAndAck acknowledges "after successful enqueue").
QueuedIsQueued == \A t \in Tasks : "queued" \in told[t] => job[t] # "none"

ToldTrue ==
    \A t \in Tasks :
        /\ "completed" \in told[t] => "completed" \in ended[t]
        /\ "failed" \in told[t] => ended[t] \cap {"completed", "failed"} # {}

CompletedIsAnswered ==
    \A t \in Tasks :
        job[t] = "completed" => "rest" \in ended[t] \/ told[t] \cap {"completed", "failed"} # {}

\* "completed" is only ever said of a task a run of which completed, "failed"
\* only of one a run of which came to an end, never of a task at rest; and Redis
\* says completed only of a job whose user got an answer or whose task came to
\* rest (createWorkerProcessor, handleWorkerError rejects when its reply fails).
ResultsTrue == ToldTrue /\ CompletedIsAnswered

\* A process that ends by itself after a shutdown holds no job: the worker is
\* closed, with its active job, before Redis is (TaskQueue.close).
CleanExit == [][phase' = "exited" => active = NoTask]_vars

Deaf == phase = "connected" /\ closing # "open" /\ shutdown = "none"
QueueEmpties ==
    (\E t \in Tasks : job[t] = "waiting") ~> (\A t \in Tasks : job[t] # "waiting") \/ Deaf

ShutdownEnds == shutdown # "none" ~> ~Running

\* The queue is worked off in the end, through crashes, signals and restarts,
\* unless it belongs to a process that a signal during startup left connected
\* with its queue closed; and a shutdown ends the process, also one that begins
\* while a job runs (TaskQueue.close, createShutdownHandler).
PipelineSettles == QueueEmpties /\ ShutdownEnds

\* A user is told that a task could not be queued only if it is not queued
\* (index.ts, the comment of enqueueAndAck).
RefusedIsNotQueued == \A t \in Tasks : "refused" \in told[t] => job[t] = "none"
=============================================================================
