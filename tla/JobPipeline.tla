----------------------------- MODULE JobPipeline -----------------------------
(***************************************************************************)
(* From a message to its answer: the message handler and the job processor *)
(* of src/src/index.ts, the queue of src/src/queue/task-queue.ts, startup, *)
(* signals and shutdown.  Redis, BullMQ and Slack are modelled from how    *)
(* the code uses them.  What a run does is TaskRuntime and GateTask; here  *)
(* it is one step with one outcome.                                        *)
(***************************************************************************)
EXTENDS Naturals

CONSTANTS
    Tasks,        \* tasks the messages of a behaviour create
    Recipes,      \* the ones a recipe claims; a gate matches the others
    NoTask,
    MaxStalled,   \* redeliveries of a job BullMQ allows
    MaxCrashes,   \* bound: the process dies for a reason of its own, or cannot connect
    MaxStops      \* bound: signals, and calls of the handle's shutdown

ASSUME PipelineAssumption ==
    /\ Recipes \subseteq Tasks
    /\ NoTask \notin Tasks
    /\ MaxStalled \in Nat /\ MaxCrashes \in Nat /\ MaxStops \in Nat

VARIABLES
    phase,      \* of the process; see Phases
    adapter,    \* the Slack connection
    closing,    \* how far TaskQueue.close() is
    shutdown,   \* the promise of the app's shutdown
    ownsClose,  \* that promise, or the failed startup, waits for the close going on
    enq,        \* what enqueueAndAck is doing for a task
    active,     \* the job the worker holds
    place,      \* where its processor is
    job,        \* the job in Redis
    stalls,     \* its redeliveries
    ended,      \* outcomes of the runs of a task, an exception as failed
    told,       \* what the user has been told of a task
    crashes, stops

app == <<phase, adapter, closing, shutdown, ownsClose>>
worker == <<active, place>>
redis == <<job, stalls>>
bounds == <<crashes, stops>>
vars == <<app, enq, worker, redis, ended, told, bounds>>

Phases == {"starting", "connected", "failing", "exited", "down"}
Running == phase \in {"starting", "connected", "failing"}
Pending == {"adding", "acking", "refusing"}
EnqStates == Pending \cup {"none", "done"}
\* "completed" and "failed" are the sending of that result.
Places == {"idle", "run", "completed", "failed", "error", "resolve", "reject"}
JobStates == {"none", "waiting", "active", "completed", "failed"}
\* How a run ends: "rest" is any status that has no reply, paused or aborted.
Outcomes == {"completed", "failed", "rest", "throws"}
Messages == {"queued", "refused", "completed", "failed"}

Init ==
    /\ phase = "starting" /\ adapter = "off"
    /\ closing = "open" /\ shutdown = "none" /\ ownsClose = FALSE
    /\ enq = [t \in Tasks |-> "none"]
    /\ active = NoTask /\ place = "idle"
    /\ job = [t \in Tasks |-> "none"] /\ stalls = [t \in Tasks |-> 0]
    /\ ended = [t \in Tasks |-> {}] /\ told = [t \in Tasks |-> {}]
    /\ crashes = 0 /\ stops = 0

\* A reply went through, or sending it failed; any of them may fail.
Sent(t, message) == told' = [told EXCEPT ![t] = @ \cup {message}]
NotSent == UNCHANGED told

(***************************************************************************)
(* Messages                                                                *)
(***************************************************************************)
\* A command that a recipe or a gate matches; it is not awaited.
Message(t) ==
    /\ adapter \in {"on", "stopping"}
    /\ enq[t] = "none"
    /\ enq' = [enq EXCEPT ![t] = "adding"]
    /\ UNCHANGED <<app, worker, redis, ended, told, bounds>>

\* Mutant of Added: the acknowledgement does not wait for the queue.
AddedLater(t, ok) ==
    /\ enq' = [enq EXCEPT ![t] = "acking"]
    /\ job' = [job EXCEPT ![t] = IF ok THEN "waiting" ELSE @]

\* queue.add settles: the job is in Redis, or the promise chain is at its catch.
Added(t, ok) ==
    /\ enq' = [enq EXCEPT ![t] = IF ok THEN "acking" ELSE "refusing"]
    /\ job' = [job EXCEPT ![t] = IF ok THEN "waiting" ELSE @]

AddSettles(t, ok) ==
    /\ enq[t] = "adding"
    /\ ok => closing # "closed"
    /\ Added(t, ok)
    /\ UNCHANGED <<app, worker, stalls, ended, told, bounds>>

\* The acknowledgement; if sending it fails, the catch treats that as a
\* failure to enqueue.
AckSettles(t) ==
    /\ enq[t] = "acking"
    /\ \/ Sent(t, "queued") /\ enq' = [enq EXCEPT ![t] = "done"]
       \/ NotSent /\ enq' = [enq EXCEPT ![t] = "refusing"]
    /\ UNCHANGED <<app, worker, redis, ended, bounds>>

(***************************************************************************)
(* The process                                                             *)
(***************************************************************************)
\* Everything in memory is gone.
Gone(end) ==
    /\ phase' = end
    /\ adapter' = "off" /\ closing' = "open" /\ shutdown' = "none" /\ ownsClose' = FALSE
    /\ active' = NoTask /\ place' = "idle"
    /\ enq' = [t \in Tasks |-> IF enq[t] \in Pending THEN "done" ELSE enq[t]]

\* The reply of the catch.  Nothing handles its failure, and an unhandled
\* rejection ends the process.
RefusalSettles(t) ==
    /\ enq[t] = "refusing"
    /\ \/ /\ Sent(t, "refused")
          /\ enq' = [enq EXCEPT ![t] = "done"]
          /\ UNCHANGED <<app, worker>>
       \/ NotSent /\ Gone("down")
    /\ UNCHANGED <<redis, ended, bounds>>

Crash ==
    /\ Running
    /\ crashes < MaxCrashes
    /\ crashes' = crashes + 1
    /\ Gone("down")
    /\ UNCHANGED <<redis, ended, told, stops>>

\* startApp up to "await adapter.connect()": the worker is already running.
StartApp ==
    /\ phase \in {"exited", "down"}
    /\ phase' = "starting"
    /\ UNCHANGED <<adapter, closing, shutdown, ownsClose, enq, worker, redis, ended, told, bounds>>

\* startApp goes on whatever has happened to the queue meanwhile.
Connects ==
    /\ phase = "starting"
    /\ phase' = "connected" /\ adapter' = "on"
    /\ UNCHANGED <<closing, shutdown, ownsClose, enq, worker, redis, ended, told, bounds>>

\* TaskQueue.close() up to its first await; a second call returns at once.
CloseBegins == closing' = IF closing = "open" THEN "worker" ELSE closing

ConnectFails ==
    /\ phase = "starting"
    /\ crashes < MaxCrashes
    /\ crashes' = crashes + 1
    /\ phase' = "failing" /\ adapter' = "stopping"
    /\ ownsClose' = (closing = "open")
    /\ CloseBegins
    /\ UNCHANGED <<shutdown, enq, worker, redis, ended, told, stops>>

\* The app's shutdown promise, which removes the app's signal listener.
ShutdownBegins(owns) ==
    /\ phase = "connected" /\ shutdown = "none"
    /\ shutdown' = "waiting" /\ adapter' = "stopping"
    /\ ownsClose' = owns

\* A signal: the queue's listener was registered first and runs first; each
\* listener is removed by its own first run.
Signal ==
    /\ Running
    /\ stops < MaxStops
    /\ stops' = stops + 1
    /\ closing = "open" \/ (phase = "connected" /\ shutdown = "none")
    /\ CloseBegins
    /\ \/ ShutdownBegins(FALSE)
       \/ /\ phase # "connected" \/ shutdown # "none"
          /\ UNCHANGED <<adapter, shutdown, ownsClose>>
    /\ UNCHANGED <<phase, enq, worker, redis, ended, told, crashes>>

\* A signal that has no listener left ends the process.
FatalSignal ==
    /\ Running
    /\ stops < MaxStops
    /\ stops' = stops + 1
    /\ closing # "open" /\ ~(phase = "connected" /\ shutdown = "none")
    /\ Gone("down")
    /\ UNCHANGED <<redis, ended, told, crashes>>

\* AppHandle.shutdown, called by a program that embeds the app.
Shutdown ==
    /\ stops < MaxStops
    /\ stops' = stops + 1
    /\ ShutdownBegins(closing = "open")
    /\ CloseBegins
    /\ UNCHANGED <<phase, enq, worker, redis, ended, told, crashes>>

\* app.stop() is done.
AdapterStops ==
    /\ adapter = "stopping"
    /\ adapter' = "stopped"
    /\ UNCHANGED <<phase, closing, shutdown, ownsClose, enq, worker, redis, ended, told, bounds>>

\* Mutants of NextClosing: the worker is not waited for, and it is waited for
\* until the queue is empty.
NextClosingForced == [worker |-> "quit", quit |-> "closed"]
NextClosingDrained ==
    [worker |-> IF active = NoTask /\ \A t \in Tasks : job[t] # "waiting" THEN "quit" ELSE "worker",
     quit |-> "closed"]

\* The awaits of close(): the worker with its active job, then the queue and
\* the connection to Redis.
NextClosing ==
    [worker |-> IF active = NoTask THEN "quit" ELSE "worker", quit |-> "closed"]

CloseGoesOn ==
    /\ closing \in {"worker", "quit"}
    /\ NextClosing[closing] # closing
    /\ closing' = NextClosing[closing]
    /\ UNCHANGED <<phase, adapter, shutdown, ownsClose, enq, worker, redis, ended, told, bounds>>

CloseAwaited == ownsClose => closing = "closed"

\* "Application shutdown complete" is logged and the promise resolves.
ShutdownCompletes ==
    /\ shutdown = "waiting" /\ adapter = "stopped" /\ CloseAwaited
    /\ shutdown' = "complete"
    /\ UNCHANGED <<phase, adapter, closing, ownsClose, enq, worker, redis, ended, told, bounds>>

\* startApp rejects and the main module calls process.exit(1).
StartupExits ==
    /\ phase = "failing" /\ adapter = "stopped" /\ CloseAwaited
    /\ Gone("down")
    /\ UNCHANGED <<redis, ended, told, bounds>>

\* Nothing keeps the event loop alive any more.
Exits ==
    /\ shutdown = "complete" /\ closing = "closed"
    /\ \A t \in Tasks : enq[t] \notin Pending
    /\ Gone("exited")
    /\ UNCHANGED <<redis, ended, told, bounds>>

(***************************************************************************)
(* The worker                                                              *)
(***************************************************************************)
\* BullMQ hands out one job at a time, and none once the worker closes.  The
\* processor first creates a thread (initTaskThread); whether that works
\* decides only where the replies go.
TakeJob(t) ==
    /\ Running /\ closing = "open"
    /\ active = NoTask
    /\ job[t] = "waiting"
    /\ job' = [job EXCEPT ![t] = "active"]
    /\ active' = t /\ place' = "run"
    /\ UNCHANGED <<app, enq, stalls, ended, told, bounds>>

\* The new worker finds a job whose lock has expired.
JobStalls(t) ==
    /\ Running /\ closing = "open"
    /\ job[t] = "active" /\ active # t
    /\ IF stalls[t] < MaxStalled
       THEN job' = [job EXCEPT ![t] = "waiting"] /\ stalls' = [stalls EXCEPT ![t] = @ + 1]
       ELSE job' = [job EXCEPT ![t] = "failed"] /\ UNCHANGED stalls
    /\ UNCHANGED <<app, enq, worker, ended, told, bounds>>

\* Mutants of Result: every task that was run is answered, and any status is
\* taken for one that has a message.
ResultRaw(status) == status
ResultElse(status) == IF status = "completed" THEN "completed" ELSE "failed"

\* sendTaskResultReply: the message for the status of a task, if it has one.
Result(status) == IF status \in {"completed", "failed"} THEN status ELSE "none"

\* runTask or executeTask ends, by an exception or by returning the task;
\* only runTask leaves a task at rest.
RunEnds(outcome) ==
    /\ place = "run"
    /\ outcome = "rest" => active \in Recipes
    /\ ended' = [ended EXCEPT ![active] = @ \cup {IF outcome = "throws" THEN "failed" ELSE outcome}]
    /\ place' = CASE outcome = "throws" -> "error"
                  [] outcome # "throws" /\ Result(outcome) = "none" -> "resolve"
                  [] OTHER -> Result(outcome)
    /\ UNCHANGED <<app, enq, active, redis, told, bounds>>

\* The result reply, inside the try block of the run.
ReplySettles ==
    /\ place \in {"completed", "failed"}
    /\ \/ Sent(active, place) /\ place' = "resolve"
       \/ NotSent /\ place' = "error"
    /\ UNCHANGED <<app, enq, active, redis, ended, bounds>>

\* Mutant of ErrorNext: a failed error reply is swallowed.
ErrorNextSwallowed(sent) == "resolve"

ErrorNext(sent) == IF sent THEN "resolve" ELSE "reject"

\* handleWorkerError; if its reply fails too, the processor rejects.
ErrorReplySettles(sent) ==
    /\ place = "error"
    /\ IF sent THEN Sent(active, "failed") ELSE NotSent
    /\ place' = ErrorNext(sent)
    /\ UNCHANGED <<app, enq, active, redis, ended, bounds>>

\* BullMQ records how the processor's promise settled.
JobSettles ==
    /\ place \in {"resolve", "reject"}
    /\ closing # "closed"
    /\ job' = [job EXCEPT ![active] = IF place = "resolve" THEN "completed" ELSE "failed"]
    /\ active' = NoTask /\ place' = "idle"
    /\ UNCHANGED <<app, enq, stalls, ended, told, bounds>>

\* What goes on by itself as long as the event loop runs, Redis and Slack
\* answer, and a supervisor starts the process again.
Progress ==
    \/ \E t \in Tasks : \/ AckSettles(t) \/ RefusalSettles(t) \/ TakeJob(t) \/ JobStalls(t)
                        \/ \E ok \in BOOLEAN : AddSettles(t, ok)
    \/ StartApp \/ Connects \/ ConnectFails \/ AdapterStops \/ CloseGoesOn \/ ShutdownCompletes
    \/ StartupExits \/ Exits \/ ReplySettles \/ JobSettles
    \/ \E outcome \in Outcomes : RunEnds(outcome)
    \/ \E sent \in BOOLEAN : ErrorReplySettles(sent)

Next ==
    \/ Progress
    \/ \E t \in Tasks : Message(t)
    \/ Crash \/ Signal \/ FatalSignal \/ Shutdown

Spec == Init /\ [][Next]_vars

FairSpec == Spec /\ WF_vars(Progress)
=============================================================================
