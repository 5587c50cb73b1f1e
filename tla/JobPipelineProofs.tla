-------------------------- MODULE JobPipelineProofs --------------------------
(***************************************************************************)
(* What JobPipelineProps promises, proved for every set of tasks and every *)
(* number of crashes, signals and redeliveries.                            *)
(***************************************************************************)
EXTENDS JobPipelineProps, TLAPS

\* The processor is somewhere only while the worker holds a job.
HoldsJob == place # "idle" => active \in Tasks

\* What enqueueAndAck acknowledges is in Redis.
AckAfterAdd == \A t \in Tasks : enq[t] = "acking" => job[t] # "none"

\* The reply the processor is sending, and what it resolves with, are true of
\* the task it holds.
PlaceTrue ==
    /\ place = "completed" => "completed" \in ended[active]
    /\ place = "failed" => "failed" \in ended[active]
    /\ place = "error" => ended[active] \cap {"completed", "failed"} # {}
    /\ place = "resolve" =>
         "rest" \in ended[active] \/ told[active] \cap {"completed", "failed"} # {}

\* No job is held once close() is past the worker, or when no process runs.
ReleasedFirst ==
    /\ closing \in {"quit", "closed"} => active = NoTask
    /\ ~Running => active = NoTask

PipeInv ==
    /\ TypeOK /\ HoldsJob /\ AckAfterAdd /\ PlaceTrue /\ ReleasedFirst
    /\ QueuedIsQueued /\ ToldTrue /\ CompletedIsAnswered

\* The initial states satisfy the invariant.
LEMMA PipeInit == Init => PipeInv
<1> SUFFICES ASSUME Init PROVE PipeInv
  OBVIOUS
<1>1. TypeOK
  <2>1. /\ phase \in Phases /\ enq \in [Tasks -> EnqStates] /\ place \in Places
        /\ job \in [Tasks -> JobStates]
    BY DEF Init, Phases, EnqStates, Pending, Places, JobStates
  <2>2. stalls \in [Tasks -> 0 .. MaxStalled]
    BY PipelineAssumption DEF Init
  <2>3. ended \in [Tasks -> SUBSET Outcomes] /\ told \in [Tasks -> SUBSET Messages]
    <3>1. {} \in SUBSET Outcomes /\ {} \in SUBSET Messages
      OBVIOUS
    <3> QED BY <3>1 DEF Init
  <2>4. crashes \in 0 .. MaxCrashes /\ stops \in 0 .. MaxStops
    BY PipelineAssumption DEF Init
  <2>5. /\ adapter = "off" /\ closing = "open" /\ shutdown = "none"
        /\ ownsClose = FALSE /\ active = NoTask
    BY DEF Init
  <2> QED BY <2>1, <2>2, <2>3, <2>4, <2>5 DEF TypeOK
<1>2. HoldsJob /\ AckAfterAdd /\ PlaceTrue /\ ReleasedFirst
  BY DEF Init, HoldsJob, AckAfterAdd, PlaceTrue, ReleasedFirst, Running
<1>3. QueuedIsQueued /\ ToldTrue /\ CompletedIsAnswered
  BY DEF Init, QueuedIsQueued, ToldTrue, CompletedIsAnswered
<1> QED BY <1>1, <1>2, <1>3 DEF PipeInv

\* What a process forgets when it ends leaves Redis, and what was said, alone.
LEMMA GoneKeeps ==
  ASSUME PipeInv, NEW end \in {"exited", "down"}, Gone(end),
         UNCHANGED <<redis, ended, told>>,
         crashes' \in 0 .. MaxCrashes, stops' \in 0 .. MaxStops
  PROVE  PipeInv'
<1>1. TypeOK'
  BY DEF PipeInv, TypeOK, Gone, redis, Phases, EnqStates, Pending, Places
<1>2. HoldsJob' /\ PlaceTrue' /\ ReleasedFirst'
  BY DEF Gone, HoldsJob, PlaceTrue, ReleasedFirst
<1>3. AckAfterAdd'
  BY DEF Gone, AckAfterAdd, Pending, PipeInv, TypeOK
<1>4. QueuedIsQueued' /\ ToldTrue' /\ CompletedIsAnswered'
  BY DEF PipeInv, redis, QueuedIsQueued, ToldTrue, CompletedIsAnswered
<1> QED BY <1>1, <1>2, <1>3, <1>4 DEF PipeInv

\* The steps of enqueueAndAck.
LEMMA EnqueueKeeps ==
  ASSUME PipeInv, NEW t \in Tasks,
         \/ Message(t) \/ AckSettles(t) \/ RefusalSettles(t)
         \/ \E ok \in BOOLEAN : AddSettles(t, ok)
  PROVE  PipeInv'
<1> USE DEF PipeInv, app, worker, redis, bounds
<1>1. CASE Message(t)
  <2>1. TypeOK'
    BY <1>1 DEF Message, TypeOK, EnqStates, Pending
  <2>2. AckAfterAdd'
    BY <1>1 DEF Message, AckAfterAdd, TypeOK
  <2> QED BY <1>1, <2>1, <2>2
          DEF Message, HoldsJob, PlaceTrue, ReleasedFirst, Running, QueuedIsQueued, ToldTrue,
              CompletedIsAnswered
<1>2. ASSUME NEW ok \in BOOLEAN, AddSettles(t, ok) PROVE PipeInv'
  <2>1. TypeOK'
    BY <1>2 DEF AddSettles, Added, TypeOK, EnqStates, Pending, JobStates
  <2>2. \A u \in Tasks : /\ job[u] # "none" => job'[u] # "none"
                         /\ job'[u] = "completed" => job[u] = "completed"
    BY <1>2 DEF AddSettles, Added, TypeOK
  <2>3. AckAfterAdd'
    BY <1>2, <2>2 DEF AddSettles, Added, AckAfterAdd, TypeOK
  <2> QED BY <1>2, <2>1, <2>2, <2>3
          DEF AddSettles, HoldsJob, PlaceTrue, ReleasedFirst, Running, QueuedIsQueued, ToldTrue,
              CompletedIsAnswered
<1>3. CASE AckSettles(t)
  <2>1. TypeOK'
    BY <1>3 DEF AckSettles, Sent, NotSent, TypeOK, EnqStates, Pending, Messages
  <2>2. job[t] # "none"
    BY <1>3 DEF AckSettles, AckAfterAdd
  <2>3. AckAfterAdd' /\ QueuedIsQueued'
    BY <1>3, <2>2 DEF AckSettles, Sent, NotSent, AckAfterAdd, QueuedIsQueued, TypeOK
  <2>4. \A u \in Tasks, m \in {"completed", "failed"} : m \in told'[u] <=> m \in told[u]
    BY <1>3 DEF AckSettles, Sent, NotSent, TypeOK
  <2>5. ToldTrue' /\ CompletedIsAnswered'
    BY <1>3, <2>4 DEF AckSettles, ToldTrue, CompletedIsAnswered
  <2>6. PlaceTrue'
    BY <1>3, <2>4 DEF AckSettles, PlaceTrue, HoldsJob
  <2> QED BY <1>3, <2>1, <2>3, <2>5, <2>6
          DEF AckSettles, HoldsJob, ReleasedFirst, Running
<1>4. CASE RefusalSettles(t)
  <2>1. CASE NotSent /\ Gone("down")
    BY <1>4, <2>1, GoneKeeps DEF RefusalSettles, NotSent, TypeOK
  <2>2. CASE Sent(t, "refused") /\ enq' = [enq EXCEPT ![t] = "done"] /\ UNCHANGED <<app, worker>>
    <3>1. TypeOK'
      BY <1>4, <2>2 DEF RefusalSettles, Sent, TypeOK, EnqStates, Pending, Messages
    <3>2. AckAfterAdd'
      BY <1>4, <2>2 DEF RefusalSettles, AckAfterAdd, TypeOK
    <3>3. \A u \in Tasks, m \in {"queued", "completed", "failed"} :
            m \in told'[u] <=> m \in told[u]
      BY <2>2 DEF Sent, TypeOK
    <3>4. QueuedIsQueued' /\ ToldTrue' /\ CompletedIsAnswered'
      BY <1>4, <3>3 DEF RefusalSettles, QueuedIsQueued, ToldTrue, CompletedIsAnswered
    <3>5. PlaceTrue'
      BY <1>4, <2>2, <3>3 DEF RefusalSettles, PlaceTrue, HoldsJob
    <3> QED BY <2>2, <3>1, <3>2, <3>4, <3>5 DEF HoldsJob, ReleasedFirst, Running
  <2> QED BY <1>4, <2>1, <2>2 DEF RefusalSettles
<1> QED BY <1>1, <1>2, <1>3, <1>4

\* Startup, signals and shutdown: no job is touched but by the end of the process.
LEMMA ProcessKeeps ==
  ASSUME PipeInv,
         \/ Crash \/ StartApp \/ Connects \/ ConnectFails \/ Signal \/ FatalSignal \/ Shutdown
         \/ AdapterStops \/ CloseGoesOn \/ ShutdownCompletes \/ StartupExits \/ Exits
  PROVE  PipeInv'
<1> USE DEF PipeInv
<1>1. CASE Crash \/ FatalSignal \/ StartupExits \/ Exits
  <2>1. crashes' \in 0 .. MaxCrashes /\ stops' \in 0 .. MaxStops
    BY <1>1, PipelineAssumption DEF Crash, FatalSignal, StartupExits, Exits, TypeOK, bounds
  <2> QED BY <1>1, <2>1, GoneKeeps DEF Crash, FatalSignal, StartupExits, Exits, redis, bounds
<1>2. CASE StartApp \/ Connects \/ ConnectFails \/ Signal \/ Shutdown
           \/ AdapterStops \/ CloseGoesOn \/ ShutdownCompletes
  <2> USE DEF StartApp, Connects, ConnectFails, Signal, Shutdown, AdapterStops, CloseGoesOn,
              ShutdownCompletes, CloseBegins, ShutdownBegins
  <2>1. UNCHANGED <<enq, worker, redis, ended, told>>
    BY <1>2
  <2>2. TypeOK'
    <3>1. crashes' \in 0 .. MaxCrashes /\ stops' \in 0 .. MaxStops
      BY <1>2, PipelineAssumption DEF TypeOK, bounds
    <3>2. closing' \in {"open", "worker", "quit", "closed"}
      BY <1>2 DEF TypeOK, NextClosing
    <3>3. /\ phase' \in Phases /\ adapter' \in {"off", "on", "stopping", "stopped"}
          /\ shutdown' \in {"none", "waiting", "complete"} /\ ownsClose' \in BOOLEAN
      BY <1>2 DEF TypeOK, Phases
    <3> QED BY <2>1, <3>1, <3>2, <3>3 DEF TypeOK, worker, redis
  <2>3. ReleasedFirst'
    BY <1>2, <2>1 DEF ReleasedFirst, Running, NextClosing, TypeOK, worker, Phases
  <2> QED BY <2>1, <2>2, <2>3
          DEF worker, redis, HoldsJob, AckAfterAdd, PlaceTrue, QueuedIsQueued, ToldTrue,
              CompletedIsAnswered
<1> QED BY <1>1, <1>2

\* Taking a job, and what happens to one whose lock has expired.
LEMMA JobKeeps ==
  ASSUME PipeInv, NEW t \in Tasks, TakeJob(t) \/ JobStalls(t)
  PROVE  PipeInv'
<1> USE DEF PipeInv, app, worker, bounds
<1>1. TypeOK'
  <2>1. CASE TakeJob(t)
    BY <2>1 DEF TakeJob, TypeOK, Places, JobStates
  <2>2. CASE JobStalls(t)
    BY <2>2, PipelineAssumption DEF JobStalls, TypeOK, JobStates
  <2> QED BY <2>1, <2>2
<1>2. \A u \in Tasks : /\ job[u] # "none" => job'[u] # "none"
                       /\ job'[u] = "completed" => job[u] = "completed"
  BY DEF TakeJob, JobStalls, TypeOK
<1>3. HoldsJob' /\ PlaceTrue' /\ ReleasedFirst'
  BY DEF TakeJob, JobStalls, HoldsJob, PlaceTrue, ReleasedFirst, Running
<1> QED BY <1>1, <1>2, <1>3
        DEF TakeJob, JobStalls, AckAfterAdd, QueuedIsQueued, ToldTrue, CompletedIsAnswered

\* The processor: the end of a run, its replies, and the end of the job.
LEMMA ProcessorKeeps ==
  ASSUME PipeInv,
         \/ ReplySettles \/ JobSettles
         \/ \E outcome \in Outcomes : RunEnds(outcome)
         \/ \E sent \in BOOLEAN : ErrorReplySettles(sent)
  PROVE  PipeInv'
<1> USE DEF PipeInv, app, redis, bounds
<1>1. ASSUME NEW outcome \in Outcomes, RunEnds(outcome) PROVE PipeInv'
  <2>1. active \in Tasks
    BY <1>1 DEF RunEnds, HoldsJob
  <2>2. TypeOK'
    BY <1>1, <2>1 DEF RunEnds, Result, Outcomes, TypeOK, Places
  <2>3. \A u \in Tasks : ended[u] \subseteq ended'[u]
    BY <1>1 DEF RunEnds, TypeOK
  <2>4. PlaceTrue'
    BY <1>1, <2>1 DEF RunEnds, Result, Outcomes, PlaceTrue, TypeOK
  <2>5. ToldTrue' /\ CompletedIsAnswered'
    BY <1>1, <2>3 DEF RunEnds, ToldTrue, CompletedIsAnswered
  <2> QED BY <1>1, <2>1, <2>2, <2>4, <2>5
          DEF RunEnds, HoldsJob, AckAfterAdd, ReleasedFirst, Running, QueuedIsQueued
<1>2. CASE ReplySettles \/ \E sent \in BOOLEAN : ErrorReplySettles(sent)
  <2> USE DEF ReplySettles, ErrorReplySettles, Sent, NotSent, ErrorNext
  <2>1. active \in Tasks /\ UNCHANGED <<app, enq, active, redis, ended, bounds>>
    BY <1>2 DEF HoldsJob
  <2>2. TypeOK'
    BY <1>2, <2>1 DEF TypeOK, Places, Messages
  <2>3. \A u \in Tasks : /\ told[u] \subseteq told'[u]
                         /\ "queued" \in told'[u] => "queued" \in told[u]
                         /\ u # active => told'[u] = told[u]
    BY <1>2, <2>1 DEF TypeOK
  <2>4. PlaceTrue'
    BY <1>2, <2>1 DEF PlaceTrue, TypeOK
  <2>5. ToldTrue'
    BY <1>2, <2>1 DEF ToldTrue, PlaceTrue, TypeOK
  <2>6. QueuedIsQueued' /\ CompletedIsAnswered'
    BY <2>1, <2>3 DEF QueuedIsQueued, CompletedIsAnswered
  <2> QED BY <2>1, <2>2, <2>4, <2>5, <2>6 DEF HoldsJob, AckAfterAdd, ReleasedFirst, Running
<1>3. CASE JobSettles
  <2>1. active \in Tasks
    BY <1>3 DEF JobSettles, HoldsJob
  <2>2. TypeOK'
    BY <1>3, <2>1 DEF JobSettles, TypeOK, Places, JobStates
  <2>3. CompletedIsAnswered'
    BY <1>3, <2>1 DEF JobSettles, CompletedIsAnswered, PlaceTrue, TypeOK
  <2>4. AckAfterAdd' /\ QueuedIsQueued' /\ ToldTrue'
    BY <1>3, <2>1 DEF JobSettles, AckAfterAdd, QueuedIsQueued, ToldTrue, TypeOK
  <2> QED BY <1>3, <2>2, <2>3, <2>4 DEF JobSettles, HoldsJob, PlaceTrue, ReleasedFirst
<1> QED BY <1>1, <1>2, <1>3

\* Every step keeps the invariant.
LEMMA PipeStep == PipeInv /\ [Next]_vars => PipeInv'
<1> SUFFICES ASSUME PipeInv, [Next]_vars PROVE PipeInv'
  OBVIOUS
<1>1. CASE UNCHANGED vars
  BY <1>1 DEF vars, app, worker, redis, bounds, PipeInv, TypeOK, HoldsJob, AckAfterAdd, PlaceTrue,
              ReleasedFirst, Running, QueuedIsQueued, ToldTrue, CompletedIsAnswered
<1>2. CASE Next
  BY <1>2, EnqueueKeeps, ProcessKeeps, JobKeeps, ProcessorKeeps DEF Next, Progress
<1> QED BY <1>1, <1>2

\* The inductive invariant.
LEMMA PipeInvariant == Spec => []PipeInv
<1> QED BY PipeInit, PipeStep, PTL DEF Spec

\* The state of the process, of Redis and of the conversation has its type.
THEOREM PipeTypeCorrect == Spec => []TypeOK
<1>1. PipeInv => TypeOK
  BY DEF PipeInv
<1> QED BY <1>1, PipeInvariant, PTL

\* Whatever the process was doing when it ended, a task that the user was told
\* is queued is in Redis.
THEOREM AcknowledgedIsQueued == Spec => []QueuedIsQueued
<1>1. PipeInv => QueuedIsQueued
  BY DEF PipeInv
<1> QED BY <1>1, PipeInvariant, PTL

\* The user is told of a completion or a failure only when a run of that task
\* ended so, and a job is completed only when its user knows or it is at rest.
THEOREM AnswersTrue == Spec => []ResultsTrue
<1>1. PipeInv => ResultsTrue
  BY DEF PipeInv, ResultsTrue
<1> QED BY <1>1, PipeInvariant, PTL

\* A process that leaves by itself holds no job.
THEOREM LeavesNoJob == Spec => CleanExit
<1>1. PipeInv /\ [Next]_vars => [phase' = "exited" => active = NoTask]_vars
  <2> SUFFICES ASSUME PipeInv, Next, phase' = "exited" PROVE active = NoTask
    BY DEF vars
  <2>1. CASE Exits
    BY <2>1 DEF Exits, PipeInv, ReleasedFirst
  <2>2. CASE phase = "exited"
    BY <2>2 DEF PipeInv, ReleasedFirst, Running
  <2>3. Exits \/ phase = "exited"
    BY DEF Next, Progress, Message, AddSettles, AckSettles, RefusalSettles, TakeJob, JobStalls,
           StartApp, Connects, ConnectFails, AdapterStops, CloseGoesOn, ShutdownCompletes,
           StartupExits, ReplySettles, JobSettles, RunEnds, ErrorReplySettles, Crash, Signal,
           FatalSignal, Shutdown, ShutdownBegins, Gone, app
  <2> QED BY <2>1, <2>2, <2>3
<1> QED BY <1>1, PipeInvariant, PTL DEF Spec, CleanExit
=============================================================================
