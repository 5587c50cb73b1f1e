--------------------------- MODULE GateTaskProofs ---------------------------
(***************************************************************************)
(* Proofs about GateTask for every gate, retry policy and number of lines. *)
(* GateInv is the inductive invariant: the types, where the loop index is  *)
(* valid, and how the place, the child and the batcher go together.        *)
(***************************************************************************)
EXTENDS GateTaskProps, FiniteSetTheorems, TLAPS

\* Places inside the loop over the workflow, where index names a position.
Looping == {"attempt", "call", "script", "flushed", "disposed"}

IndexValid == pc \in Looping => index \in 1 .. N

\* The child lives only while the dispatcher waits for it.
ChildPlaced ==
    /\ child = "running" => pc = "script"
    /\ pc \in {"script", "flushed", "disposed"} => child # "none"
    /\ pc = "disposed" => child # "running" /\ ~timer /\ buffer = <<>>

GateInv == TypeOK /\ IndexValid /\ ChildPlaced /\ BatcherDisposed /\ LinesOnce

\* A position's subtask may change its status, and count one attempt more.
LEMMA SubtaskType ==
  ASSUME NEW s \in [1 .. N -> Subtasks], NEW i \in 1 .. N, NEW st \in Statuses
  PROVE  /\ [s EXCEPT ![i].status = st] \in [1 .. N -> Subtasks]
         /\ [s EXCEPT ![i].status = st, ![i].attempt = @ + 1] \in [1 .. N -> Subtasks]
<1>1. s[i] \in Subtasks /\ s[i].attempt + 1 \in Nat \ {0}
  BY DEF Subtasks
<1> DEFINE a == [s[i] EXCEPT !.status = st]
           b == [s[i] EXCEPT !.status = st, !.attempt = @ + 1]
<1>2. a \in Subtasks /\ b \in Subtasks
  BY <1>1 DEF Subtasks
<1>3. [s EXCEPT ![i].status = st] = [s EXCEPT ![i] = a]
  OBVIOUS
<1>4. [s EXCEPT ![i].status = st, ![i].attempt = @ + 1] = [s EXCEPT ![i] = b]
  <2>1. [s EXCEPT ![i].status = st, ![i].attempt = @ + 1]
          = [[s EXCEPT ![i].status = st] EXCEPT ![i].attempt = @ + 1]
    OBVIOUS
  <2> QED BY <2>1, <1>1 DEF Subtasks
<1> HIDE DEF a, b
<1> QED BY <1>2, <1>3, <1>4

\* The initial states satisfy the invariant.
LEMMA GateInit == Init => GateInv
<1> SUFFICES ASSUME Init PROVE GateInv
  OBVIOUS
<1>1. N \in Nat
  BY GateAssumption DEF N
<1>2. subtasks \in [1 .. N -> Subtasks]
  <2>1. PICK policy \in Policies : subtasks = GenerateSubtasks(policy)
    BY DEF Init
  <2>2. \A i \in 1 .. N : Workflow[i] \in StepIds /\ policy[Workflow[i]] \in Int
    BY GateAssumption, <2>1 DEF N
  <2> QED BY <2>1, <2>2 DEF GenerateSubtasks, Subtasks, Statuses
<1>3. TypeOK
  <2>1. 0 \in 0 .. N /\ <<>> \in Seq(Lines)
    BY <1>1
  <2>2. outputs \in [StepIds -> 0 .. N] /\ context \in [StepIds -> 0 .. N]
    BY <2>1 DEF Init
  <2>3. /\ dispatched \in [1 .. N -> Nat]
        /\ shown \in [1 .. N -> {"none", "started", "completed", "failed"}]
    BY DEF Init
  <2>4. /\ buffer \in Seq(Lines) /\ awaited \in Seq(Lines)
        /\ sending \subseteq Seq(Lines)
        /\ printed \in Seq(Lines) /\ sunk \in Seq(Lines)
    BY <2>1 DEF Init
  <2>5. /\ pc \in Places /\ status \in {"queued", "active", "completed", "failed"}
        /\ index \in 1 .. N \cup {1}
        /\ child \in Results \cup {"none", "running"} /\ timer \in BOOLEAN
    BY DEF Init, Places
  <2> QED BY <1>2, <2>2, <2>3, <2>4, <2>5 DEF TypeOK
<1> QED BY <1>1, <1>3 DEF Init, GateInv, IndexValid, Looping, ChildPlaced, BatcherDisposed,
                         LinesOnce

\* What a drain does to the lines: none is lost, repeated or moved.
LEMMA DrainKeepsLines ==
  ASSUME TypeOK, LinesOnce, Drain, printed' = printed
  PROVE  /\ LinesOnce' /\ buffer' = <<>>
         /\ buffer' \in Seq(Lines) /\ sunk' \in Seq(Lines) /\ sending' \subseteq Seq(Lines)
<1>1. buffer \in Seq(Lines) /\ sunk \in Seq(Lines) /\ sending \subseteq Seq(Lines)
  BY DEF TypeOK
<1>2. sunk' \in Seq(Lines) /\ buffer' = <<>> /\ buffer' \in Seq(Lines)
  BY <1>1 DEF Drain
<1>3. sending' \subseteq Seq(Lines)
  BY <1>1 DEF Drain
<1>4. sunk' \o buffer' = sunk'
  BY <1>2
<1> QED BY <1>2, <1>3, <1>4 DEF LinesOnce, Drain

\* What the end of an attempt does to the executor's variables.
LEMMA SettlesKeepsType ==
  ASSUME TypeOK, pc \in Looping, IndexValid, NEW result \in Results, Settles(result)
  PROVE  /\ pc' \in {"attempt", "returned"}
         /\ status' \in {"queued", "active", "completed", "failed"}
         /\ index' \in 1 .. N
         /\ subtasks' \in [1 .. N -> Subtasks]
         /\ outputs' \in [StepIds -> 0 .. N]
         /\ context' \in [StepIds -> 0 .. N]
         /\ dispatched' \in [1 .. N -> Nat]
         /\ shown' \in [1 .. N -> {"none", "started", "completed", "failed"}]
<1>1. N \in Nat /\ index \in 1 .. N
  BY GateAssumption DEF N, IndexValid
<1>2. outputs' \in [StepIds -> 0 .. N]
  BY <1>1, GateAssumption DEF Settles, Accumulated, TypeOK, N
<1>3. context' \in [StepIds -> 0 .. N] /\ dispatched' \in [1 .. N -> Nat]
  BY DEF Settles, TypeOK
<1>4. /\ subtasks \in [1 .. N -> Subtasks]
      /\ shown \in [1 .. N -> {"none", "started", "completed", "failed"}]
      /\ status \in {"queued", "active", "completed", "failed"}
  BY DEF TypeOK
<1>5. CASE result = "ok"
  <2>1. Completes
    BY <1>5 DEF Settles
  <2>2. pc' \in {"attempt", "returned"} /\ index' \in 1 .. N
    BY <1>1, <2>1 DEF Completes
  <2>3. status' \in {"queued", "active", "completed", "failed"}
    BY <1>4, <2>1 DEF Completes
  <2>4. subtasks' \in [1 .. N -> Subtasks]
    BY <1>1, <1>4, <2>1, SubtaskType DEF Completes, Statuses
  <2>5. shown' \in [1 .. N -> {"none", "started", "completed", "failed"}]
    BY <1>4, <2>1 DEF Completes, Shown
  <2> QED BY <1>2, <1>3, <2>2, <2>3, <2>4, <2>5
<1>6. CASE result # "ok"
  <2>1. Fails
    BY <1>6 DEF Settles
  <2>2. pc' \in {"attempt", "returned"} /\ index' \in 1 .. N
    BY <1>1, <2>1 DEF Fails
  <2>3. status' \in {"queued", "active", "completed", "failed"}
    BY <1>4, <2>1 DEF Fails
  <2>4. subtasks' \in [1 .. N -> Subtasks]
    <3>1. "pending" \in Statuses /\ "failed" \in Statuses
      BY DEF Statuses
    <3>2. \/ subtasks' = [subtasks EXCEPT ![index].status = "pending",
                                         ![index].attempt = @ + 1]
          \/ subtasks' = [subtasks EXCEPT ![index].status = "failed"]
      BY <2>1 DEF Fails
    <3>3. [subtasks EXCEPT ![index].status = "failed"] \in [1 .. N -> Subtasks]
      BY <1>1, <1>4, <3>1, SubtaskType
    <3>4. [subtasks EXCEPT ![index].status = "pending", ![index].attempt = @ + 1]
            \in [1 .. N -> Subtasks]
      BY <1>1, <1>4, <3>1, SubtaskType, Zenon
    <3> QED BY <3>2, <3>3, <3>4, Zenon
  <2>5. shown' \in [1 .. N -> {"none", "started", "completed", "failed"}]
    BY <1>4, <2>1 DEF Fails, Shown
  <2> QED BY <1>2, <1>3, <2>2, <2>3, <2>4, <2>5
<1> QED BY <1>5, <1>6

\* Each step keeps the invariant.
LEMMA GateStep == GateInv /\ [Next]_vars => GateInv'
<1> SUFFICES ASSUME GateInv, [Next]_vars PROVE GateInv'
  OBVIOUS
<1> USE DEF GateInv, IndexValid, Looping, ChildPlaced, BatcherDisposed, Results
<1>0. N \in Nat /\ N' = N
  BY GateAssumption DEF N
<1>1. CASE Start
  <2>1. TypeOK'
    BY <1>0, <1>1 DEF Start, TypeOK, Places, batcher
  <2>2. N # 0 => index \in 1 .. N
    BY <1>0 DEF TypeOK
  <2> QED BY <1>0, <1>1, <2>1, <2>2 DEF Start, batcher, LinesOnce
<1>2. CASE StartAttempt
  <2>1. index \in 1 .. N /\ buffer = <<>> /\ child # "running"
    BY <1>2 DEF StartAttempt
  <2>2. TypeOK'
    <3>1. subtasks' \in [1 .. N -> Subtasks]
      <4>1. /\ subtasks \in [1 .. N -> Subtasks] /\ "active" \in Statuses
            /\ subtasks' = [subtasks EXCEPT ![index].status = "active"]
        BY <1>2 DEF StartAttempt, TypeOK, Statuses
      <4> QED BY <2>1, <4>1, SubtaskType
    <3>2. /\ dispatched' \in [1 .. N -> Nat]
          /\ shown' \in [1 .. N -> {"none", "started", "completed", "failed"}]
      BY <1>2, <2>1 DEF StartAttempt, TypeOK, Shown
    <3>3. context' \in [StepIds -> 0 .. N] /\ outputs' \in [StepIds -> 0 .. N]
      BY <1>2 DEF StartAttempt, PriorOutputs, TypeOK
    <3>4. pc' \in Places /\ child' \in Results \cup {"none", "running"} /\ timer' \in BOOLEAN
      BY <1>2 DEF StartAttempt, TypeOK, Places
    <3>5. /\ buffer' \in Seq(Lines) /\ awaited' \in Seq(Lines)
          /\ sending' \subseteq Seq(Lines)
          /\ printed' \in Seq(Lines) /\ sunk' \in Seq(Lines)
      BY <1>2 DEF StartAttempt, TypeOK
    <3>6. status' \in {"queued", "active", "completed", "failed"} /\ index' \in 1 .. N \cup {1}
      BY <1>2 DEF StartAttempt, TypeOK
    <3> QED BY <1>0, <3>1, <3>2, <3>3, <3>4, <3>5, <3>6 DEF TypeOK
  <2>3. LinesOnce'
    BY <1>2, <2>1 DEF StartAttempt, LinesOnce
  <2>4. ChildPlaced' /\ BatcherDisposed' /\ IndexValid'
    BY <1>0, <1>2, <2>1 DEF StartAttempt
  <2> QED BY <2>2, <2>3, <2>4
<1>3. CASE LoopExhausted
  <2>1. TypeOK'
    BY <1>0, <1>3 DEF LoopExhausted, TypeOK, Places, batcher
  <2> QED BY <1>3, <2>1 DEF LoopExhausted, batcher, LinesOnce
<1>4. ASSUME NEW result \in Results, CallSettles(result) PROVE GateInv'
  <2>1. pc' \in {"attempt", "returned"} /\ index' \in 1 .. N
    BY <1>4, SettlesKeepsType DEF CallSettles
  <2>2. TypeOK'
    BY <1>0, <1>4, <2>1, SettlesKeepsType DEF CallSettles, TypeOK, Places, batcher
  <2> QED BY <1>0, <1>4, <2>1, <2>2 DEF CallSettles, batcher, LinesOnce
<1>5. ASSUME NEW result \in Results, ChildCloses(result) PROVE GateInv'
  <2>1. TypeOK'
    BY <1>0, <1>5 DEF ChildCloses, TypeOK, executor
  <2> QED BY <1>0, <1>5, <2>1 DEF ChildCloses, executor, LinesOnce
<1>6. CASE ChildPrints
  <2>1. PICK line \in Lines : buffer' = Append(buffer, line) /\ printed' = Append(printed, line)
    <3>1. index \in 1 .. N /\ Len(printed) + 1 \in Nat
      BY <1>0, <1>6 DEF ChildPrints, TypeOK
    <3>2. subtasks[index] \in Subtasks
      BY <3>1 DEF TypeOK
    <3>3. Current.attempt \in Nat
      BY <3>2 DEF Current, Subtasks
    <3>4. <<index, Current.attempt, Len(printed) + 1>> \in Lines
      BY <3>1, <3>3 DEF Lines
    <3> QED BY <1>6, <3>4 DEF ChildPrints
  <2>2. buffer \in Seq(Lines) /\ printed \in Seq(Lines) /\ sunk \in Seq(Lines)
    BY DEF TypeOK
  <2>3. buffer' \in Seq(Lines) /\ printed' \in Seq(Lines)
    BY <2>1, <2>2
  <2>4. TypeOK'
    BY <1>0, <1>6, <2>3 DEF ChildPrints, TypeOK, executor
  <2>5. sunk \o Append(buffer, line) = Append(sunk \o buffer, line)
    BY <2>1, <2>2
  <2>6. LinesOnce'
    BY <1>6, <2>1, <2>5 DEF ChildPrints, LinesOnce
  <2> QED BY <1>0, <1>6, <2>4, <2>6 DEF ChildPrints, executor
<1>7. CASE IntervalFires
  <2>1. Drain /\ printed' = printed
    BY <1>7 DEF IntervalFires
  <2>2. TypeOK'
    BY <1>0, <1>7, <2>1, DrainKeepsLines DEF IntervalFires, TypeOK, executor
  <2> QED BY <1>0, <1>7, <2>1, <2>2, DrainKeepsLines DEF IntervalFires, executor
<1>8. ASSUME NEW text \in sending, SinkReturns(text) PROVE GateInv'
  <2>1. TypeOK'
    BY <1>0, <1>8 DEF SinkReturns, TypeOK, executor
  <2> QED BY <1>0, <1>8, <2>1 DEF SinkReturns, executor, LinesOnce
<1>9. CASE Flush
  <2>1. Drain /\ printed' = printed
    BY <1>9 DEF Flush
  <2>2. TypeOK'
    BY <1>0, <1>9, <2>1, DrainKeepsLines DEF Flush, TypeOK, Places
  <2> QED BY <1>0, <1>9, <2>1, <2>2, DrainKeepsLines DEF Flush
<1>10. CASE Dispose
  <2>1. Drain /\ printed' = printed
    BY <1>10 DEF Dispose
  <2>2. TypeOK'
    BY <1>0, <1>10, <2>1, DrainKeepsLines DEF Dispose, TypeOK, Places
  <2> QED BY <1>0, <1>10, <2>1, <2>2, DrainKeepsLines DEF Dispose
<1>11. CASE ScriptSettles
  <2>1. child \in Results
    BY <1>11 DEF ScriptSettles, TypeOK
  <2>2. pc' \in {"attempt", "returned"} /\ index' \in 1 .. N
    BY <1>11, <2>1, SettlesKeepsType DEF ScriptSettles
  <2>3. TypeOK'
    BY <1>0, <1>11, <2>1, <2>2, SettlesKeepsType DEF ScriptSettles, TypeOK, Places
  <2> QED BY <1>0, <1>11, <2>2, <2>3 DEF ScriptSettles, LinesOnce
<1>12. CASE UNCHANGED vars
  BY <1>12 DEF vars, executor, batcher, TypeOK, LinesOnce
<1> QED
  BY <1>1, <1>2, <1>3, <1>4, <1>5, <1>6, <1>7, <1>8, <1>9, <1>10, <1>11, <1>12
  DEF Next, Executor

\* Every variable of a gate task keeps its type.
THEOREM GateTypeCorrect == Spec => []TypeOK
<1>1. GateInv => TypeOK
  BY DEF GateInv
<1> QED BY GateInit, GateStep, <1>1, PTL DEF Spec

\* Every line a script prints reaches the sink once and in order, whichever
\* of the interval, flush and dispose drains it, and no timer and no line of a
\* batcher outlives the dispatch of its script.
THEOREM StderrReachesSink == Spec => []StderrExact
<1>1. GateInv => StderrExact
  BY DEF GateInv, StderrExact
<1> QED BY GateInit, GateStep, <1>1, PTL DEF Spec

(***************************************************************************)
(* The attempt counter                                                     *)
(***************************************************************************)
Dispatching == {"call", "script", "flushed", "disposed"}

\* While a dispatch goes on, the current position is active and the loop
\* allowed its attempt.
ActiveAllowed ==
    pc \in Dispatching => /\ subtasks[index].status = "active"
                          /\ subtasks[index].attempt <= subtasks[index].maxRetries + 1

\* Between dispatches the current position and those after it are pending.
RestPending ==
    /\ pc = "attempt" => subtasks[index].status = "pending"
    /\ pc \in Looping => \A i \in index + 1 .. N : subtasks[i].status = "pending"
    /\ pc = "queued" => \A i \in 1 .. N : subtasks[i].status = "pending"

AttemptInv == AttemptsCounted /\ ActiveAllowed /\ RestPending

\* The initial states satisfy the invariant.
LEMMA AttemptInit == Init => AttemptInv
<1> SUFFICES ASSUME Init PROVE AttemptInv
  OBVIOUS
<1>1. PICK policy \in Policies : subtasks = GenerateSubtasks(policy)
  BY DEF Init
<1>2. \A i \in 1 .. N : /\ subtasks[i].status = "pending" /\ subtasks[i].attempt = 1
                        /\ dispatched[i] = 0
  BY <1>1 DEF Init, GenerateSubtasks
<1>3. AttemptsCounted
  BY <1>2 DEF AttemptsCounted
<1> QED BY <1>2, <1>3 DEF Init, AttemptInv, ActiveAllowed, RestPending, Dispatching, Looping

\* A step that leaves the subtasks, the counters and the index alone, and
\* stays within a dispatch if it changes place at all.
LEMMA AttemptQuiet ==
  /\ AttemptInv
  /\ UNCHANGED <<subtasks, dispatched, index>>
  /\ \/ pc' = pc \/ pc' = "returned"
     \/ pc \in Dispatching /\ pc' \in Dispatching
  => AttemptInv'
<1>1. N' = N
  BY DEF N
<1> QED BY <1>1 DEF AttemptInv, AttemptsCounted, ActiveAllowed, RestPending, Dispatching, Looping

\* The end of an attempt keeps the invariant: a retry counts one attempt more,
\* and a step fails for good at its last allowed attempt.
LEMMA AttemptSettles ==
  ASSUME TypeOK, AttemptInv, pc \in Dispatching, index \in 1 .. N,
         NEW result \in Results, Settles(result)
  PROVE  AttemptInv'
<1> DEFINE sub == subtasks[index]
<1>1. N \in Nat /\ N' = N /\ index \in Nat /\ dispatched' = dispatched
  BY GateAssumption DEF N, Settles
<1>2. /\ subtasks \in [1 .. N -> Subtasks] /\ sub \in Subtasks
      /\ sub.attempt \in Nat /\ sub.maxRetries \in Int /\ dispatched[index] \in Nat
  BY <1>1 DEF TypeOK, Subtasks
<1>3. /\ sub.status = "active" /\ sub.attempt <= sub.maxRetries + 1
      /\ sub.attempt = dispatched[index]
      /\ \A i \in index + 1 .. N : subtasks[i].status = "pending"
  BY DEF AttemptInv, ActiveAllowed, AttemptsCounted, RestPending, Dispatching, Looping
<1>4. \A i \in 1 .. N : i # index => subtasks'[i] = subtasks[i]
  BY <1>1, <1>2 DEF Settles, Completes, Fails
<1>5. CASE result = "ok"
  <2>1. Completes
    BY <1>5 DEF Settles
  <2>2. /\ subtasks'[index].status = "completed" /\ subtasks'[index].attempt = sub.attempt
        /\ subtasks'[index].maxRetries = sub.maxRetries
    BY <1>2, <2>1 DEF Completes, Subtasks
  <2>3. AttemptsCounted'
    BY <1>1, <1>2, <1>3, <1>4, <2>2 DEF AttemptsCounted, AttemptInv
  <2>4. CASE index = N
    BY <2>1, <2>3, <2>4 DEF Completes, AttemptInv, ActiveAllowed, RestPending, Dispatching, Looping
  <2>5. CASE index # N
    <3>1. index' = index + 1 /\ pc' = "attempt" /\ index' \in 1 .. N
      BY <1>1, <2>1, <2>5 DEF Completes
    <3>2. \A i \in index' .. N : subtasks'[i].status = "pending"
      BY <1>1, <1>3, <1>4, <3>1
    <3>3. subtasks'[index'].status = "pending"
      BY <1>1, <3>1, <3>2
    <3> QED BY <1>1, <2>3, <3>1, <3>2, <3>3
            DEF AttemptInv, ActiveAllowed, RestPending, Dispatching, Looping
  <2> QED BY <2>4, <2>5
<1>6. CASE result # "ok"
  <2>1. Fails /\ index' = index
    BY <1>6 DEF Settles, Fails
  <2>2. \A i \in index + 1 .. N : subtasks'[i].status = "pending"
    BY <1>1, <1>3, <1>4
  <2>3. CASE RetriesLeft
    <3>1. /\ subtasks'[index].status = "pending"
          /\ subtasks'[index].attempt = sub.attempt + 1 /\ pc' = "attempt"
      BY <1>2, <2>1, <2>3 DEF Fails, Subtasks
    <3>2. AttemptsCounted'
      BY <1>1, <1>2, <1>3, <1>4, <3>1 DEF AttemptsCounted, AttemptInv
    <3> QED BY <1>1, <2>1, <2>2, <3>1, <3>2
            DEF AttemptInv, ActiveAllowed, RestPending, Dispatching, Looping
  <2>4. CASE ~RetriesLeft
    <3>1. /\ subtasks'[index].status = "failed" /\ subtasks'[index].attempt = sub.attempt
          /\ subtasks'[index].maxRetries = sub.maxRetries /\ pc' = "returned"
      BY <1>2, <2>1, <2>4 DEF Fails, Subtasks
    <3>2. sub.attempt = sub.maxRetries + 1
      BY <1>2, <1>3, <2>4 DEF RetriesLeft, Current
    <3>3. AttemptsCounted'
      BY <1>1, <1>2, <1>3, <1>4, <3>1, <3>2 DEF AttemptsCounted, AttemptInv
    <3> QED BY <3>1, <3>3 DEF AttemptInv, ActiveAllowed, RestPending, Dispatching, Looping
  <2> QED BY <2>3, <2>4
<1> QED BY <1>5, <1>6

\* Each step keeps the invariant.
LEMMA AttemptStep == GateInv /\ AttemptInv /\ [Next]_vars => AttemptInv'
<1> SUFFICES ASSUME GateInv, AttemptInv, [Next]_vars PROVE AttemptInv'
  OBVIOUS
<1>0. N \in Nat /\ N' = N
  BY GateAssumption DEF N
<1>a. TypeOK
  BY DEF GateInv
<1>1. CASE Start
  BY <1>0, <1>1 DEF Start, Init, AttemptInv, AttemptsCounted, ActiveAllowed, RestPending,
                    Dispatching, Looping, GateInv, TypeOK
<1>2. CASE StartAttempt
  <2>1. /\ pc = "attempt" /\ pc' \in Dispatching /\ index \in 1 .. N /\ index' = index
        /\ subtasks' = [subtasks EXCEPT ![index].status = "active"]
        /\ dispatched' = [dispatched EXCEPT ![index] = @ + 1]
        /\ subtasks[index].attempt <= subtasks[index].maxRetries + 1
    BY <1>2 DEF StartAttempt, Current, Dispatching, GateInv, IndexValid, Looping
  <2>2. /\ subtasks \in [1 .. N -> Subtasks] /\ subtasks[index] \in Subtasks
        /\ dispatched \in [1 .. N -> Nat]
    BY <1>a, <2>1 DEF TypeOK
  <2>3. \A i \in 1 .. N : i # index => subtasks'[i] = subtasks[i] /\ dispatched'[i] = dispatched[i]
    BY <2>1, <2>2
  <2>4. /\ subtasks'[index].status = "active"
        /\ subtasks'[index].attempt = subtasks[index].attempt
        /\ subtasks'[index].maxRetries = subtasks[index].maxRetries
        /\ dispatched'[index] = dispatched[index] + 1
    BY <2>1, <2>2 DEF Subtasks
  <2>5. subtasks[index].status = "pending" /\ subtasks[index].attempt = dispatched[index] + 1
    BY <2>1 DEF AttemptInv, RestPending, AttemptsCounted
  <2>6. AttemptsCounted'
    BY <1>0, <2>3, <2>4, <2>5 DEF AttemptInv, AttemptsCounted
  <2>7. \A i \in index + 1 .. N : subtasks'[i].status = "pending"
    <3>1. \A i \in index + 1 .. N : i \in 1 .. N /\ i # index /\ subtasks[i].status = "pending"
      BY <1>0, <2>1 DEF AttemptInv, RestPending, Looping
    <3> QED BY <2>3, <3>1
  <2> QED BY <1>0, <2>1, <2>4, <2>6, <2>7
          DEF AttemptInv, ActiveAllowed, RestPending, Dispatching, Looping
<1>3. CASE LoopExhausted
  BY <1>3, AttemptQuiet DEF LoopExhausted
<1>4. ASSUME NEW result \in Results, CallSettles(result) PROVE AttemptInv'
  <2>1. pc \in Dispatching /\ index \in 1 .. N /\ Settles(result)
    BY <1>4 DEF CallSettles, Dispatching, GateInv, IndexValid, Looping
  <2> QED BY <1>a, <2>1, AttemptSettles
<1>5. ASSUME NEW result \in Results, ChildCloses(result) PROVE AttemptInv'
  BY <1>5, AttemptQuiet DEF ChildCloses, executor
<1>6. CASE ChildPrints
  BY <1>6, AttemptQuiet DEF ChildPrints, executor
<1>7. CASE IntervalFires
  BY <1>7, AttemptQuiet DEF IntervalFires, executor
<1>8. ASSUME NEW text \in sending, SinkReturns(text) PROVE AttemptInv'
  BY <1>8, AttemptQuiet DEF SinkReturns, executor
<1>9. CASE Flush
  BY <1>9, AttemptQuiet DEF Flush, Dispatching
<1>10. CASE Dispose
  BY <1>10, AttemptQuiet DEF Dispose, Dispatching
<1>11. CASE ScriptSettles
  <2>1. pc \in Dispatching /\ index \in 1 .. N /\ Settles(child) /\ child \in Results
    BY <1>11, <1>a DEF ScriptSettles, Dispatching, GateInv, IndexValid, Looping, ChildPlaced, TypeOK
  <2> QED BY <1>a, <2>1, AttemptSettles
<1>12. CASE UNCHANGED vars
  BY <1>12, AttemptQuiet DEF vars, executor
<1> QED
  BY <1>1, <1>2, <1>3, <1>4, <1>5, <1>6, <1>7, <1>8, <1>9, <1>10, <1>11, <1>12
  DEF Next, Executor

\* The attempt counter counts the calls of dispatch, and a step that failed
\* for good was called exactly as often as its retry policy allows.
THEOREM AttemptsExact == Spec => []AttemptsCounted
<1>1. Init => GateInv /\ AttemptInv
  BY GateInit, AttemptInit
<1>2. GateInv /\ AttemptInv /\ [Next]_vars => (GateInv /\ AttemptInv)'
  BY GateStep, AttemptStep
<1>3. GateInv /\ AttemptInv => AttemptsCounted
  BY DEF AttemptInv
<1> QED BY <1>1, <1>2, <1>3, PTL DEF Spec

(***************************************************************************)
(* What the thread shows                                                   *)
(***************************************************************************)
\* A step that leaves the subtasks and the progress alone.
LEMMA ProgressQuiet == ProgressAgrees /\ UNCHANGED <<subtasks, shown>> => ProgressAgrees'
<1>1. N' = N
  BY DEF N
<1> QED BY <1>1 DEF ProgressAgrees

\* What one position must show.
ShownFor(sub) ==
    CASE sub.status = "active" -> "started"
      [] sub.status = "pending" -> IF sub.attempt = 1 THEN "none" ELSE "failed"
      [] OTHER -> sub.status

\* A step that changes one position and announces it.
LEMMA ProgressAnnounced ==
  ASSUME TypeOK, ProgressAgrees, index \in 1 .. N, NEW event, NEW sub,
         shown' = Shown(event), subtasks' = [subtasks EXCEPT ![index] = sub],
         ShownFor(sub) = event
  PROVE  ProgressAgrees'
<1>1. N' = N
  BY DEF N
<1>2. \A i \in 1 .. N : i # index => shown'[i] = shown[i] /\ subtasks'[i] = subtasks[i]
  BY DEF TypeOK, Shown
<1>3. shown'[index] = event /\ subtasks'[index] = sub
  BY DEF TypeOK, Shown
<1>4. \A i \in 1 .. N : shown[i] = ShownFor(subtasks[i])
  BY DEF ProgressAgrees, ShownFor
<1>5. \A i \in 1 .. N : shown'[i] = ShownFor(subtasks'[i])
  BY <1>2, <1>3, <1>4, Zenon
<1> QED BY <1>1, <1>5 DEF ProgressAgrees, ShownFor

\* What the end of an attempt makes of the current position: it completes,
\* waits for its next attempt, or has failed for good.
LEMMA SettlesOutcome ==
  ASSUME TypeOK, index \in 1 .. N, NEW result \in Results, Settles(result)
  PROVE  LET sub == subtasks[index]
         IN  \/ /\ result = "ok" /\ shown' = Shown("completed")
                /\ subtasks' = [subtasks EXCEPT ![index] = [sub EXCEPT !.status = "completed"]]
             \/ /\ result # "ok" /\ RetriesLeft /\ shown' = Shown("failed")
                /\ subtasks' = [subtasks EXCEPT ![index] =
                                  [sub EXCEPT !.status = "pending", !.attempt = sub.attempt + 1]]
             \/ /\ result # "ok" /\ ~RetriesLeft /\ shown' = Shown("failed")
                /\ subtasks' = [subtasks EXCEPT ![index] = [sub EXCEPT !.status = "failed"]]
<1> DEFINE sub == subtasks[index]
<1>1. subtasks \in [1 .. N -> Subtasks] /\ sub \in Subtasks
  BY DEF TypeOK
<1>2. CASE result = "ok"
  BY <1>1, <1>2 DEF Settles, Completes
<1>3. CASE result # "ok" /\ ~RetriesLeft
  BY <1>1, <1>3 DEF Settles, Fails
<1>4. CASE result # "ok" /\ RetriesLeft
  <2>1. /\ shown' = Shown("failed")
        /\ subtasks' = [subtasks EXCEPT ![index].status = "pending", ![index].attempt = @ + 1]
    BY <1>4 DEF Settles, Fails
  <2>2. subtasks' = [[subtasks EXCEPT ![index].status = "pending"] EXCEPT ![index].attempt = @ + 1]
    BY <2>1
  <2>3. subtasks' = [subtasks EXCEPT ![index] =
                      [sub EXCEPT !.status = "pending", !.attempt = sub.attempt + 1]]
    BY <1>1, <2>2 DEF Subtasks
  <2> QED BY <1>4, <2>1, <2>3
<1> QED BY <1>2, <1>3, <1>4

\* The end of an attempt shows its outcome.
LEMMA ProgressSettles ==
  ASSUME TypeOK, ProgressAgrees, index \in 1 .. N, NEW result \in Results, Settles(result)
  PROVE  ProgressAgrees'
<1> DEFINE sub == subtasks[index]
           completed == [sub EXCEPT !.status = "completed"]
           retried == [sub EXCEPT !.status = "pending", !.attempt = sub.attempt + 1]
           failed == [sub EXCEPT !.status = "failed"]
<1>1. sub \in Subtasks
  BY DEF TypeOK
<1>2. /\ ShownFor(completed) = "completed"
      /\ ShownFor(retried) = "failed"
      /\ ShownFor(failed) = "failed"
  BY <1>1 DEF ShownFor, Subtasks
<1>3. \/ shown' = Shown("completed") /\ subtasks' = [subtasks EXCEPT ![index] = completed]
      \/ shown' = Shown("failed") /\ subtasks' = [subtasks EXCEPT ![index] = retried]
      \/ shown' = Shown("failed") /\ subtasks' = [subtasks EXCEPT ![index] = failed]
  BY SettlesOutcome
<1> HIDE DEF completed, retried, failed
<1> QED BY <1>2, <1>3, ProgressAnnounced

\* Each step keeps the progress true.
LEMMA ProgressStep == GateInv /\ ProgressAgrees /\ [Next]_vars => ProgressAgrees'
<1> SUFFICES ASSUME GateInv, ProgressAgrees, [Next]_vars PROVE ProgressAgrees'
  OBVIOUS
<1>a. TypeOK
  BY DEF GateInv
<1>1. CASE StartAttempt
  <2>1. index \in 1 .. N
    BY <1>1 DEF StartAttempt, GateInv, IndexValid, Looping
  <2> DEFINE sub == [subtasks[index] EXCEPT !.status = "active"]
  <2>2. subtasks' = [subtasks EXCEPT ![index] = sub] /\ shown' = Shown("started")
    BY <1>1 DEF StartAttempt
  <2>3. ShownFor(sub) = "started"
    BY <1>a, <2>1 DEF TypeOK, Subtasks, ShownFor
  <2> HIDE DEF sub
  <2> QED BY <1>a, <2>1, <2>2, <2>3, ProgressAnnounced
<1>2. ASSUME NEW result \in Results, CallSettles(result) PROVE ProgressAgrees'
  BY <1>2, <1>a, ProgressSettles DEF CallSettles, GateInv, IndexValid, Looping
<1>3. CASE ScriptSettles
  BY <1>3, <1>a, ProgressSettles
     DEF ScriptSettles, GateInv, IndexValid, Looping, ChildPlaced, TypeOK
<1>4. CASE \/ Start \/ LoopExhausted \/ Flush \/ Dispose \/ ChildPrints \/ IntervalFires
           \/ \E result \in Results : ChildCloses(result)
           \/ \E text \in sending : SinkReturns(text)
           \/ UNCHANGED vars
  <2>1. UNCHANGED <<subtasks, shown>>
    BY <1>4 DEF Start, LoopExhausted, Flush, Dispose, ChildPrints, IntervalFires, ChildCloses,
                SinkReturns, vars, executor
  <2> QED BY <2>1, ProgressQuiet
<1> QED BY <1>1, <1>2, <1>3, <1>4 DEF Next, Executor

\* The thread shows what happened to each step, for every gate and policy: a
\* step that waits for its retry was shown as failed, and none as started
\* that is not.
THEOREM ProgressTrue == Spec => []ProgressAgrees
<1>1. Init => ProgressAgrees
  <2> SUFFICES ASSUME Init PROVE ProgressAgrees
    OBVIOUS
  <2>1. PICK policy \in Policies : subtasks = GenerateSubtasks(policy)
    BY DEF Init
  <2>2. \A i \in 1 .. N : /\ subtasks[i].status = "pending" /\ subtasks[i].attempt = 1
                          /\ shown[i] = "none"
    BY <2>1 DEF Init, GenerateSubtasks
  <2> QED BY <2>2 DEF ProgressAgrees
<1> QED BY GateInit, GateStep, <1>1, ProgressStep, PTL DEF Spec

(***************************************************************************)
(* What a step sees of the others                                          *)
(***************************************************************************)
\* Nothing is before the first position.
LEMMA NoneBeforeFirst == \A s \in StepIds : LatestBefore(s, 1) = 0
  BY DEF LatestBefore

\* One position further, the latest one is that position or the one before.
LEMMA LatestBeforeNext ==
  ASSUME NEW i \in 1 .. N, NEW s \in StepIds
  PROVE  LatestBefore(s, i + 1) = IF Workflow[i] = s THEN i ELSE LatestBefore(s, i)
<1> DEFINE E == {j \in 1 .. i - 1 : Workflow[j] = s}
           F == {j \in 1 .. (i + 1) - 1 : Workflow[j] = s}
<1>0. N \in Nat /\ i \in Nat
  BY GateAssumption DEF N
<1>1. CASE Workflow[i] = s
  <2>1. i \in F /\ \A k \in F : k \in Nat /\ k <= i
    BY <1>0, <1>1
  <2> HIDE DEF F
  <2>2. \A j \in F : (\A k \in F : k <= j) => j = i
    BY <1>0, <2>1
  <2>3. (CHOOSE j \in F : \A k \in F : k <= j) = i
    BY <2>1, <2>2
  <2>4. LatestBefore(s, i + 1) = IF F = {} THEN 0 ELSE CHOOSE j \in F : \A k \in F : k <= j
    BY DEF LatestBefore, F
  <2> QED BY <1>1, <2>1, <2>3, <2>4
<1>2. CASE Workflow[i] # s
  <2>1. E = F
    BY <1>0, <1>2
  <2>2. /\ LatestBefore(s, i + 1) = IF F = {} THEN 0 ELSE CHOOSE j \in F : \A k \in F : k <= j
        /\ LatestBefore(s, i) = IF E = {} THEN 0 ELSE CHOOSE j \in E : \A k \in E : k <= j
    BY DEF LatestBefore
  <2> HIDE DEF E, F
  <2> QED BY <1>2, <2>1, <2>2
<1> QED BY <1>1, <1>2

\* What is kept is the latest output of each step before the position.
OutputsLatest ==
    pc \in Looping \cup {"queued"} => \A s \in StepIds : outputs[s] = LatestBefore(s, index)

OutputsInv == OutputsLatest /\ SeesEarlierOutputs

\* A step that leaves the outputs, what was given of them and the index alone.
LEMMA OutputsQuiet ==
  /\ OutputsInv /\ UNCHANGED <<outputs, context, index>>
  /\ pc' = pc \/ pc' = "returned" \/ (pc \in Dispatching /\ pc' \in Dispatching)
  => OutputsInv'
  BY DEF OutputsInv, OutputsLatest, SeesEarlierOutputs, Looping, Dispatching, LatestBefore

\* The end of an attempt keeps its output if it has one, and then goes on.
LEMMA OutputsSettle ==
  ASSUME TypeOK, OutputsInv, pc \in Dispatching, index \in 1 .. N,
         NEW result \in Results, Settles(result)
  PROVE  OutputsInv'
<1>1. pc' \in {"attempt", "returned"}
  BY DEF Settles, Completes, Fails
<1>2. \A s \in StepIds : outputs[s] = LatestBefore(s, index)
  BY DEF OutputsInv, OutputsLatest, Looping, Dispatching
<1>3. ASSUME pc' = "attempt", NEW s \in StepIds PROVE outputs'[s] = LatestBefore(s, index')
  <2>1. CASE result = "ok"
    <3>1. index' = index + 1 /\ outputs' = [outputs EXCEPT ![Workflow[index]] = index]
      BY <1>3, <2>1 DEF Settles, Completes, Accumulated
    <3>2. outputs'[s] = IF Workflow[index] = s THEN index ELSE outputs[s]
      BY <3>1 DEF TypeOK
    <3> QED BY <1>2, <3>1, <3>2, LatestBeforeNext
  <2>2. CASE result # "ok"
    BY <1>2, <2>2 DEF Settles, Fails, Accumulated
  <2> QED BY <2>1, <2>2
<1>4. OutputsLatest'
  BY <1>1, <1>3 DEF OutputsLatest, Looping, LatestBefore
<1> QED BY <1>1, <1>4 DEF OutputsInv, SeesEarlierOutputs

\* Each step keeps the invariant.
LEMMA OutputsStep == GateInv /\ OutputsInv /\ [Next]_vars => OutputsInv'
<1> SUFFICES ASSUME GateInv, OutputsInv, [Next]_vars PROVE OutputsInv'
  OBVIOUS
<1>a. TypeOK
  BY DEF GateInv
<1>1. CASE Start
  BY <1>1 DEF Start, OutputsInv, OutputsLatest, SeesEarlierOutputs, Looping, LatestBefore
<1>2. CASE StartAttempt
  <2>1. \A s \in StepIds : outputs[s] = LatestBefore(s, index)
    BY <1>2 DEF StartAttempt, OutputsInv, OutputsLatest, Looping
  <2>2. UNCHANGED <<outputs, index>> /\ context' = outputs
    BY <1>2 DEF StartAttempt, PriorOutputs
  <2>3. \A s \in StepIds : outputs'[s] = LatestBefore(s, index)' /\ context'[s] = LatestBefore(s, index)'
    BY <2>1, <2>2 DEF LatestBefore
  <2> QED BY <2>3 DEF OutputsInv, OutputsLatest, SeesEarlierOutputs
<1>3. ASSUME NEW result \in Results, CallSettles(result) PROVE OutputsInv'
  BY <1>3, <1>a, OutputsSettle DEF CallSettles, GateInv, IndexValid, Looping, Dispatching
<1>4. CASE ScriptSettles
  BY <1>4, <1>a, OutputsSettle
     DEF ScriptSettles, GateInv, IndexValid, Looping, Dispatching, ChildPlaced, TypeOK
<1>5. CASE \/ LoopExhausted \/ Flush \/ Dispose \/ ChildPrints \/ IntervalFires
           \/ \E result \in Results : ChildCloses(result)
           \/ \E text \in sending : SinkReturns(text)
           \/ UNCHANGED vars
  <2>1. /\ UNCHANGED <<outputs, context, index>>
        /\ pc' = pc \/ pc' = "returned" \/ (pc \in Dispatching /\ pc' \in Dispatching)
    BY <1>5 DEF LoopExhausted, Flush, Dispose, ChildPrints, IntervalFires, ChildCloses,
                SinkReturns, vars, executor, Dispatching
  <2> QED BY <2>1, OutputsQuiet
<1> QED BY <1>1, <1>2, <1>3, <1>4, <1>5 DEF Next, Executor

\* For every workflow, also one that runs a step twice, and every policy, a
\* step sees the latest outputs of the steps before it and nothing a failed
\* attempt left.
THEOREM EarlierOutputsSeen == Spec => []SeesEarlierOutputs
<1>1. Init => OutputsInv
  BY NoneBeforeFirst DEF Init, OutputsInv, OutputsLatest, SeesEarlierOutputs, Looping
<1>2. OutputsInv => SeesEarlierOutputs
  BY DEF OutputsInv
<1> QED BY GateInit, GateStep, <1>1, <1>2, OutputsStep, PTL DEF Spec

(***************************************************************************)
(* The refinement of StepMachine                                           *)
(***************************************************************************)
\* Inside the loop the positions before the current one are completed, those
\* after it untried, and the current one has a try left unless it has none.
MachineInv ==
    /\ status = "active" <=> pc \in Looping
    /\ status = "queued" <=> pc = "queued"
    /\ pc = "queued" => index = 1
    /\ pc = "queued" => \A i \in 1 .. N : subtasks[i].attempt = 1
    /\ pc \in Looping =>
           /\ \A i \in 1 .. N : i < index => subtasks[i].status = "completed"
           /\ \A i \in 1 .. N : i > index => subtasks[i].attempt = 1
           /\ subtasks[index].attempt = 1 \/ subtasks[index].attempt <= subtasks[index].maxRetries + 1

\* It holds at the start.
LEMMA MachineInvInit == Init => MachineInv
<1> SUFFICES ASSUME Init PROVE MachineInv
  OBVIOUS
<1>1. PICK policy \in Policies : subtasks = GenerateSubtasks(policy)
  BY DEF Init
<1>2. \A i \in 1 .. N : subtasks[i].attempt = 1
  BY <1>1 DEF GenerateSubtasks
<1> QED BY <1>2 DEF Init, MachineInv, Looping

\* A step that leaves the subtasks and the index alone.
LEMMA MachineInvQuiet ==
  /\ MachineInv /\ UNCHANGED <<subtasks, index, status>>
  /\ pc' = pc \/ (pc \in Dispatching /\ pc' \in Dispatching)
  => MachineInv'
<1>1. N' = N
  BY DEF N
<1> QED BY <1>1 DEF MachineInv, Looping, Dispatching

\* The place, index and status after an attempt.
LEMMA SettlesPlace ==
  ASSUME NEW result \in Results, Settles(result)
  PROVE  \/ result = "ok" /\ index = N /\ pc' = "returned" /\ status' = "completed" /\ index' = index
         \/ result = "ok" /\ index # N /\ pc' = "attempt" /\ status' = status /\ index' = index + 1
         \/ result # "ok" /\ RetriesLeft /\ pc' = "attempt" /\ status' = status /\ index' = index
         \/ result # "ok" /\ ~RetriesLeft /\ pc' = "returned" /\ status' = "failed" /\ index' = index
BY DEF Settles, Completes, Fails

\* The end of an attempt keeps the invariant.
LEMMA MachineInvSettles ==
  ASSUME TypeOK, AttemptInv, MachineInv, pc \in Dispatching, index \in 1 .. N,
         NEW result \in Results, Settles(result)
  PROVE  MachineInv'
<1> DEFINE sub == subtasks[index]
<1>1. N \in Nat /\ N' = N /\ index \in Nat
  BY GateAssumption DEF N
<1>2. /\ subtasks \in [1 .. N -> Subtasks] /\ sub \in Subtasks
      /\ sub.attempt \in Nat /\ sub.maxRetries \in Int
  BY DEF TypeOK, Subtasks
<1>3. /\ status = "active"
      /\ \A i \in 1 .. N : i < index => subtasks[i].status = "completed"
      /\ \A i \in 1 .. N : i > index => subtasks[i].attempt = 1
  BY DEF MachineInv, Dispatching, Looping
<1>4. CASE pc' = "returned"
  BY <1>4, SettlesPlace DEF MachineInv, Looping
<1>5. CASE pc' = "attempt" /\ result = "ok"
  <2>1. /\ index # N /\ index' = index + 1 /\ status' = "active"
        /\ subtasks' = [subtasks EXCEPT ![index] = [sub EXCEPT !.status = "completed"]]
    BY <1>3, <1>5, SettlesPlace, SettlesOutcome
  <2>2. index' \in 1 .. N /\ index' > index
    BY <1>1, <2>1
  <2>3. /\ subtasks'[index].status = "completed"
        /\ \A i \in 1 .. N : i # index => subtasks'[i] = subtasks[i]
    BY <1>2, <2>1 DEF Subtasks
  <2>4. \A i \in 1 .. N : i < index' => subtasks'[i].status = "completed"
    BY <1>1, <1>3, <2>1, <2>3
  <2>5. \A i \in 1 .. N : i >= index' => subtasks'[i].attempt = 1
    BY <1>1, <1>3, <2>1, <2>3
  <2>6. /\ \A i \in 1 .. N : i > index' => subtasks'[i].attempt = 1
        /\ subtasks'[index'].attempt = 1
    BY <1>1, <2>2, <2>5
  <2> QED BY <1>1, <1>5, <2>1, <2>4, <2>6 DEF MachineInv, Looping
<1>6. CASE pc' = "attempt" /\ result # "ok"
  <2>1. /\ RetriesLeft /\ index' = index /\ status' = "active"
        /\ subtasks' = [subtasks EXCEPT ![index] =
                          [sub EXCEPT !.status = "pending", !.attempt = sub.attempt + 1]]
    BY <1>3, <1>6, SettlesPlace, SettlesOutcome
  <2>2. /\ subtasks'[index].attempt = sub.attempt + 1
        /\ subtasks'[index].maxRetries = sub.maxRetries
        /\ \A i \in 1 .. N : i # index => subtasks'[i] = subtasks[i]
    BY <1>2, <2>1 DEF Subtasks
  <2>3. sub.attempt <= sub.maxRetries
    BY <2>1 DEF RetriesLeft, Current
  <2>4. /\ \A i \in 1 .. N : i < index => subtasks'[i].status = "completed"
        /\ \A i \in 1 .. N : i > index => subtasks'[i].attempt = 1
    BY <1>1, <1>3, <2>2
  <2>5. subtasks'[index].attempt <= subtasks'[index].maxRetries + 1
    BY <1>2, <2>2, <2>3
  <2> QED BY <1>1, <1>6, <2>1, <2>4, <2>5 DEF MachineInv, Looping
<1> QED BY <1>4, <1>5, <1>6, SettlesPlace

\* Every step but the end of an attempt, the start of one and the two ends of
\* the loop leaves what the step machine sees alone.
Unseen == UNCHANGED <<subtasks, index, status>>
          /\ (pc' = pc \/ (pc \in Dispatching /\ pc' \in Dispatching))

\* Next by what it means for the step machine.
LEMMA MachineCases ==
  ASSUME GateInv, [Next]_vars
  PROVE  \/ Start \/ StartAttempt \/ LoopExhausted \/ Unseen
         \/ /\ pc \in Dispatching /\ index \in 1 .. N
            /\ \E result \in Results : Settles(result)
<1>1. ASSUME NEW result \in Results, CallSettles(result)
      PROVE  pc \in Dispatching /\ index \in 1 .. N /\ Settles(result)
  BY <1>1 DEF CallSettles, GateInv, IndexValid, Looping, Dispatching
<1>2. ASSUME ScriptSettles
      PROVE  pc \in Dispatching /\ index \in 1 .. N /\ child \in Results /\ Settles(child)
  BY <1>2 DEF ScriptSettles, GateInv, IndexValid, Looping, Dispatching, ChildPlaced, TypeOK
<1>3. CASE \/ Flush \/ Dispose \/ ChildPrints \/ IntervalFires
           \/ \E result \in Results : ChildCloses(result)
           \/ \E text \in sending : SinkReturns(text)
           \/ UNCHANGED vars
  BY <1>3 DEF Flush, Dispose, ChildPrints, IntervalFires, ChildCloses, SinkReturns,
              vars, executor, Dispatching, Unseen
<1> QED BY <1>1, <1>2, <1>3 DEF Next, Executor

\* What the start of an attempt does to its position.
LEMMA Started ==
  ASSUME TypeOK, StartAttempt, index \in 1 .. N
  PROVE  /\ subtasks'[index].status = "active"
         /\ subtasks'[index].attempt = subtasks[index].attempt
         /\ subtasks'[index].maxRetries = subtasks[index].maxRetries
         /\ \A i \in 1 .. N : i # index => subtasks'[i] = subtasks[i]
         /\ UNCHANGED <<index, status>> /\ pc' \in Dispatching
<1>1. subtasks \in [1 .. N -> Subtasks] /\ subtasks[index] \in Subtasks
  BY DEF TypeOK
<1> QED BY <1>1 DEF StartAttempt, Subtasks, Dispatching

\* Every step of the executor keeps it.
LEMMA MachineInvStep == GateInv /\ AttemptInv /\ MachineInv /\ [Next]_vars => MachineInv'
<1> SUFFICES ASSUME GateInv, AttemptInv, MachineInv, [Next]_vars PROVE MachineInv'
  OBVIOUS
<1>0. TypeOK /\ N \in Nat /\ N' = N
  BY GateAssumption DEF N, GateInv
<1>1. CASE Start
  <2>1. N > 0 => 1 \in 1 .. N
    BY <1>0
  <2> QED BY <1>0, <1>1, <2>1 DEF Start, MachineInv, Looping
<1>2. CASE StartAttempt
  <2>1. pc = "attempt" /\ pc \in Looping /\ index \in 1 .. N /\ index \in Nat
    BY <1>0, <1>2 DEF StartAttempt, GateInv, IndexValid, Looping
  <2>2. pc' \in Looping /\ pc' # "queued" /\ status = "active"
    BY <1>0, <1>2, <2>1, Started DEF Dispatching, Looping, MachineInv
  <2>3. /\ \A i \in 1 .. N : i < index => subtasks'[i].status = "completed"
        /\ \A i \in 1 .. N : i > index => subtasks'[i].attempt = 1
    BY <1>0, <1>2, <2>1, Started DEF MachineInv
  <2> QED BY <1>0, <1>2, <2>1, <2>2, <2>3, Started DEF MachineInv
<1>3. CASE LoopExhausted
  BY <1>3 DEF LoopExhausted, MachineInv, Looping
<1>4. CASE Unseen
  BY <1>4, MachineInvQuiet DEF Unseen
<1>5. ASSUME pc \in Dispatching, index \in 1 .. N, NEW result \in Results, Settles(result)
      PROVE  MachineInv'
  BY <1>0, <1>5, MachineInvSettles
<1> QED BY <1>1, <1>2, <1>3, <1>4, <1>5, MachineCases

\* So many positions are completed as the last completed one says.
LEMMA DoneCounts ==
  ASSUME NEW sub, NEW k \in 0 .. N, \A i \in 1 .. N : sub[i].status = "completed" <=> i <= k
  PROVE  Cardinality({i \in 1 .. N : sub[i].status = "completed"}) = k
<1>1. N \in Nat /\ k \in Nat
  BY GateAssumption DEF N
<1>2. {i \in 1 .. N : sub[i].status = "completed"} = 1 .. k
  BY <1>1
<1>3. Cardinality(1 .. k) = k
  BY <1>1, FS_Interval
<1> QED BY <1>2, <1>3
\* What the step machine sees inside the loop.
LEMMA InLoop ==
  ASSUME GateInv, AttemptInv, MachineInv, pc \in Looping
  PROVE  /\ index \in 1 .. N /\ Done = index - 1
         /\ Failures = subtasks[index].attempt - 1
         /\ subtasks[index].attempt \in Nat \ {0} /\ subtasks[index].maxRetries \in Int
         /\ \A i \in 1 .. N : subtasks[i].status = "completed" <=> i <= index - 1
<1>1. N \in Nat /\ index \in 1 .. N /\ index - 1 \in 0 .. N /\ index \in Nat
  BY GateAssumption DEF N, GateInv, IndexValid
<1>2. subtasks[index] \in Subtasks
  BY <1>1 DEF GateInv, TypeOK
<1>3. subtasks[index].status \in {"pending", "active"}
  BY DEF AttemptInv, ActiveAllowed, RestPending, Dispatching, Looping
<1>4. \A i \in 1 .. N : i > index => subtasks[i].status = "pending"
  BY <1>1 DEF AttemptInv, RestPending
<1>5. \A i \in 1 .. N : subtasks[i].status = "completed" <=> i <= index - 1
  <2> TAKE i \in 1 .. N
  <2>1. i < index => subtasks[i].status = "completed"
    BY DEF MachineInv
  <2> QED BY <1>1, <1>3, <1>4, <2>1
<1>6. Done = index - 1
  BY <1>1, <1>5, DoneCounts DEF Done
<1>7. Failures = subtasks[index].attempt - 1
  BY <1>1, <1>3, <1>6 DEF Failures
<1> QED BY <1>1, <1>2, <1>5, <1>6, <1>7 DEF Subtasks

\* A step that changes neither the subtasks nor the status is a stutter.
LEMMA SeenSame ==
  UNCHANGED subtasks => UNCHANGED <<Tries, Done, Failures>>
<1>1. N' = N
  BY DEF N
<1> QED BY <1>1 DEF Tries, Done, Failures

\* Nobody changes a retry policy.
LEMMA TriesSame ==
  ASSUME TypeOK, index \in 1 .. N,
         \A i \in 1 .. N : subtasks'[i].maxRetries = subtasks[i].maxRetries
  PROVE  Tries' = Tries
<1>1. N' = N
  BY DEF N
<1> QED BY <1>1 DEF Tries

mvars == <<Tries, status, Done, Failures>>

\* An attempt that succeeds, or fails with or without a try left.
LEMMA MachineSettles ==
  ASSUME GateInv, AttemptInv, MachineInv, pc \in Dispatching, index \in 1 .. N,
         NEW result \in Results, Settles(result)
  PROVE  Machine!Succeed \/ Machine!Fail
<1> DEFINE sub == subtasks[index]
<1>1. N \in Nat /\ N' = N /\ index \in Nat /\ pc \in Looping
  BY GateAssumption DEF N, Dispatching, Looping
<1>2. /\ Done = index - 1 /\ Failures = sub.attempt - 1
      /\ sub.attempt \in Nat \ {0} /\ sub.maxRetries \in Int
      /\ \A i \in 1 .. N : subtasks[i].status = "completed" <=> i <= index - 1
  BY <1>1, InLoop
<1>3. /\ sub.attempt <= sub.maxRetries + 1 /\ status = "active"
      /\ \A i \in 1 .. N : i > index => subtasks[i].attempt = 1 /\ subtasks[i].status = "pending"
  BY <1>1 DEF AttemptInv, ActiveAllowed, RestPending, MachineInv, Dispatching, Looping
<1>4. subtasks \in [1 .. N -> Subtasks] /\ sub \in Subtasks
  BY DEF GateInv, TypeOK
<1>5. Tries[Done + 1] = sub.maxRetries + 1 /\ Failures < Tries[Done + 1]
  <2>1. Done + 1 = index
    BY <1>1, <1>2
  <2>2. Tries[index] = IF sub.maxRetries < 0 THEN 0 ELSE sub.maxRetries + 1
    BY DEF Tries
  <2> QED BY <1>2, <1>3, <2>1, <2>2
<1>6. CASE result = "ok"
  <2>1. subtasks' = [subtasks EXCEPT ![index] = [sub EXCEPT !.status = "completed"]]
    BY <1>6, SettlesOutcome DEF GateInv
  <2>2. /\ subtasks'[index].status = "completed" /\ subtasks'[index].maxRetries = sub.maxRetries
        /\ \A i \in 1 .. N : i # index => subtasks'[i] = subtasks[i]
    BY <1>4, <2>1 DEF Subtasks
  <2>3. \A i \in 1 .. N : subtasks'[i].status = "completed" <=> i <= index
    BY <1>1, <1>2, <2>2
  <2>4. Done' = index
    BY <1>1, <2>3, DoneCounts DEF Done
  <2>5. Tries' = Tries
    BY <2>2, TriesSame DEF GateInv
  <2>6. CASE index = N
    <3>1. status' = "completed" /\ Failures' = 0
      BY <1>1, <1>6, <2>4, <2>6, SettlesPlace DEF Failures
    <3> QED BY <1>2, <1>3, <1>5, <2>4, <2>5, <2>6, <3>1 DEF Machine!Succeed
  <2>7. CASE index # N
    <3>1. status' = "active"
      BY <1>3, <1>6, <2>7, SettlesPlace
    <3>2. index + 1 \in 1 .. N /\ subtasks'[index + 1] = subtasks[index + 1]
          /\ subtasks[index + 1].attempt = 1 /\ subtasks[index + 1].status = "pending"
      BY <1>1, <1>3, <2>2, <2>7
    <3>3. Failures' = 0
      BY <1>1, <2>4, <3>2 DEF Failures
    <3> QED BY <1>1, <1>2, <1>3, <1>5, <2>4, <2>5, <2>7, <3>1, <3>3 DEF Machine!Succeed
  <2> QED BY <2>6, <2>7
<1>7. CASE result # "ok"
  <2> DEFINE retried == [sub EXCEPT !.status = "pending", !.attempt = sub.attempt + 1]
             failed == [sub EXCEPT !.status = "failed"]
  <2>1. \/ /\ RetriesLeft /\ status' = status
           /\ subtasks' = [subtasks EXCEPT ![index] = retried]
        \/ /\ ~RetriesLeft /\ status' = "failed"
           /\ subtasks' = [subtasks EXCEPT ![index] = failed]
    BY <1>7, SettlesOutcome, SettlesPlace DEF GateInv
  <2>2. /\ retried.status = "pending" /\ retried.attempt = sub.attempt + 1
        /\ retried.maxRetries = sub.maxRetries
        /\ failed.status = "failed" /\ failed.attempt = sub.attempt
        /\ failed.maxRetries = sub.maxRetries
    BY <1>4 DEF Subtasks
  <2> HIDE DEF retried, failed
  <2>3. /\ \A i \in 1 .. N : i # index => subtasks'[i] = subtasks[i]
        /\ subtasks'[index].maxRetries = sub.maxRetries
        /\ RetriesLeft => /\ subtasks'[index].status = "pending"
                          /\ subtasks'[index].attempt = sub.attempt + 1
        /\ ~RetriesLeft => /\ subtasks'[index].status = "failed"
                           /\ subtasks'[index].attempt = sub.attempt
    BY <1>4, <2>1, <2>2
  <2>4. \A i \in 1 .. N : subtasks'[i].status = "completed" <=> i <= index - 1
    BY <1>1, <1>2, <2>3
  <2>5. Done' = index - 1
    <3>1. index - 1 \in 0 .. N
      BY <1>1
    <3> QED BY <1>1, <2>4, <3>1, DoneCounts DEF Done
  <2>6. Tries' = Tries
    BY <2>3, TriesSame DEF GateInv
  <2>7. Failures' = sub.attempt
    BY <1>1, <1>2, <2>3, <2>5 DEF Failures
  <2>8. status' = IF sub.attempt = sub.maxRetries + 1 THEN "failed" ELSE "active"
    BY <1>2, <1>3, <2>1 DEF RetriesLeft, Current
  <2> QED BY <1>2, <1>3, <1>5, <2>5, <2>6, <2>7, <2>8 DEF Machine!Fail
<1> QED BY <1>6, <1>7

\* Every step of the gate task is a step of the step machine or a stutter.
LEMMA MachineStep ==
  GateInv /\ AttemptInv /\ MachineInv /\ [Next]_vars => [Machine!Next]_mvars
<1> SUFFICES ASSUME GateInv, AttemptInv, MachineInv, [Next]_vars PROVE [Machine!Next]_mvars
  OBVIOUS
<1>0. TypeOK /\ N \in Nat /\ N' = N
  BY GateAssumption DEF N, GateInv
<1>1. CASE Start
  <2>1. UNCHANGED <<Tries, Done, Failures>>
    BY <1>1, SeenSame DEF Start
  <2> QED BY <1>1, <2>1 DEF Start, Machine!Start, Machine!Next, MachineInv
<1>2. CASE StartAttempt
  <2>1. pc \in Looping
    BY <1>2 DEF StartAttempt, Looping
  <2>2. /\ index \in 1 .. N /\ Done = index - 1 /\ Failures = subtasks[index].attempt - 1
        /\ \A i \in 1 .. N : subtasks[i].status = "completed" <=> i <= index - 1
    BY <2>1, InLoop
  <2>3. /\ subtasks'[index].status = "active"
        /\ subtasks'[index].attempt = subtasks[index].attempt
        /\ subtasks'[index].maxRetries = subtasks[index].maxRetries
        /\ \A i \in 1 .. N : i # index => subtasks'[i] = subtasks[i]
        /\ status' = status
    BY <1>0, <1>2, <2>2, Started
  <2>4. \A i \in 1 .. N : subtasks'[i].status = "completed" <=> i <= index - 1
    BY <1>0, <2>2, <2>3
  <2>5. Done' = index - 1
    <3>1. index - 1 \in 0 .. N
      BY <1>0, <2>2
    <3> QED BY <1>0, <2>4, <3>1, DoneCounts DEF Done
  <2>6. Failures' = subtasks[index].attempt - 1
    BY <1>0, <2>2, <2>3, <2>5 DEF Failures
  <2>7. Tries' = Tries
    BY <1>0, <2>2, <2>3, TriesSame
  <2> QED BY <2>2, <2>3, <2>5, <2>6, <2>7 DEF mvars
<1>3. CASE LoopExhausted
  <2>1. pc \in Looping /\ UNCHANGED <<Tries, Done, Failures>> /\ status' = "failed"
    BY <1>3, SeenSame DEF LoopExhausted, Looping
  <2>2. /\ index \in 1 .. N /\ Done = index - 1 /\ subtasks[index].attempt \in Nat \ {0}
        /\ subtasks[index].maxRetries \in Int
    BY <2>1, InLoop
  <2>3. subtasks[index].maxRetries < 0
    BY <1>3, <2>1, <2>2 DEF LoopExhausted, Current, MachineInv
  <2>4. Tries[Done + 1] = 0
    <3>1. Tries[index] = 0 /\ Done + 1 = index
      BY <2>2, <2>3 DEF Tries
    <3> QED BY <3>1
  <2>5. status = "active"
    BY <2>1 DEF MachineInv
  <2> QED BY <2>1, <2>4, <2>5 DEF Machine!Refuse, Machine!Next
<1>4. CASE Unseen
  BY <1>4, SeenSame DEF Unseen, mvars
<1>5. ASSUME pc \in Dispatching, index \in 1 .. N, NEW result \in Results, Settles(result)
      PROVE  Machine!Next
  BY <1>5, MachineSettles DEF Machine!Next
<1> QED BY <1>1, <1>2, <1>3, <1>4, <1>5, MachineCases

\* The gate task starts as the step machine does.
LEMMA MachineInit == Init => Machine!Init
<1> SUFFICES ASSUME Init PROVE Machine!Init
  OBVIOUS
<1>1. N \in Nat
  BY GateAssumption DEF N
<1>2. PICK policy \in Policies : subtasks = GenerateSubtasks(policy)
  BY DEF Init
<1>3. \A i \in 1 .. N : /\ subtasks[i].status = "pending" /\ subtasks[i].attempt = 1
                        /\ subtasks[i].maxRetries \in Int
  <2>1. \A i \in 1 .. N : Workflow[i] \in StepIds /\ policy[Workflow[i]] \in Int
    BY GateAssumption, <1>2 DEF N
  <2> QED BY <1>2, <2>1 DEF GenerateSubtasks
<1>4. Tries \in [1 .. N -> Nat]
  BY <1>1, <1>3 DEF Tries
<1>5. Done = 0
  <2>1. 0 \in 0 .. N /\ \A i \in 1 .. N : subtasks[i].status = "completed" <=> i <= 0
    BY <1>1, <1>3
  <2> QED BY <2>1, DoneCounts DEF Done
<1>6. Failures = 0
  BY <1>1, <1>3, <1>5 DEF Failures
<1> QED BY <1>4, <1>5, <1>6 DEF Init, Machine!Init

\* A gate task implements the step machine: for every workflow and policy, its
\* steps are done in order, each tried at most as often as its policy allows,
\* and it is completed exactly when all of them are done.
THEOREM ImplementsStepMachine == Spec => MachineSpec
<1>1. Init => GateInv /\ AttemptInv /\ MachineInv
  BY GateInit, AttemptInit, MachineInvInit
<1>2. GateInv /\ AttemptInv /\ MachineInv /\ [Next]_vars => (GateInv /\ AttemptInv /\ MachineInv)'
  BY GateStep, AttemptStep, MachineInvStep
<1> QED BY <1>1, <1>2, MachineInit, MachineStep, PTL DEF Spec, MachineSpec, Machine!Spec, mvars
=============================================================================
