------------------------- MODULE TaskOutcomeProofs -------------------------
(***************************************************************************)
(* Proofs about what TaskRuntime leaves behind, for every recipe, script   *)
(* registry and budget: how the durable status moves, what the budgets     *)
(* count, and how the journal, the queue and task.json fit together after  *)
(* any number of crashes.  Each invariant relates the record in memory,    *)
(* the record on disk and the journal to the writes still to be made.      *)
(***************************************************************************)
EXTENDS TaskRuntimeProofs

(***************************************************************************)
(* Places in a list of writes                                              *)
(***************************************************************************)
\* Where a list of writes has an operation of one kind, ...
Places(s, op) == {k \in DOMAIN s : s[k].op = op}

\* ... and where it logs an entry of one type.
LogPlaces(s, type) == {k \in Places(s, "log") : s[k].entry.type = type}

\* The writes before place k only log: none of them saves the record.
OnlyLogsBefore(s, k) == \A j \in DOMAIN s : j < k => s[j].op = "log"

\* What the constructors of writes contain.
LEMMA WriteFields ==
  /\ \A type, id, what : /\ LogWhat(type, id, what).op = "log"
                         /\ LogWhat(type, id, what).entry.type = type
                         /\ LogWhat(type, id, what).entry.id = id
                         /\ LogWhat(type, id, what).entry.what = what
  /\ \A type, id : /\ Log(type, id).op = "log"
                   /\ Log(type, id).entry.type = type /\ Log(type, id).entry.id = id
                   /\ Log(type, id).entry.what = None
  /\ \A sub : Enqueue(sub).op = "enqueue" /\ Enqueue(sub).sub = sub
  /\ \A id, status : /\ Settle(id, status).op = "settle"
                     /\ Settle(id, status).id = id /\ Settle(id, status).status = status
  /\ Save.op = "save" /\ Unset.op = "unset"
  BY DEF LogWhat, Log, Enqueue, Settle, Save, Unset

\* The fields of a new subtask.
LEMMA NewSubtaskFields ==
  \A kind, stage, script, input :
    /\ NewSubtask(kind, stage, script, input).kind = kind
    /\ NewSubtask(kind, stage, script, input).stage = stage
    /\ NewSubtask(kind, stage, script, input).status = "pending"
    /\ NewSubtask(kind, stage, script, input).input = input
  BY DEF NewSubtask

(***************************************************************************)
(* Fields of the task record                                               *)
(***************************************************************************)
\* The fields that the operations on subtasks leave alone.
Rest(t) == <<t.status, t.stage, t.total, t.retries, t.human>>

\* A change of status of one subtask changes nothing else of any subtask.
LEMMA MarkedFields ==
  ASSUME NEW t \in Tasks, NEW id \in Nat, NEW status \in SubtaskStatuses, NEW active \in Nat,
         NEW m, m = MarkSubtask(t, id, status, active)
  PROVE  /\ DOMAIN m.subtasks = DOMAIN t.subtasks
         /\ Len(m.subtasks) = Len(t.subtasks)
         /\ m.active = active /\ m.queue = t.queue /\ Rest(m) = Rest(t)
         /\ \A i \in DOMAIN t.subtasks :
              /\ m.subtasks[i].kind = t.subtasks[i].kind
              /\ m.subtasks[i].stage = t.subtasks[i].stage
              /\ m.subtasks[i].input = t.subtasks[i].input
              /\ i = id => m.subtasks[i].status = status
              /\ i # id => m.subtasks[i].status = t.subtasks[i].status
<1> DEFINE u == [t.subtasks EXCEPT ![id].status = status]
<1>1. t.subtasks \in Seq(Subtasks) /\ DOMAIN t.subtasks = 1 .. Len(t.subtasks)
  BY DEF Tasks
<1>2. m.subtasks = u /\ m.active = active /\ m.queue = t.queue /\ Rest(m) = Rest(t)
  <2>1. m = [t EXCEPT !.subtasks = u, !.active = active]
    BY DEF MarkSubtask, Tasks
  <2> HIDE DEF u
  <2> QED BY <2>1 DEF Tasks, Rest
<1>3. DOMAIN u = DOMAIN t.subtasks
  OBVIOUS
<1>4. \A i \in DOMAIN t.subtasks :
         /\ i = id => u[i] = [t.subtasks[i] EXCEPT !.status = status]
         /\ i # id => u[i] = t.subtasks[i]
         /\ t.subtasks[i] \in Subtasks
  BY <1>1
<1>5. Len(m.subtasks) = Len(t.subtasks)
  <2>1. m.subtasks \in Seq(Subtasks)
    BY MarkedTask DEF Tasks
  <2> HIDE DEF u
  <2> QED BY <1>1, <1>2, <1>3, <2>1
<1>6. ASSUME NEW i \in DOMAIN t.subtasks
      PROVE  /\ u[i].kind = t.subtasks[i].kind /\ u[i].stage = t.subtasks[i].stage
             /\ u[i].input = t.subtasks[i].input
             /\ i = id => u[i].status = status
             /\ i # id => u[i].status = t.subtasks[i].status
  <2> DEFINE v == u[i]
             w == t.subtasks[i]
  <2>1. w \in Subtasks /\ (i = id => v = [w EXCEPT !.status = status]) /\ (i # id => v = w)
    BY <1>4
  <2> HIDE DEF v, w, u
  <2>2. /\ v.kind = w.kind /\ v.stage = w.stage /\ v.input = w.input
        /\ i = id => v.status = status
        /\ i # id => v.status = w.status
    BY <2>1 DEF Subtasks
  <2> QED BY <2>2 DEF v, w
<1> HIDE DEF u
<1> QED BY <1>2, <1>3, <1>5, <1>6

\* enqueueSubtask changes the subtasks and the queue only.
LEMMA EnqueuedFields ==
  ASSUME NEW t \in Tasks, NEW sub \in Subtasks
  PROVE  Rest(EnqueueSubtask(t, sub)) = Rest(t)
<1> DEFINE s == Append(t.subtasks, sub)
           q == Append(t.queue, NextId(t))
<1>1. EnqueueSubtask(t, sub) = [t EXCEPT !.subtasks = s, !.queue = q]
  BY DEF EnqueueSubtask, Tasks
<1> HIDE DEF s, q
<1> QED BY <1>1 DEF Tasks, Rest

(***************************************************************************)
(* One write                                                               *)
(***************************************************************************)
\* The writes that remain after the first one.
LEMMA Shifted ==
  ASSUME TypeInv, DoStep
  PROVE  /\ todo # <<>> /\ 1 \in DOMAIN todo /\ todo[1] \in HandlerWrites
         /\ \A k \in DOMAIN todo' :
              k \in Nat /\ k > 0 /\ k + 1 \in DOMAIN todo /\ todo'[k] = todo[k + 1]
         /\ \A k \in DOMAIN todo :
              k \in Nat /\ k > 0 /\ (k # 1 => k - 1 \in DOMAIN todo' /\ todo'[k - 1] = todo[k])
<1>1. todo \in Seq(HandlerWrites) /\ todo # <<>> /\ todo' = Tail(todo)
  BY DEF DoStep, TypeInv, RecordInv
<1> QED BY <1>1

\* The places of the writes move down by one.
LEMMA ShiftedPlaces ==
  ASSUME TypeInv, DoStep
  PROVE  /\ \A op : \A k \in Places(todo', op) :
              k \in Nat /\ k > 0 /\ k + 1 \in Places(todo, op) /\ todo'[k] = todo[k + 1]
         /\ \A op : \A k \in Places(todo, op) :
              k \in Nat /\ k > 0 /\ (k # 1 => k - 1 \in Places(todo', op) /\ todo'[k - 1] = todo[k])
  BY Shifted DEF Places

\* The only place of an operation moves down to the only one.
LEMMA ShiftedOnce ==
  ASSUME TypeInv, DoStep, NEW op, NEW k \in Places(todo', op), Places(todo, op) = {k + 1}
  PROVE  Places(todo', op) = {k}
<1>1. k \in Nat
  BY ShiftedPlaces
<1>2. ASSUME NEW l \in Places(todo', op) PROVE l = k
  <2>1. l \in Nat /\ l + 1 \in Places(todo, op)
    BY ShiftedPlaces
  <2>2. l + 1 = k + 1
    BY <2>1
  <2> QED BY <1>1, <2>1, <2>2
<1> QED BY <1>2

\* So do the places before which nothing is saved; there are none after a save.
LEMMA ShiftedFirst ==
  ASSUME TypeInv, DoStep
  PROVE  /\ todo[1].op = "log" =>
              /\ \A k \in DOMAIN todo' : OnlyLogsBefore(todo, k + 1) => OnlyLogsBefore(todo', k)
              /\ \A k \in DOMAIN todo : k # 1 /\ OnlyLogsBefore(todo, k) => OnlyLogsBefore(todo', k - 1)
              /\ \A k \in DOMAIN todo' : OnlyLogsBefore(todo', k) => OnlyLogsBefore(todo, k + 1)
         /\ todo[1].op # "log" => \A k \in DOMAIN todo : OnlyLogsBefore(todo, k) => k = 1
<1>1. ASSUME todo[1].op = "log", NEW k \in DOMAIN todo', OnlyLogsBefore(todo, k + 1)
      PROVE  OnlyLogsBefore(todo', k)
  BY <1>1, Shifted DEF OnlyLogsBefore
<1>2. ASSUME todo[1].op = "log", NEW k \in DOMAIN todo, k # 1, OnlyLogsBefore(todo, k)
      PROVE  OnlyLogsBefore(todo', k - 1)
  BY <1>2, Shifted DEF OnlyLogsBefore
<1>3. ASSUME todo[1].op = "log", NEW k \in DOMAIN todo', OnlyLogsBefore(todo', k)
      PROVE  OnlyLogsBefore(todo, k + 1)
  <2> SUFFICES ASSUME NEW j \in DOMAIN todo, j < k + 1 PROVE todo[j].op = "log"
    BY DEF OnlyLogsBefore
  <2>1. CASE j = 1
    BY <1>3, <2>1
  <2>2. CASE j # 1
    BY <1>3, <2>2, Shifted DEF OnlyLogsBefore
  <2> QED BY <2>1, <2>2
<1>4. ASSUME todo[1].op # "log", NEW k \in DOMAIN todo, OnlyLogsBefore(todo, k) PROVE k = 1
  BY <1>4, Shifted DEF OnlyLogsBefore
<1> QED BY <1>1, <1>2, <1>3, <1>4

\* What a write does not change.
LEMMA DoStepKeeps ==
  ASSUME TypeInv, DoStep
  PROVE  /\ pc' = pc /\ cur' = cur /\ since' = since /\ starts' = starts
         /\ crashes' = crashes /\ throws' = throws
         /\ todo[1].op \in {"log", "enqueue", "settle", "unset", "save"}
         /\ todo[1].op = "log" => mem' = mem /\ disk' = disk
         /\ todo[1].op # "log" => journal' = journal /\ disk' = mem' /\ Rest(mem') = Rest(mem)
<1>1. /\ todo[1] \in HandlerWrites /\ Head(todo) = todo[1] /\ mem \in Tasks
      /\ UNCHANGED <<pc, cur, rejections, verdict, delivery, counters>>
  <2>1. todo \in Seq(HandlerWrites) /\ todo # <<>>
    BY DEF DoStep, TypeInv, RecordInv
  <2>2. Head(todo) = todo[1]
    BY <2>1
  <2> QED BY <2>2, Shifted DEF DoStep, TypeInv, RecordInv, TypeOK
<1> DEFINE w == todo[1]
<1>2. /\ w.op \in {"log", "enqueue", "settle", "unset", "save"}
      /\ w.op = "enqueue" => w.sub \in Subtasks
      /\ w.op = "settle" => w.id \in Nat /\ w.status \in SubtaskStatuses
  BY <1>1 DEF HandlerWrites, Writes
<1>3. CASE w.op = "log"
  BY <1>1, <1>2, <1>3 DEF DoStep, delivery, counters
<1>4. CASE w.op # "log"
  <2>1. /\ journal' = journal /\ disk' = mem'
        /\ w.op = "enqueue" => mem' = EnqueueSubtask(mem, w.sub)
        /\ w.op = "settle" => mem' = SettleSubtask(mem, w.id, w.status)
        /\ w.op = "unset" => mem' = ClearActive(mem)
        /\ w.op = "save" => mem' = mem
    BY <1>1, <1>4 DEF DoStep
  <2> HIDE DEF w
  <2>2. Rest(mem') = Rest(mem)
    <3>1. CASE w.op = "enqueue"
      BY <1>1, <1>2, <2>1, <3>1, EnqueuedFields
    <3>2. CASE w.op = "settle"
      BY <1>1, <1>2, <2>1, <3>2, MarkedFields DEF SettleSubtask
    <3>3. CASE w.op = "unset"
      BY <1>1, <2>1, <3>3 DEF ClearActive, Rest, Tasks
    <3>4. CASE w.op = "save"
      BY <2>1, <3>4
    <3> QED BY <1>2, <1>4, <3>1, <3>2, <3>3, <3>4
  <2> QED BY <1>1, <1>2, <1>4, <2>1, <2>2 DEF delivery, counters, w
<1> QED BY <1>3, <1>4

\* A journal entry is written.
LEMMA DoStepLogs ==
  ASSUME TypeInv, DoStep, todo[1].op = "log"
  PROVE  /\ todo[1].entry \in Entries /\ todo[1].entry.type # "subtask_started"
         /\ DOMAIN journal' = DOMAIN journal \cup {Len(journal) + 1}
         /\ Len(journal) + 1 \notin DOMAIN journal /\ Len(journal') = Len(journal) + 1
         /\ \A i \in DOMAIN journal : journal'[i] = journal[i] /\ i < Len(journal) + 1
         /\ journal'[Len(journal) + 1] = todo[1].entry
<1>1. todo[1] \in HandlerWrites /\ Head(todo) = todo[1] /\ journal \in Seq(Entries)
  <2>1. todo \in Seq(HandlerWrites) /\ todo # <<>>
    BY DEF DoStep, TypeInv, RecordInv
  <2>2. Head(todo) = todo[1]
    BY <2>1
  <2> QED BY <2>2, Shifted DEF TypeInv, RecordInv, TypeOK
<1>2. todo[1].entry \in Entries /\ todo[1].entry.type # "subtask_started"
  BY <1>1 DEF HandlerWrites, Writes
<1>3. journal' = Append(journal, todo[1].entry)
  BY <1>1 DEF DoStep
<1> DEFINE e == todo[1].entry
<1> HIDE DEF e
<1>4. /\ DOMAIN journal' = DOMAIN journal \cup {Len(journal) + 1}
      /\ Len(journal) + 1 \notin DOMAIN journal /\ Len(journal') = Len(journal) + 1
      /\ \A i \in DOMAIN journal : journal'[i] = journal[i] /\ i < Len(journal) + 1
      /\ journal'[Len(journal) + 1] = e
  <2>1. journal' = Append(journal, e)
    BY <1>3 DEF e
  <2>2. e \in Entries
    BY <1>2 DEF e
  <2> QED BY <1>1, <2>1, <2>2
<1> QED BY <1>2, <1>4 DEF e

\* A subtask is enqueued.
LEMMA DoStepEnqueues ==
  ASSUME TypeInv, DoStep, todo[1].op = "enqueue"
  PROVE  /\ todo[1].sub \in Subtasks /\ mem'.active = mem.active
         /\ Len(mem'.subtasks) = Len(mem.subtasks) + 1
         /\ DOMAIN mem'.subtasks = DOMAIN mem.subtasks \cup {Len(mem.subtasks) + 1}
         /\ Len(mem.subtasks) + 1 \notin DOMAIN mem.subtasks
         /\ \A i \in DOMAIN mem.subtasks : mem'.subtasks[i] = mem.subtasks[i]
         /\ mem'.subtasks[Len(mem.subtasks) + 1] = todo[1].sub
         /\ mem'.queue = Append(mem.queue, Len(mem.subtasks) + 1)
<1>1. todo[1] \in HandlerWrites /\ Head(todo) = todo[1] /\ mem \in Tasks
  <2>1. todo \in Seq(HandlerWrites) /\ todo # <<>>
    BY DEF DoStep, TypeInv, RecordInv
  <2>2. Head(todo) = todo[1]
    BY <2>1
  <2> QED BY <2>2, Shifted DEF TypeInv, RecordInv, TypeOK
<1>2. todo[1].sub \in Subtasks
  BY <1>1 DEF HandlerWrites, Writes
<1>3. mem' = EnqueueSubtask(mem, todo[1].sub)
  BY <1>1 DEF DoStep
<1> DEFINE sub == todo[1].sub
<1>4. sub \in Subtasks /\ mem' = EnqueueSubtask(mem, sub)
  BY <1>2, <1>3
<1> HIDE DEF sub
<1>5. /\ mem'.subtasks = Append(mem.subtasks, sub) /\ mem'.active = mem.active
      /\ mem'.queue = Append(mem.queue, Len(mem.subtasks) + 1)
      /\ mem.subtasks \in Seq(Subtasks)
  BY <1>1, <1>4, EnqueuedTask DEF Tasks
<1>6. /\ Len(mem'.subtasks) = Len(mem.subtasks) + 1
      /\ DOMAIN mem'.subtasks = DOMAIN mem.subtasks \cup {Len(mem.subtasks) + 1}
      /\ Len(mem.subtasks) + 1 \notin DOMAIN mem.subtasks
      /\ \A i \in DOMAIN mem.subtasks : mem'.subtasks[i] = mem.subtasks[i]
      /\ mem'.subtasks[Len(mem.subtasks) + 1] = sub
  BY <1>4, <1>5
<1> QED BY <1>4, <1>5, <1>6 DEF sub

\* Any other write keeps the subtasks but for the status of the one it settles.
LEMMA DoStepSettles ==
  ASSUME TypeInv, DoStep, todo[1].op \in {"settle", "unset", "save"}
  PROVE  /\ Len(mem'.subtasks) = Len(mem.subtasks)
         /\ DOMAIN mem'.subtasks = DOMAIN mem.subtasks /\ mem'.queue = mem.queue
         /\ mem'.active = IF todo[1].op = "save" THEN mem.active ELSE 0
         /\ \A i \in DOMAIN mem.subtasks :
              /\ mem'.subtasks[i].kind = mem.subtasks[i].kind
              /\ mem'.subtasks[i].stage = mem.subtasks[i].stage
              /\ mem'.subtasks[i].input = mem.subtasks[i].input
              /\ todo[1].op = "settle" /\ todo[1].id = i =>
                   mem'.subtasks[i].status = todo[1].status
              /\ todo[1].op # "settle" \/ todo[1].id # i =>
                   mem'.subtasks[i].status = mem.subtasks[i].status
<1> DEFINE w == todo[1]
<1>1. w \in HandlerWrites /\ Head(todo) = w /\ mem \in Tasks
  <2>1. todo \in Seq(HandlerWrites) /\ todo # <<>>
    BY DEF DoStep, TypeInv, RecordInv
  <2>2. Head(todo) = todo[1]
    BY <2>1
  <2> QED BY <2>2, Shifted DEF TypeInv, RecordInv, TypeOK
<1>2. w.op = "settle" => w.id \in Nat /\ w.status \in SubtaskStatuses
  BY <1>1 DEF HandlerWrites, Writes
<1>3. /\ w.op = "settle" => mem' = SettleSubtask(mem, w.id, w.status)
      /\ w.op = "unset" => mem' = ClearActive(mem)
      /\ w.op = "save" => mem' = mem
  BY <1>1 DEF DoStep
<1> HIDE DEF w
<1>4. mem.subtasks \in Seq(Subtasks) /\ mem \in Tasks
  BY <1>1 DEF Tasks
<1>5. CASE w.op = "settle"
  <2> DEFINE id == w.id
             status == w.status
  <2>1. id \in Nat /\ status \in SubtaskStatuses /\ mem' = MarkSubtask(mem, id, status, 0)
    BY <1>2, <1>3, <1>5 DEF SettleSubtask
  <2> HIDE DEF id, status
  <2>2. /\ Len(mem'.subtasks) = Len(mem.subtasks) /\ mem'.active = 0 /\ mem'.queue = mem.queue
        /\ DOMAIN mem'.subtasks = DOMAIN mem.subtasks
        /\ \A i \in DOMAIN mem.subtasks :
              /\ mem'.subtasks[i].kind = mem.subtasks[i].kind
              /\ mem'.subtasks[i].stage = mem.subtasks[i].stage
              /\ mem'.subtasks[i].input = mem.subtasks[i].input
              /\ i = id => mem'.subtasks[i].status = status
              /\ i # id => mem'.subtasks[i].status = mem.subtasks[i].status
    BY <1>1, <2>1, MarkedFields
  <2> QED BY <1>5, <2>2 DEF id, status, w
<1>6. CASE w.op = "unset"
  <2>1. mem'.subtasks = mem.subtasks /\ mem'.queue = mem.queue /\ mem'.active = 0
    BY <1>1, <1>3, <1>6 DEF ClearActive, Tasks
  <2> QED BY <1>6, <2>1 DEF w
<1>7. CASE w.op = "save"
  BY <1>3, <1>7 DEF w
<1> QED BY <1>5, <1>6, <1>7 DEF w

(***************************************************************************)
(* The writes of each handler                                              *)
(***************************************************************************)
\* Types of the entries no invariant below is about.
PlainTypes == {"subtask_queued", "orchestrator_decision", "decision_rejected", "task_waiting",
               "task_failed", "artifact_registered", "script_started", "script_failed"}

\* Writes that enqueue, settle and unset nothing.
NoSubtaskWrites(s) ==
    Places(s, "enqueue") = {} /\ Places(s, "settle") = {} /\ Places(s, "unset") = {}

\* A subtask's outcome, the next evaluation and the record, after n entries.
Recorded(s, n, id, status, sub) ==
    /\ n \in Nat /\ DOMAIN s = 1 .. n + 5
    /\ \A k \in 1 .. n : s[k].op = "log" /\ s[k].entry.type \in PlainTypes \cup {"script_completed"}
    /\ s[n + 1] = Settle(id, status)
    /\ s[n + 2].op = "log" /\ s[n + 2].entry.id = id
    /\ s[n + 2].entry.type = IF status = "completed" THEN "subtask_completed" ELSE "subtask_failed"
    /\ s[n + 3] = Enqueue(sub)
    /\ s[n + 4].op = "log" /\ s[n + 4].entry.type = "subtask_queued"
    /\ s[n + 5] = Save

\* Where such a list enqueues, settles and logs.
LEMMA RecordedPlaces ==
  ASSUME NEW s, NEW n, NEW id, NEW status, NEW sub, Recorded(s, n, id, status, sub)
  PROVE  /\ Places(s, "settle") = {n + 1} /\ s[n + 1].id = id /\ s[n + 1].status = status
         /\ Places(s, "enqueue") = {n + 3} /\ s[n + 3].sub = sub
         /\ Places(s, "unset") = {}
         /\ OnlyLogsBefore(s, n + 1) /\ n \in Nat /\ n + 5 \in DOMAIN s /\ s[n + 5].op = "save"
         /\ \A k \in Places(s, "log") :
              \/ s[k].entry.type \in PlainTypes \cup {"script_completed"}
              \/ /\ k = n + 2 /\ s[k].entry.id = id
                 /\ s[k].entry.type = IF status = "completed" THEN "subtask_completed"
                                      ELSE "subtask_failed"
<1>1. /\ n \in Nat /\ DOMAIN s = 1 .. n + 5
      /\ \A k \in 1 .. n : s[k].op = "log" /\ s[k].entry.type \in PlainTypes \cup {"script_completed"}
      /\ s[n + 1].op = "settle" /\ s[n + 1].id = id /\ s[n + 1].status = status
      /\ s[n + 2].op = "log" /\ s[n + 2].entry.id = id
      /\ s[n + 2].entry.type = IF status = "completed" THEN "subtask_completed" ELSE "subtask_failed"
      /\ s[n + 3].op = "enqueue" /\ s[n + 3].sub = sub
      /\ s[n + 4].op = "log" /\ s[n + 4].entry.type = "subtask_queued"
      /\ s[n + 5].op = "save"
  BY WriteFields DEF Recorded
<1>2. \A k \in DOMAIN s : k \in 1 .. n \/ k = n + 1 \/ k = n + 2 \/ k = n + 3 \/ k = n + 4 \/ k = n + 5
  BY <1>1
<1>3. ASSUME NEW k \in DOMAIN s
      PROVE  \/ s[k].op = "log" \/ s[k].op = "save"
             \/ k = n + 1 /\ s[k].op = "settle"
             \/ k = n + 3 /\ s[k].op = "enqueue"
  BY <1>1, <1>2
<1>a. Places(s, "settle") = {n + 1}
  <2>1. n + 1 \in DOMAIN s
    BY <1>1
  <2> QED BY <1>1, <1>3, <2>1 DEF Places
<1>b. Places(s, "enqueue") = {n + 3}
  <2>1. n + 3 \in DOMAIN s
    BY <1>1
  <2> QED BY <1>1, <1>3, <2>1 DEF Places
<1>c. Places(s, "unset") = {}
  BY <1>3 DEF Places
<1>4. OnlyLogsBefore(s, n + 1)
  BY <1>1 DEF OnlyLogsBefore
<1>5. ASSUME NEW k \in Places(s, "log")
      PROVE  \/ s[k].entry.type \in PlainTypes \cup {"script_completed"}
             \/ /\ k = n + 2 /\ s[k].entry.id = id
                /\ s[k].entry.type = IF status = "completed" THEN "subtask_completed"
                                     ELSE "subtask_failed"
  BY <1>1, <1>2 DEF Places, PlainTypes
<1> QED BY <1>1, <1>a, <1>b, <1>c, <1>4, <1>5

\* What applyDecision and its caller write for a decision that runs something, ...
RunWrites(s, id, sub) ==
    /\ DOMAIN s = 1 .. 6
    /\ s[1] = Log("orchestrator_decision", id) /\ s[2] = Enqueue(sub)
    /\ s[3].op = "log" /\ s[3].entry.type = "subtask_queued"
    /\ s[4] = Settle(id, "completed") /\ s[5] = Log("subtask_completed", id) /\ s[6] = Save

\* ... for one that ends or pauses the run, ...
EndWrites(s, id, type) ==
    /\ DOMAIN s = 1 .. 5
    /\ s[1] = Log("orchestrator_decision", id) /\ s[2] = Log(type, 0)
    /\ s[3] = Settle(id, "completed") /\ s[4] = Log("subtask_completed", id) /\ s[5] = Save

\* ... and for one it does not know.
UnknownWrites(s, id) ==
    /\ DOMAIN s = 1 .. 4
    /\ s[1] = Log("orchestrator_decision", id) /\ s[2] = Settle(id, "completed")
    /\ s[3] = Log("subtask_completed", id) /\ s[4] = Save

\* Where a decision that runs something enqueues, settles and logs.
LEMMA RunPlaces ==
  ASSUME NEW id, NEW sub, NEW s, RunWrites(s, id, sub)
  PROVE  /\ Places(s, "enqueue") = {2} /\ s[2].sub = sub /\ OnlyLogsBefore(s, 2)
         /\ Places(s, "settle") = {4} /\ s[4].id = id /\ s[4].status = "completed"
         /\ Places(s, "unset") = {} /\ 6 \in DOMAIN s /\ s[6].op = "save"
         /\ \A k \in Places(s, "log") :
              \/ s[k].entry.type \in PlainTypes
              \/ k = 5 /\ s[k].entry.id = id /\ s[k].entry.type = "subtask_completed"
<1>1. DOMAIN s = {1, 2, 3, 4, 5, 6}
  BY DEF RunWrites
<1> QED BY <1>1, WriteFields DEF RunWrites, Places, OnlyLogsBefore, PlainTypes

\* Where one that ends or pauses the run settles and logs.
LEMMA EndPlaces ==
  ASSUME NEW id, NEW type, NEW s, EndWrites(s, id, type)
  PROVE  /\ Places(s, "enqueue") = {} /\ Places(s, "unset") = {}
         /\ Places(s, "settle") = {3} /\ s[3].id = id /\ s[3].status = "completed"
         /\ OnlyLogsBefore(s, 3)
         /\ 2 \in LogPlaces(s, type) /\ OnlyLogsBefore(s, 2) /\ 5 \in DOMAIN s /\ s[5].op = "save"
         /\ \A k \in Places(s, "log") :
              \/ s[k].entry.type \in PlainTypes \cup {type}
              \/ k = 4 /\ s[k].entry.id = id /\ s[k].entry.type = "subtask_completed"
<1>1. DOMAIN s = {1, 2, 3, 4, 5}
  BY DEF EndWrites
<1> QED BY <1>1, WriteFields DEF EndWrites, Places, LogPlaces, OnlyLogsBefore, PlainTypes

\* Where one that it does not know settles and logs.
LEMMA UnknownPlaces ==
  ASSUME NEW id, NEW s, UnknownWrites(s, id)
  PROVE  /\ Places(s, "enqueue") = {} /\ Places(s, "unset") = {}
         /\ Places(s, "settle") = {2} /\ s[2].id = id /\ s[2].status = "completed"
         /\ OnlyLogsBefore(s, 2) /\ 4 \in DOMAIN s /\ s[4].op = "save"
         /\ \A k \in Places(s, "log") :
              \/ s[k].entry.type \in PlainTypes
              \/ k = 3 /\ s[k].entry.id = id /\ s[k].entry.type = "subtask_completed"
<1>1. DOMAIN s = {1, 2, 3, 4}
  BY DEF UnknownWrites
<1> QED BY <1>1, WriteFields DEF UnknownWrites, Places, OnlyLogsBefore, PlainTypes

\* What an evaluation rejected too often writes.
LEMMA ExhaustedPlaces ==
  ASSUME NEW id, NEW s,
         s = <<Settle(id, "failed"), Log("subtask_failed", id), Log("task_failed", 0), Save>>
  PROVE  /\ Places(s, "enqueue") = {} /\ Places(s, "unset") = {}
         /\ Places(s, "settle") = {1} /\ s[1].id = id /\ s[1].status = "failed"
         /\ OnlyLogsBefore(s, 1) /\ 4 \in DOMAIN s /\ s[4].op = "save"
         /\ \A k \in Places(s, "log") :
              \/ s[k].entry.type \in PlainTypes
              \/ k = 2 /\ s[k].entry.id = id /\ s[k].entry.type = "subtask_failed"
<1>1. /\ DOMAIN s = {1, 2, 3, 4}
      /\ s[1] = Settle(id, "failed") /\ s[2] = Log("subtask_failed", id)
      /\ s[3] = Log("task_failed", 0) /\ s[4] = Save
  OBVIOUS
<1> QED BY <1>1, WriteFields DEF Places, OnlyLogsBefore, PlainTypes

\* What resumeTask writes.
LEMMA ResumePlaces ==
  ASSUME NEW sub, NEW s, s = <<Enqueue(sub), Log("task_resumed", 0), Save>>
  PROVE  /\ Places(s, "enqueue") = {1} /\ s[1].sub = sub /\ 1 \in DOMAIN s
         /\ Places(s, "settle") = {} /\ Places(s, "unset") = {}
         /\ \A k \in Places(s, "log") : k = 2 /\ s[k].entry.type = "task_resumed"
<1>1. DOMAIN s = {1, 2, 3} /\ s[1] = Enqueue(sub) /\ s[2] = Log("task_resumed", 0) /\ s[3] = Save
  OBVIOUS
<1> QED BY <1>1, WriteFields DEF Places

\* What the expiry of a pause writes.
LEMMA ExpirePlaces ==
  ASSUME NEW s, s = <<Log("task_waiting", 0), Save>>
  PROVE  /\ NoSubtaskWrites(s) /\ 2 \in DOMAIN s /\ s[2].op = "save"
         /\ \A k \in Places(s, "log") : s[k].entry.type \in PlainTypes
<1>1. DOMAIN s = {1, 2} /\ s[1] = Log("task_waiting", 0) /\ s[2] = Save
  OBVIOUS
<1> QED BY <1>1, WriteFields DEF Places, NoSubtaskWrites, PlainTypes

\* What enqueueOrchestratorEval writes.
LEMMA EvalPlaces ==
  ASSUME NEW sub, NEW q, NEW s, s = <<Enqueue(sub), Log("subtask_queued", q)>>
  PROVE  /\ Places(s, "enqueue") = {1} /\ s[1].sub = sub /\ 1 \in DOMAIN s
         /\ Places(s, "settle") = {} /\ Places(s, "unset") = {}
         /\ \A k \in Places(s, "log") : s[k].entry.type \in PlainTypes
<1>1. DOMAIN s = {1, 2} /\ s[1] = Enqueue(sub) /\ s[2] = Log("subtask_queued", q)
  OBVIOUS
<1> QED BY <1>1, WriteFields DEF Places, PlainTypes

\* What a rejected reply writes.
LEMMA RejectPlaces ==
  ASSUME NEW id, NEW s,
         s \in {<<Log("decision_rejected", id)>>,
                <<Log("orchestrator_decision", id), Log("decision_rejected", id)>>}
  PROVE  /\ NoSubtaskWrites(s) /\ Places(s, "log") = DOMAIN s
         /\ \A k \in Places(s, "log") : s[k].entry.type \in PlainTypes
<1>1. \A k \in DOMAIN s : s[k] \in {Log("decision_rejected", id), Log("orchestrator_decision", id)}
  OBVIOUS
<1>2. \A k \in DOMAIN s : s[k].op = "log" /\ s[k].entry.type \in PlainTypes
  BY <1>1, WriteFields DEF PlainTypes
<1> QED BY <1>2 DEF Places, NoSubtaskWrites

\* What rebuildQueueForActiveTask writes: it fails the interrupted subtask, or
\* clears activeSubtaskId, and lets the orchestrator go on.
LEMMA RebuildPlaces ==
  ASSUME NEW t \in Tasks, NEW s, s = RebuildQueue(t)
  PROVE  /\ \A k \in Places(s, "settle") :
              /\ k = 1 /\ s[k].id = t.active /\ s[k].status = "failed" /\ Interrupted(t)
              /\ Places(s, "unset") = {}
         /\ \A k \in Places(s, "unset") : k = 1 /\ ~Interrupted(t)
         /\ \A k \in Places(s, "enqueue") :
              /\ Places(s, "enqueue") = {k} /\ t.queue = <<>>
              /\ s[k].sub = NewSubtask("orchestrator_eval", EffectiveStage(t), None, FALSE)
              /\ Interrupted(t) => 1 \in Places(s, "settle") /\ k > 1
         /\ Interrupted(t) /\ t.queue = <<>> => 1 \in Places(s, "settle")
         /\ \A k \in Places(s, "log") :
              \/ s[k].entry.type \in PlainTypes
              \/ /\ 1 \in Places(s, "settle") /\ k = 2
                 /\ s[k].entry.id = t.active /\ s[k].entry.type = "subtask_failed"
<1> DEFINE a == Settle(t.active, "failed")
           b == Log("subtask_failed", t.active)
           sub == NewSubtask("orchestrator_eval", EffectiveStage(t), None, FALSE)
           c == Enqueue(sub)
           d == Log("subtask_queued", NextId(t))
           u == Unset
<1>1. /\ a.op = "settle" /\ a.id = t.active /\ a.status = "failed"
      /\ b.op = "log" /\ b.entry.type = "subtask_failed" /\ b.entry.id = t.active
      /\ c.op = "enqueue" /\ c.sub = sub
      /\ d.op = "log" /\ d.entry.type = "subtask_queued" /\ u.op = "unset"
  <2>1. a.op = "settle" /\ a.id = t.active /\ a.status = "failed"
    BY WriteFields
  <2>2. b.op = "log" /\ b.entry.type = "subtask_failed" /\ b.entry.id = t.active
    BY WriteFields
  <2>3. c.op = "enqueue" /\ c.sub = sub
    BY WriteFields
  <2>4. d.op = "log" /\ d.entry.type = "subtask_queued" /\ u.op = "unset"
    BY WriteFields
  <2> QED BY <2>1, <2>2, <2>3, <2>4
<1>2. /\ t.queue # <<>> => s = <<>>
      /\ t.queue = <<>> /\ Interrupted(t) =>
           \/ DOMAIN s = 1 .. 2 /\ s[1] = a /\ s[2] = b
           \/ DOMAIN s = 1 .. 4 /\ s[1] = a /\ s[2] = b /\ s[3] = c /\ s[4] = d
      /\ t.queue = <<>> /\ ~Interrupted(t) /\ t.active # 0 =>
           \/ DOMAIN s = 1 .. 1 /\ s[1] = u
           \/ DOMAIN s = 1 .. 3 /\ s[1] = u /\ s[2] = c /\ s[3] = d
      /\ t.queue = <<>> /\ ~Interrupted(t) /\ t.active = 0 =>
           \/ s = <<>>
           \/ DOMAIN s = 1 .. 2 /\ s[1] = c /\ s[2] = d
  <2> DEFINE end == IF t.stage = None THEN <<>> ELSE <<c, d>>
  <2>1. EnqueueEval(t, FALSE) = <<c, d>>
    BY DEF EnqueueEval
  <2>2. /\ t.queue # <<>> => s = <<>>
        /\ t.queue = <<>> /\ Interrupted(t) => s = <<a, b>> \o end
        /\ t.queue = <<>> /\ ~Interrupted(t) /\ t.active # 0 => s = <<u>> \o end
        /\ t.queue = <<>> /\ ~Interrupted(t) /\ t.active = 0 => s = <<>> \o end
    <3>1. t.queue # <<>> => s = <<>>
      BY DEF RebuildQueue
    <3>2. t.queue = <<>> /\ Interrupted(t) => s = <<a, b>> \o end
      <4> DEFINE x == CASE Interrupted(t) -> <<a, b>>
                        [] ~Interrupted(t) /\ t.active # 0 -> <<Unset>>
                        [] t.active = 0 -> <<>>
      <4>1. t.queue = <<>> => s = x \o end
        BY <2>1 DEF RebuildQueue
      <4>2. Interrupted(t) => t.active # 0 /\ x = <<a, b>>
        BY DEF Interrupted
      <4> HIDE DEF x, end
      <4> QED BY <4>1, <4>2
    <3>3. t.queue = <<>> /\ ~Interrupted(t) /\ t.active # 0 => s = <<u>> \o end
      BY <2>1 DEF RebuildQueue
    <3>4. t.queue = <<>> /\ ~Interrupted(t) /\ t.active = 0 => s = <<>> \o end
      BY <2>1 DEF RebuildQueue
    <3> QED BY <3>1, <3>2, <3>3, <3>4
  <2>3. end = <<>> \/ end = <<c, d>>
    OBVIOUS
  <2> HIDE DEF a, b, c, d, u, end
  <2>4. <<a, b>> \o <<>> = <<a, b>> /\ <<u>> \o <<>> = <<u>> /\ <<>> \o <<>> = <<>>
    OBVIOUS
  <2>5. CASE end = <<>>
    BY <2>2, <2>4, <2>5
  <2>6. CASE end = <<c, d>>
    BY <2>2, <2>6
  <2> QED BY <2>3, <2>5, <2>6
<1> HIDE DEF a, b, c, d, u, sub
<1>3. "subtask_queued" \in PlainTypes
  BY DEF PlainTypes
<1>4. CASE s = <<>>
  <2>1. DOMAIN s = {}
    BY <1>4
  <2>2. ~(Interrupted(t) /\ t.queue = <<>>)
    BY <1>2, <2>1
  <2> QED BY <2>1, <2>2 DEF Places
<1>5. CASE t.queue = <<>> /\ Interrupted(t)
  <2>1. /\ Places(s, "settle") = {1} /\ Places(s, "unset") = {} /\ s[1] = a
        /\ Places(s, "enqueue") = {} \/ (Places(s, "enqueue") = {3} /\ s[3] = c)
        /\ \A k \in Places(s, "log") : (k = 2 /\ s[k] = b) \/ s[k] = d
    BY <1>1, <1>2, <1>5 DEF Places
  <2>2. \A k \in Places(s, "enqueue") :
          /\ Places(s, "enqueue") = {k} /\ s[k].sub = sub /\ 1 \in Places(s, "settle") /\ k > 1
    BY <1>1, <2>1
  <2>3. \A k \in Places(s, "log") :
           \/ s[k].entry.type \in PlainTypes
           \/ /\ 1 \in Places(s, "settle") /\ k = 2
              /\ s[k].entry.id = t.active /\ s[k].entry.type = "subtask_failed"
    BY <1>1, <1>3, <2>1
  <2>4. \A k \in Places(s, "settle") : k = 1 /\ s[k].id = t.active /\ s[k].status = "failed"
    BY <1>1, <2>1
  <2> QED BY <1>5, <2>1, <2>2, <2>3, <2>4 DEF sub
<1>6. CASE t.queue = <<>> /\ ~Interrupted(t) /\ s # <<>>
  <2>1. /\ Places(s, "settle") = {} /\ \A k \in Places(s, "unset") : k = 1
        /\ \A k \in Places(s, "enqueue") : Places(s, "enqueue") = {k} /\ s[k] = c
        /\ \A k \in Places(s, "log") : s[k] = d
    <3>1. CASE DOMAIN s = 1 .. 1 /\ s[1] = u
      BY <1>1, <3>1 DEF Places
    <3>2. CASE DOMAIN s = 1 .. 2 /\ s[1] = c /\ s[2] = d
      BY <1>1, <3>2 DEF Places
    <3>3. CASE DOMAIN s = 1 .. 3 /\ s[1] = u /\ s[2] = c /\ s[3] = d
      BY <1>1, <3>3 DEF Places
    <3> QED BY <1>2, <1>6, <3>1, <3>2, <3>3
  <2> QED BY <1>1, <1>3, <1>6, <2>1 DEF sub
<1> QED BY <1>2, <1>4, <1>5, <1>6

(***************************************************************************)
(* The steps that choose what to write                                     *)
(***************************************************************************)
\* Such a step leaves the journal, the disk and the subtasks alone.
Chooses ==
    /\ todo = <<>> /\ UNCHANGED <<disk, journal, cur, since, starts, crashes, throws>>
    /\ mem'.subtasks = mem.subtasks /\ mem'.queue = mem.queue /\ mem'.active = mem.active

\* Entering runTask: an empty queue gets a first evaluation.
LEMMA EnterFacts ==
  ASSUME TypeInv, EnterRunTask
  PROVE  /\ Chooses /\ pc = "entry" /\ pc' = "loop"
         /\ mem'.status = mem.status /\ mem'.total = mem.total /\ mem'.retries = mem.retries
         /\ mem'.human = mem.human
         /\ \/ mem.queue # <<>> /\ mem' = mem /\ todo' = <<>>
            \/ mem.queue = <<>> /\ \E q \in Nat :
                 todo' = <<Enqueue(NewSubtask("orchestrator_eval", EffectiveStage(mem), None, FALSE)),
                           Log("subtask_queued", q)>>
<1>1. mem \in Tasks
  BY DEF TypeInv, RecordInv, TypeOK
<1>2. NextId(mem) \in Nat
  BY <1>1 DEF NextId, Tasks
<1>3. /\ todo = <<>> /\ UNCHANGED <<disk, journal, cur, since, starts, crashes, throws>> /\ pc = "entry" /\ pc' = "loop"
  BY DEF EnterRunTask, At, delivery, counters
<1>4. /\ mem'.subtasks = mem.subtasks /\ mem'.queue = mem.queue /\ mem'.active = mem.active
      /\ mem'.status = mem.status /\ mem'.total = mem.total /\ mem'.retries = mem.retries
      /\ mem'.human = mem.human
  BY <1>1 DEF EnterRunTask, Tasks
<1>5. \/ mem.queue # <<>> /\ mem' = mem /\ todo' = <<>>
      \/ mem.queue = <<>> /\
         todo' = <<Enqueue(NewSubtask("orchestrator_eval", EffectiveStage(mem), None, FALSE)),
                   Log("subtask_queued", NextId(mem))>>
  BY <1>3 DEF EnterRunTask, EnqueueEval
<1> QED BY <1>2, <1>3, <1>4, <1>5 DEF Chooses

\* A reply the worker rejects.
LEMMA RejectFacts ==
  ASSUME TypeInv, EvalUnparsable \/ \E d \in Replies : EvalRejected(d)
  PROVE  /\ Chooses /\ pc = "handle" /\ pc' = "handle" /\ mem' = mem
         /\ todo' \in {<<Log("decision_rejected", cur)>>,
                       <<Log("orchestrator_decision", cur), Log("decision_rejected", cur)>>}
  BY DEF EvalUnparsable, EvalRejected, Handling, At, delivery, counters, Chooses

\* A decision that is applied: it runs something and is charged for it, it
\* ends or pauses the run, or it does nothing.
LEMMA AppliedFacts ==
  ASSUME TypeInv, NEW d \in Replies, EvalApplied(d)
  PROVE  /\ Chooses /\ pc = "handle" /\ pc' = "loop" /\ mem'.human = mem.human
         /\ mem.subtasks[cur].kind = "orchestrator_eval"
         /\ \/ \E sub \in Subtasks :
                 /\ sub.kind \in Counted /\ sub.status = "pending"
                 /\ mem'.status = mem.status
                 /\ mem'.total = mem.total + 1 /\ mem.total < MaxTotalActions
                 /\ sub.kind = "stage_agent_run" =>
                      /\ mem'.retries = [mem.retries EXCEPT ![sub.stage] = @ + 1]
                      /\ mem.retries[sub.stage] < MaxStageRetries
                 /\ sub.kind = "script_run" => mem'.retries = mem.retries
                 /\ RunWrites(todo', cur, sub)
            \/ \E a \in DOMAIN EndStatus :
                 /\ mem'.status = EndStatus[a]
                 /\ mem'.total = mem.total /\ mem'.retries = mem.retries
                 /\ EndWrites(todo', cur, EndEntry[a])
            \/ mem' = mem /\ UnknownWrites(todo', cur)
<1>1. /\ mem \in Tasks /\ cur \in Nat /\ d \in Decisions
      /\ ~TargetStageMissing(d) /\ ~RetryBudgetSpent(d, mem) /\ ~ActionBudgetSpent(mem)
  BY DEF TypeInv, RecordInv, TypeOK, EvalApplied, ValidDecision, Replies
<1>2. /\ todo = <<>> /\ UNCHANGED <<disk, journal, cur, since, starts, crashes, throws>> /\ pc = "handle" /\ pc' = "loop"
      /\ mem' = Applied(d, mem) /\ mem.subtasks[cur].kind = "orchestrator_eval"
  BY DEF EvalApplied, Handling, At, delivery, counters
<1>3. Chooses
  BY <1>1, <1>2, AppliedType DEF Chooses
<1> DEFINE dec == Log("orchestrator_decision", cur)
           settle == Settle(cur, "completed")
           done == Log("subtask_completed", cur)
           save == Save
<1>4. todo' = <<dec>> \o ApplyDecision(d, mem) \o <<settle, done, save>>
  BY DEF EvalApplied
<1>5. mem.total \in Nat /\ mem.retries \in [Stages -> Nat] /\ mem.total < MaxTotalActions
  BY <1>1, RecipeAssumption DEF Tasks, ActionBudgetSpent
<1>6. CASE d.action \in {"run_stage_agent", "run_script"}
  <2> DEFINE sub == DecidedSubtask(d, mem)
             enqueue == Enqueue(sub)
             queued == Log("subtask_queued", NextId(mem))
  <2>1. ApplyDecision(d, mem) = <<enqueue, queued>>
    BY <1>6 DEF ApplyDecision, EndEntry
  <2>2. sub \in Subtasks /\ sub.kind \in Counted /\ sub.status = "pending"
    <3>1. EffectiveStage(mem) \in Stages /\ PayloadScript(d) \in ScriptIds \cup {None}
      BY <1>1, StageType DEF PayloadScript, Decisions
    <3>2. d.action = "run_stage_agent" => d.target \in Stages
      BY <1>1 DEF TargetStageMissing, Decisions
    <3> QED BY <1>6, <3>1, <3>2
          DEF DecidedSubtask, NewSubtask, Subtasks, Counted, Kinds, SubtaskStatuses
  <2>3. RunWrites(todo', cur, sub)
    <3>1. /\ DOMAIN todo' = 1 .. 6 /\ todo'[1] = dec /\ todo'[2] = enqueue /\ todo'[3] = queued
          /\ todo'[4] = settle /\ todo'[5] = done /\ todo'[6] = save
      <4> HIDE DEF dec, enqueue, queued, settle, done, save
      <4> QED BY <1>4, <2>1
    <3> QED BY <3>1, WriteFields DEF RunWrites
  <2>4. /\ mem'.status = mem.status /\ mem'.total = mem.total + 1 /\ mem'.human = mem.human
        /\ sub.kind = "stage_agent_run" =>
                      /\ mem'.retries = [mem.retries EXCEPT ![sub.stage] = @ + 1]
                      /\ mem.retries[sub.stage] < MaxStageRetries
        /\ sub.kind = "script_run" => mem'.retries = mem.retries
    <3>1. CASE d.action = "run_stage_agent"
      <4> DEFINE r == [mem.retries EXCEPT ![d.target] = @ + 1]
                 n == mem.total + 1
      <4>1. mem' = [mem EXCEPT !.stage = d.target, !.retries = r, !.total = n]
        BY <1>1, <1>2, <3>1 DEF Applied, Tasks, EndStatus
      <4>2. sub.kind = "stage_agent_run" /\ sub.stage = d.target /\ d.target \in Stages
        BY <1>1, <3>1 DEF DecidedSubtask, NewSubtask, TargetStageMissing, Decisions
      <4>3. mem.retries[d.target] < MaxStageRetries
        BY <1>1, <1>5, <3>1, <4>2, RecipeAssumption DEF RetryBudgetSpent
      <4> HIDE DEF r, n, sub
      <4>4. mem'.status = mem.status /\ mem'.total = n /\ mem'.human = mem.human /\ mem'.retries = r
        BY <1>1, <4>1 DEF Tasks
      <4> QED BY <4>2, <4>3, <4>4 DEF r, n
    <3>2. CASE d.action = "run_script"
      <4> DEFINE n == mem.total + 1
      <4>1. mem' = [mem EXCEPT !.total = n]
        BY <1>2, <3>2 DEF Applied, EndStatus
      <4>2. sub.kind = "script_run"
        BY <3>2 DEF DecidedSubtask, NewSubtask
      <4> HIDE DEF n, sub
      <4>4. mem'.status = mem.status /\ mem'.total = n /\ mem'.human = mem.human
            /\ mem'.retries = mem.retries
        BY <1>1, <4>1 DEF Tasks
      <4> QED BY <4>2, <4>4 DEF n
    <3> QED BY <1>6, <3>1, <3>2
  <2> HIDE DEF sub
  <2> QED BY <1>2, <1>3, <1>5, <2>1, <2>2, <2>3, <2>4
<1>7. CASE d.action \in DOMAIN EndStatus
  <2> DEFINE end == Log(EndEntry[d.action], 0)
  <2>1. ApplyDecision(d, mem) = <<end>>
    BY <1>7 DEF ApplyDecision, EndStatus, EndEntry
  <2>2. EndWrites(todo', cur, EndEntry[d.action])
    <3>1. /\ DOMAIN todo' = 1 .. 5 /\ todo'[1] = dec /\ todo'[2] = end
          /\ todo'[3] = settle /\ todo'[4] = done /\ todo'[5] = save
      <4> HIDE DEF dec, end, settle, done, save
      <4> QED BY <1>4, <2>1
    <3> QED BY <3>1 DEF EndWrites
  <2>3. mem' = [mem EXCEPT !.status = EndStatus[d.action]]
    BY <1>2, <1>7 DEF Applied, EndStatus
  <2>4. /\ mem'.status = EndStatus[d.action] /\ mem'.human = mem.human
        /\ mem'.total = mem.total /\ mem'.retries = mem.retries
    BY <1>1, <2>3 DEF Tasks
  <2> QED BY <1>2, <1>3, <1>7, <2>2, <2>4
<1>8. CASE d.action = "unknown"
  <2>1. ApplyDecision(d, mem) = <<>> /\ mem' = mem
    BY <1>2, <1>8 DEF ApplyDecision, Applied, EndStatus, EndEntry
  <2>2. UnknownWrites(todo', cur)
    <3>1. /\ DOMAIN todo' = 1 .. 4 /\ todo'[1] = dec /\ todo'[2] = settle
          /\ todo'[3] = done /\ todo'[4] = save
      <4> HIDE DEF dec, settle, done, save
      <4> QED BY <1>4, <2>1
    <3> QED BY <3>1 DEF UnknownWrites
  <2> QED BY <1>2, <1>3, <2>1, <2>2
<1> QED BY <1>1, <1>6, <1>7, <1>8 DEF Decisions, KnownActions, EndStatus

\* Entries that come before the outcome of a subtask.
Plain(s) ==
    /\ s \in Seq(HandlerWrites)
    /\ \A k \in DOMAIN s : s[k].op = "log" /\ s[k].entry.type \in PlainTypes \cup {"script_completed"}

\* Two lists of such entries make one.
LEMMA PlainConcat ==
  ASSUME NEW a, NEW b, Plain(a), Plain(b)
  PROVE  Plain(a \o b)
<1>1. a \in Seq(HandlerWrites) /\ b \in Seq(HandlerWrites) /\ a \o b \in Seq(HandlerWrites)
  BY DEF Plain
<1>2. \A k \in DOMAIN (a \o b) :
         \/ k \in DOMAIN a /\ (a \o b)[k] = a[k]
         \/ k - Len(a) \in DOMAIN b /\ (a \o b)[k] = b[k - Len(a)]
  BY <1>1
<1> QED BY <1>1, <1>2 DEF Plain

\* The artifacts of a stage or a script are such entries, and so is the end of a script.
LEMMA PlainLists ==
  ASSUME NEW id \in Nat
  PROVE  /\ \A labels \in Seq(Labels) : Plain(Artifacts(id, labels))
         /\ \A type \in {"script_started", "script_completed", "script_failed"},
               what \in ScriptIds \cup {None} : Plain(<<LogWhat(type, id, what)>>)
<1>1. ASSUME NEW labels \in Seq(Labels) PROVE Plain(Artifacts(id, labels))
  <2>1. Artifacts(id, labels) \in Seq(HandlerWrites)
    BY ArtifactsType
  <2>2. /\ DOMAIN Artifacts(id, labels) = 1 .. Len(labels)
        /\ \A i \in 1 .. Len(labels) :
             Artifacts(id, labels)[i] = LogWhat("artifact_registered", id, labels[i])
    BY DEF Artifacts
  <2>3. "artifact_registered" \in PlainTypes
    BY DEF PlainTypes
  <2> QED BY <2>1, <2>2, <2>3, WriteFields DEF Plain
<1>2. ASSUME NEW type \in {"script_started", "script_completed", "script_failed"},
             NEW what \in ScriptIds \cup {None}
      PROVE  Plain(<<LogWhat(type, id, what)>>)
  <2> DEFINE w == LogWhat(type, id, what)
  <2>1. w \in HandlerWrites
    BY LogType DEF EntryTypes
  <2>2. w.op = "log" /\ w.entry.type \in PlainTypes \cup {"script_completed"}
    BY WriteFields DEF PlainTypes
  <2> HIDE DEF w
  <2>3. <<w>> \in Seq(HandlerWrites) /\ \A k \in DOMAIN <<w>> : <<w>>[k] = w
    BY <2>1
  <2> QED BY <2>2, <2>3 DEF Plain, w
<1> QED BY <1>1, <1>2

\* The success and failure paths record an outcome, ...
LEMMA RecordPaths ==
  ASSUME NEW t \in Tasks, NEW id \in Nat, NEW input \in BOOLEAN
  PROVE  LET eval(i) == NewSubtask("orchestrator_eval", EffectiveStage(t), None, i)
         IN  /\ Recorded(RecordSuccess(t, id, input), 0, id, "completed", eval(input))
             /\ Recorded(RecordFailure(t, id), 0, id, "failed", eval(FALSE))
<1>1. ASSUME NEW status \in {"completed", "failed"}, NEW type \in {"subtask_completed", "subtask_failed"},
             type = IF status = "completed" THEN "subtask_completed" ELSE "subtask_failed",
             NEW in, NEW s,
             s = <<Settle(id, status), Log(type, id)>> \o EnqueueEval(t, in) \o <<Save>>
      PROVE  Recorded(s, 0, id, status, NewSubtask("orchestrator_eval", EffectiveStage(t), None, in))
  <2> DEFINE a == Settle(id, status)
             b == Log(type, id)
             sub == NewSubtask("orchestrator_eval", EffectiveStage(t), None, in)
             c == Enqueue(sub)
             d == Log("subtask_queued", NextId(t))
             e == Save
  <2>1. EnqueueEval(t, in) = <<c, d>>
    BY DEF EnqueueEval
  <2>2. s = <<a, b>> \o <<c, d>> \o <<e>>
    BY <1>1, <2>1
  <2>3. b.op = "log" /\ b.entry.id = id /\ b.entry.type = type
    BY WriteFields
  <2>4. d.op = "log" /\ d.entry.type = "subtask_queued"
    BY WriteFields
  <2>5. DOMAIN s = 1 .. 5 /\ s[1] = a /\ s[2] = b /\ s[3] = c /\ s[4] = d /\ s[5] = e
    <3> HIDE DEF a, b, c, d, e
    <3> QED BY <2>2
  <2> HIDE DEF b, d
  <2> QED BY <1>1, <2>3, <2>4, <2>5 DEF Recorded
<1> QED BY <1>1 DEF RecordSuccess, RecordFailure

\* ... and so do they after more entries.
LEMMA RecordedAfter ==
  ASSUME NEW a, NEW s \in Seq(HandlerWrites), NEW n, NEW id, NEW status, NEW sub,
         Plain(a), Recorded(s, n, id, status, sub)
  PROVE  Recorded(a \o s, Len(a) + n, id, status, sub)
<1> DEFINE m == Len(a) + n
           t == a \o s
<1>1. a \in Seq(HandlerWrites) /\ n \in Nat /\ m \in Nat /\ Len(a) \in Nat /\ Len(s) = n + 5
  BY DEF Plain, Recorded
<1>2. DOMAIN t = 1 .. m + 5
  BY <1>1
<1>3. \A k \in 1 .. Len(a) : t[k] = a[k]
  BY <1>1
<1>4. \A j \in 1 .. n + 5 : t[Len(a) + j] = s[j]
  BY <1>1
<1>5. /\ t[m + 1] = s[n + 1] /\ t[m + 2] = s[n + 2] /\ t[m + 3] = s[n + 3]
      /\ t[m + 4] = s[n + 4] /\ t[m + 5] = s[n + 5]
  <2>1. ASSUME NEW j \in 1 .. 5 PROVE t[m + j] = s[n + j]
    <3>1. n + j \in 1 .. n + 5 /\ m + j = Len(a) + (n + j)
      BY <1>1
    <3> HIDE DEF m, t
    <3> QED BY <1>4, <3>1
  <2>2. 1 \in 1 .. 5 /\ 2 \in 1 .. 5 /\ 3 \in 1 .. 5 /\ 4 \in 1 .. 5 /\ 5 \in 1 .. 5
    OBVIOUS
  <2> HIDE DEF m, t
  <2> QED BY <2>1, <2>2
<1>6. \A k \in 1 .. m : t[k].op = "log" /\ t[k].entry.type \in PlainTypes \cup {"script_completed"}
  <2> SUFFICES ASSUME NEW k \in 1 .. m
               PROVE  t[k].op = "log" /\ t[k].entry.type \in PlainTypes \cup {"script_completed"}
    OBVIOUS
  <2>1. CASE k <= Len(a)
    <3>1. k \in DOMAIN a /\ t[k] = a[k]
      BY <1>1, <1>3, <2>1
    <3> HIDE DEF t
    <3> QED BY <3>1 DEF Plain
  <2>2. CASE k > Len(a)
    <3>1. k - Len(a) \in 1 .. n /\ k - Len(a) \in 1 .. n + 5 /\ k = Len(a) + (k - Len(a))
      BY <1>1, <2>2
    <3>2. t[k] = s[k - Len(a)]
      BY <1>4, <3>1
    <3> HIDE DEF t, m
    <3> QED BY <3>1, <3>2 DEF Recorded
  <2> QED BY <1>1, <2>1, <2>2
<1> HIDE DEF t, m
<1>7. Recorded(t, m, id, status, sub)
  BY <1>1, <1>2, <1>5, <1>6 DEF Recorded
<1> QED BY <1>7 DEF t, m

\* The evaluation that follows a subtask.
NextEval(input) == NewSubtask("orchestrator_eval", EffectiveStage(mem), None, input)

\* A handler other than the one of orchestrator_eval records how its subtask
\* ended and queues the next evaluation; resume_after_input hands it the reply.
LEMMA HandledFacts ==
  ASSUME TypeInv, Stage \/ RunScript \/ HandleResume
  PROVE  /\ Chooses /\ pc = "handle" /\ pc' = "loop"
         /\ mem.subtasks[cur].kind # "orchestrator_eval"
         /\ mem.subtasks[cur].kind # "resume_after_input" => mem' = mem
         /\ mem.subtasks[cur].kind = "resume_after_input" =>
              mem' = [mem EXCEPT !.status = "active"]
         /\ \E n \in Nat, status \in {"completed", "failed"}, input \in BOOLEAN :
              /\ Recorded(todo', n, cur, status, NextEval(input))
              /\ mem.subtasks[cur].kind = "resume_after_input" => input = mem.human
<1> USE DEF Handling, At
<1>1. mem \in Tasks /\ cur \in Nat
  BY DEF TypeInv, RecordInv, TypeOK
<1> DEFINE success(input) == RecordSuccess(mem, cur, input)
           failure == RecordFailure(mem, cur)
<1>2. ASSUME NEW input \in BOOLEAN
      PROVE  /\ Recorded(success(input), 0, cur, "completed", NextEval(input))
             /\ success(input) \in Seq(HandlerWrites)
             /\ Recorded(failure, 0, cur, "failed", NextEval(FALSE))
             /\ failure \in Seq(HandlerWrites)
  BY <1>1, RecordPaths, RecordType DEF NextEval
<1>3. ASSUME NEW a, Plain(a)
      PROVE  /\ \E n \in Nat : Recorded(a \o success(FALSE), n, cur, "completed", NextEval(FALSE))
             /\ \E n \in Nat : Recorded(a \o failure, n, cur, "failed", NextEval(FALSE))
  <2>1. Len(a) + 0 \in Nat
    BY <1>3 DEF Plain
  <2> HIDE DEF success, failure
  <2> QED BY <1>2, <1>3, <2>1, RecordedAfter
<1>4. CASE Stage
  <2> DEFINE labels == Outputs[mem.subtasks[cur].stage]
  <2>1. labels \in Seq(Labels)
    BY <1>4, CurType DEF Stage, StageReturns, StageThrows
  <2>2. \E a : Plain(a) /\ todo' \in {a \o success(FALSE), a \o failure}
    <3>1. ASSUME NEW result \in AgentResults, StageReturns(result)
          PROVE  \E a : Plain(a) /\ todo' \in {a \o success(FALSE), a \o failure}
      <4>1. Plain(Artifacts(cur, labels)) /\ todo' = Artifacts(cur, labels) \o success(FALSE)
        BY <1>1, <2>1, <3>1, PlainLists DEF StageReturns
      <4> QED BY <4>1
    <3>2. ASSUME NEW n \in Nat, StageThrows(n)
          PROVE  \E a : Plain(a) /\ todo' \in {a \o success(FALSE), a \o failure}
      <4> DEFINE some == SubSeq(labels, 1, n)
      <4>1. todo' = Artifacts(cur, some) \o failure /\ n <= Len(labels)
        BY <3>2 DEF StageThrows
      <4>2. some \in Seq(Labels)
        <5> HIDE DEF labels
        <5> QED BY <2>1, <4>1
      <4>3. Plain(Artifacts(cur, some))
        BY <1>1, <4>2, PlainLists
      <4> HIDE DEF some, failure, success
      <4> QED BY <4>1, <4>3
    <3>3. \A s \in Stages : Len(Outputs[s]) \in Nat
      BY RecipeAssumption
    <3>4. \/ \E result \in AgentResults : StageReturns(result)
          \/ \E n \in Nat : StageThrows(n)
      BY <1>4, <3>3 DEF Stage
    <3> HIDE DEF success, failure
    <3> QED BY <3>1, <3>2, <3>4
  <2>3. /\ todo = <<>> /\ UNCHANGED <<disk, journal, cur, since, starts, crashes, throws>> /\ pc = "handle"
        /\ pc' = "loop" /\ mem' = mem /\ mem.subtasks[cur].kind = "stage_agent_run"
    BY <1>4 DEF Stage, StageReturns, StageThrows, delivery, counters
  <2> HIDE DEF success, failure
  <2>4. \E n \in Nat, status \in {"completed", "failed"} :
           Recorded(todo', n, cur, status, NextEval(FALSE))
    BY <1>3, <2>2
  <2> QED BY <2>3, <2>4 DEF Chooses
<1>5. CASE RunScript
  <2>1. Script \in ScriptIds \cup {None}
    BY <1>5, CurType DEF RunScript, ScriptBlocked, ScriptRuns
  <2>2. \E n \in Nat, status \in {"completed", "failed"} :
           Recorded(todo', n, cur, status, NextEval(FALSE))
    <3>1. CASE ScriptBlocked
      <4>1. todo' = failure
        BY <3>1 DEF ScriptBlocked
      <4> HIDE DEF failure, success
      <4> QED BY <1>2, <4>1
    <3>2. ASSUME NEW result \in ScriptResults, NEW labels \in EnvelopeLabels, ScriptRuns(result, labels)
          PROVE  \E n \in Nat, status \in {"completed", "failed"} :
                   Recorded(todo', n, cur, status, NextEval(FALSE))
      <4> DEFINE started == <<LogWhat("script_started", cur, Script)>>
                 completed == <<LogWhat("script_completed", cur, Script)>>
                 failed == <<LogWhat("script_failed", cur, Script)>>
                 registered == Artifacts(cur, labels)
                 done == success(FALSE)
      <4>1. labels \in Seq(Labels)
        <5>1. \A l \in Labels : <<l>> \in Seq(Labels)
          BY PairType
        <5>2. <<>> \in Seq(Labels)
          OBVIOUS
        <5> QED BY <5>1, <5>2 DEF EnvelopeLabels
      <4>2. Plain(started) /\ Plain(completed) /\ Plain(failed) /\ Plain(registered)
        BY <1>1, <2>1, <4>1, PlainLists
      <4>3. todo' \in {started \o (registered \o completed \o done), started \o done,
                       started \o (failed \o failure), started \o (registered \o failure)}
        BY <3>2 DEF ScriptRuns, ScriptWrites, ScriptResults
      <4>4. /\ done \in Seq(HandlerWrites) /\ failure \in Seq(HandlerWrites)
            /\ started \in Seq(HandlerWrites) /\ completed \in Seq(HandlerWrites)
            /\ failed \in Seq(HandlerWrites) /\ registered \in Seq(HandlerWrites)
        <5>1. done \in Seq(HandlerWrites) /\ failure \in Seq(HandlerWrites)
          BY <1>2
        <5> HIDE DEF started, completed, failed, registered, done, failure
        <5> QED BY <4>2, <5>1 DEF Plain
      <4> DEFINE all == registered \o completed \o done
                 front == registered \o completed
      <4>5. Plain(front) /\ all = front \o done
        BY <4>2, PlainConcat
      <4> HIDE DEF started, completed, failed, registered, done, failure
      <4>6. ASSUME NEW b, b \in Seq(HandlerWrites), NEW m \in Nat, NEW status,
                   Recorded(b, m, cur, status, NextEval(FALSE))
            PROVE  \E n \in Nat : Recorded(started \o b, n, cur, status, NextEval(FALSE))
        <5>1. Len(started) + m \in Nat
          BY <4>4, <4>6
        <5> QED BY <4>2, <4>6, <5>1, RecordedAfter
      <4>7. \E n \in Nat : Recorded(started \o (front \o done), n, cur, "completed", NextEval(FALSE))
        <5>1. front \o done \in Seq(HandlerWrites)
          BY <4>4
        <5> HIDE DEF front
        <5>2. \E m \in Nat : Recorded(front \o done, m, cur, "completed", NextEval(FALSE))
          BY <1>3, <4>5 DEF done
        <5> QED BY <4>6, <5>1, <5>2
      <4>8. \E n \in Nat : Recorded(started \o done, n, cur, "completed", NextEval(FALSE))
        BY <1>3, <4>2 DEF done
      <4>9. \E n \in Nat : Recorded(started \o (failed \o failure), n, cur, "failed", NextEval(FALSE))
        <5>1. failed \o failure \in Seq(HandlerWrites)
          BY <4>4
        <5>2. \E m \in Nat : Recorded(failed \o failure, m, cur, "failed", NextEval(FALSE))
          BY <1>3, <4>2
        <5> QED BY <4>6, <5>1, <5>2
      <4>10. \E n \in Nat : Recorded(started \o (registered \o failure), n, cur, "failed", NextEval(FALSE))
        <5>1. registered \o failure \in Seq(HandlerWrites)
          BY <4>4
        <5>2. \E m \in Nat : Recorded(registered \o failure, m, cur, "failed", NextEval(FALSE))
          BY <1>3, <4>2
        <5> QED BY <4>6, <5>1, <5>2
      <4> HIDE DEF front
      <4> QED BY <4>3, <4>5, <4>7, <4>8, <4>9, <4>10
    <3> QED BY <1>5, <3>1, <3>2 DEF RunScript
  <2>3. /\ todo = <<>> /\ UNCHANGED <<disk, journal, cur, since, starts, crashes, throws>> /\ pc = "handle"
        /\ pc' = "loop" /\ mem' = mem /\ mem.subtasks[cur].kind = "script_run"
    BY <1>5 DEF RunScript, ScriptBlocked, ScriptRuns, delivery, counters
  <2> QED BY <2>2, <2>3 DEF Chooses
<1>6. CASE HandleResume
  <2>1. /\ todo = <<>> /\ UNCHANGED <<disk, journal, cur, since, starts, crashes, throws>> /\ pc = "handle"
        /\ pc' = "loop" /\ mem' = [mem EXCEPT !.status = "active"]
        /\ mem.subtasks[cur].kind = "resume_after_input" /\ todo' = success(mem.human)
    BY <1>6 DEF HandleResume, delivery, counters
  <2>2. mem.human \in BOOLEAN
    BY <1>1 DEF Tasks
  <2>3. mem'.subtasks = mem.subtasks /\ mem'.queue = mem.queue /\ mem'.active = mem.active
    BY <1>1, <2>1 DEF Tasks
  <2>4. Recorded(todo', 0, cur, "completed", NextEval(mem.human))
    BY <1>2, <2>1, <2>2
  <2> HIDE DEF success
  <2> QED BY <2>1, <2>2, <2>3, <2>4 DEF Chooses
<1> QED BY <1>4, <1>5, <1>6

\* Too many rejections fail the subtask and the task.
LEMMA ExhaustedFacts ==
  ASSUME TypeInv, EvalExhausted
  PROVE  /\ Chooses /\ pc = "handle" /\ pc' = "loop" /\ mem.subtasks[cur].kind = "orchestrator_eval"
         /\ mem'.status = "failed" /\ mem'.total = mem.total /\ mem'.retries = mem.retries
         /\ mem'.human = mem.human
         /\ todo' = <<Settle(cur, "failed"), Log("subtask_failed", cur), Log("task_failed", 0), Save>>
<1>1. mem \in Tasks
  BY DEF TypeInv, RecordInv, TypeOK
<1> QED BY <1>1 DEF EvalExhausted, Handling, At, delivery, counters, Chooses, Tasks

\* A reply resumes a paused task.
LEMMA ResumeFacts ==
  ASSUME TypeInv, Resume
  PROVE  /\ Chooses /\ pc = "idle" /\ pc' = "entry" /\ mem.status = "paused"
         /\ mem'.status = "active" /\ mem'.total = mem.total /\ mem'.retries = mem.retries
         /\ mem'.human = TRUE
         /\ todo' = <<Enqueue(NewSubtask("resume_after_input", EffectiveStage(mem), None, FALSE)),
                      Log("task_resumed", 0), Save>>
<1>1. mem \in Tasks
  BY DEF TypeInv, RecordInv, TypeOK
<1> QED BY <1>1 DEF Resume, At, delivery, Chooses, Tasks

\* A pause expires.
LEMMA ExpireFacts ==
  ASSUME TypeInv, CheckTimeouts
  PROVE  /\ Chooses /\ pc = "idle" /\ pc' = "idle" /\ mem.status = "paused"
         /\ mem'.status = "waiting" /\ mem'.total = mem.total /\ mem'.retries = mem.retries
         /\ mem'.human = mem.human /\ todo' = <<Log("task_waiting", 0), Save>>
<1>1. mem \in Tasks
  BY DEF TypeInv, RecordInv, TypeOK
<1> QED BY <1>1 DEF CheckTimeouts, At, delivery, counters, Chooses, Tasks

\* A crash or an exception leaves what is on the disk.
LEMMA DropFacts ==
  ASSUME TypeInv, RunTaskThrows \/ Crash
  PROVE  /\ pc' \in {"idle", "down"} /\ todo' = <<>> /\ mem' = disk
         /\ UNCHANGED <<disk, journal, since, starts>> /\ ~(crashes' = 0 /\ throws' = 0)
<1>1. crashes \in Nat /\ throws \in Nat
  BY RuntimeAssumption DEF TypeInv, RecordInv, TypeOK
<1> QED BY <1>1 DEF RunTaskThrows, Crash, DropRun, InRunTask

\* A restart leaves an active task's queue to be rebuilt.
LEMMA RestartFacts ==
  ASSUME TypeInv, Restart
  PROVE  /\ pc = "down"
         /\ UNCHANGED <<mem, disk, journal, cur, since, starts, crashes, throws>>
         /\ \/ pc' = "entry" /\ mem.status = "active" /\ todo' = RebuildQueue(mem)
            \/ pc' = "idle" /\ todo' = todo
  BY DEF Restart, Recover, delivery, counters

\* The queue hands the job over or ends it, and runTask returns.
LEMMA PlaceFacts ==
  ASSUME Deliver \/ JobEnds \/ LeaveLoop
  PROVE  /\ todo = <<>>
         /\ UNCHANGED <<todo, mem, disk, journal, since, starts, crashes, throws>>
         /\ \/ pc = "idle" /\ pc' = "fetched"
            \/ pc = "idle" /\ pc' = "idle"
            \/ pc = "loop" /\ pc' = "idle"
  BY DEF Deliver, JobEnds, LeaveLoop, At, delivery, counters

\* The first write of a run on the job's copy: a fresh record with one
\* evaluation, on disk and in memory.
LEMMA BeginRunFacts ==
  ASSUME TypeInv, BeginRun
  PROVE  /\ pc = "fetched" /\ pc' = "loop" /\ todo = <<>>
         /\ UNCHANGED <<journal, cur, crashes, throws>> /\ disk' = mem'
         /\ since' = Len(journal) /\ starts' = starts + 1
         /\ mem'.status \in InitialStatuses /\ mem'.status \in {"queued", "active"}
         /\ mem'.total = 0 /\ mem'.retries = [s \in Stages |-> 0]
         /\ mem'.active = 0 /\ mem'.human = FALSE /\ mem'.queue = <<1>>
         /\ Len(mem'.subtasks) = 1 /\ DOMAIN mem'.subtasks = {1}
         /\ mem'.subtasks[1].kind = "orchestrator_eval" /\ mem'.subtasks[1].status = "pending"
         /\ Len(todo') = 1 /\ DOMAIN todo' = {1} /\ todo'[1].op = "log"
         /\ todo'[1].entry.type = "subtask_queued"
<1> DEFINE t == [Delivered EXCEPT !.stage = EffectiveStage(Delivered)]
           sub == NewSubtask("orchestrator_eval", EffectiveStage(Delivered), None, FALSE)
           w == Log("subtask_queued", NextId(Delivered))
<1>1. /\ pc = "fetched" /\ pc' = "loop" /\ todo = <<>>
      /\ UNCHANGED <<journal, cur, crashes, throws>> /\ disk' = mem'
      /\ since' = Len(journal) /\ starts' = starts + 1
      /\ mem' = EnqueueSubtask(t, sub) /\ todo' = <<w>>
  BY DEF BeginRun, At, counters
<1>2. job.status \in InitialStatuses /\ job.status \in {"queued", "active"}
  BY RuntimeAssumption DEF TypeInv, RecordInv, TypeOK, Jobs
<1>3. Delivered \in Tasks /\ EffectiveStage(Delivered) \in Stages
  <2>1. job.status \in TaskStatuses \cup {"unsaved"}
    BY <1>2 DEF TaskStatuses
  <2> QED BY <2>1, NewTaskType, StageType DEF Delivered
<1>4. sub \in Subtasks /\ sub.kind = "orchestrator_eval" /\ sub.status = "pending"
  BY <1>3 DEF NewSubtask, Subtasks, Kinds, SubtaskStatuses
<1>5. /\ t \in Tasks /\ t.subtasks = <<>> /\ t.queue = <<>> /\ t.active = 0 /\ t.human = FALSE
      /\ t.total = 0 /\ t.retries = [s \in Stages |-> 0] /\ t.status = job.status
  <2> DEFINE e == EffectiveStage(Delivered)
  <2>1. e \in Stages \cup {None}
    BY <1>3
  <2>2. /\ Delivered.subtasks = <<>> /\ Delivered.queue = <<>> /\ Delivered.active = 0
        /\ Delivered.human = FALSE /\ Delivered.total = 0
        /\ Delivered.retries = [s \in Stages |-> 0] /\ Delivered.status = job.status
    BY DEF Delivered, NewTask
  <2> HIDE DEF e
  <2>3. t = [Delivered EXCEPT !.stage = e]
    BY DEF e
  <2> QED BY <1>3, <2>1, <2>2, <2>3 DEF Tasks
<1>6. w.op = "log" /\ w.entry.type = "subtask_queued"
  BY WriteFields
<1> HIDE DEF t, sub, w
<1>7. /\ mem'.subtasks = Append(t.subtasks, sub) /\ mem'.queue = Append(t.queue, Len(t.subtasks) + 1)
      /\ mem'.active = t.active /\ Rest(mem') = Rest(t)
  BY <1>1, <1>4, <1>5, EnqueuedTask, EnqueuedFields
<1>8. mem'.subtasks = <<sub>> /\ mem'.queue = <<1>>
  BY <1>5, <1>7
<1>9. /\ Len(mem'.subtasks) = 1 /\ DOMAIN mem'.subtasks = {1} /\ mem'.subtasks[1] = sub
      /\ Len(todo') = 1 /\ DOMAIN todo' = {1} /\ todo'[1] = w
  BY <1>1, <1>8
<1> QED BY <1>1, <1>2, <1>4, <1>5, <1>6, <1>7, <1>8, <1>9 DEF Rest

\* The next subtask leaves the queue.
LEMMA DequeueFacts ==
  ASSUME TypeInv, Dequeue
  PROVE  /\ pc = "loop" /\ pc' = "dequeued" /\ todo = <<>> /\ todo' = <<>>
         /\ UNCHANGED <<journal, since, starts, crashes, throws>> /\ disk' = mem'
         /\ mem.status \notin TerminalStatuses /\ mem.queue # <<>> /\ cur' = Head(mem.queue)
         /\ mem'.subtasks = mem.subtasks /\ mem'.queue = Tail(mem.queue)
         /\ mem'.active = mem.active /\ Rest(mem') = Rest(mem)
<1>1. mem \in Tasks
  BY DEF TypeInv, RecordInv, TypeOK
<1>2. /\ pc = "loop" /\ pc' = "dequeued" /\ todo = <<>> /\ todo' = <<>>
      /\ UNCHANGED <<journal, since, starts, crashes, throws>> /\ disk' = mem' /\ mem' = DequeueNext(mem)
      /\ mem.status \notin TerminalStatuses /\ mem.queue # <<>> /\ cur' = Head(mem.queue)
  BY DEF Dequeue, At, delivery, counters
<1>3. mem'.subtasks = mem.subtasks /\ mem'.queue = Tail(mem.queue)
  BY <1>1, <1>2, DequeuedTask
<1> DEFINE q == Tail(mem.queue)
<1>4. mem' = [mem EXCEPT !.queue = q]
  BY <1>2 DEF DequeueNext
<1> HIDE DEF q
<1>5. mem'.active = mem.active /\ Rest(mem') = Rest(mem)
  BY <1>1, <1>4 DEF Tasks, Rest
<1> QED BY <1>2, <1>3, <1>5

\* It becomes the active one, ...
LEMMA ActivateFacts ==
  ASSUME TypeInv, Activate
  PROVE  /\ pc = "dequeued" /\ pc' = "activated" /\ todo = <<>> /\ todo' = <<>>
         /\ UNCHANGED <<journal, cur, since, starts, crashes, throws>> /\ disk' = mem'
         /\ cur \in DOMAIN mem.subtasks /\ mem'.active = cur /\ mem'.queue = mem.queue
         /\ Rest(mem') = Rest(mem)
         /\ DOMAIN mem'.subtasks = DOMAIN mem.subtasks /\ Len(mem'.subtasks) = Len(mem.subtasks)
         /\ \A i \in DOMAIN mem.subtasks :
              /\ mem'.subtasks[i].kind = mem.subtasks[i].kind
              /\ mem'.subtasks[i].stage = mem.subtasks[i].stage
              /\ mem'.subtasks[i].input = mem.subtasks[i].input
              /\ i = cur => mem'.subtasks[i].status = "active"
              /\ i # cur => mem'.subtasks[i].status = mem.subtasks[i].status
<1>1. mem \in Tasks /\ cur \in Nat /\ "active" \in SubtaskStatuses
  BY DEF TypeInv, RecordInv, TypeOK, SubtaskStatuses
<1>2. /\ pc = "dequeued" /\ pc' = "activated" /\ todo = <<>> /\ todo' = <<>>
      /\ UNCHANGED <<journal, cur, since, starts, crashes, throws>> /\ disk' = mem'
      /\ mem' = MarkSubtask(mem, cur, "active", cur)
  BY DEF Activate, At, delivery, counters, MarkSubtaskActive
<1>3. cur \in DOMAIN mem.subtasks
  BY <1>2 DEF TypeInv, RecordInv, CurKnown
<1>4. /\ mem'.active = cur /\ mem'.queue = mem.queue /\ Rest(mem') = Rest(mem)
      /\ DOMAIN mem'.subtasks = DOMAIN mem.subtasks /\ Len(mem'.subtasks) = Len(mem.subtasks)
      /\ \A i \in DOMAIN mem.subtasks :
           /\ mem'.subtasks[i].kind = mem.subtasks[i].kind
           /\ mem'.subtasks[i].stage = mem.subtasks[i].stage
           /\ mem'.subtasks[i].input = mem.subtasks[i].input
           /\ i = cur => mem'.subtasks[i].status = "active"
           /\ i # cur => mem'.subtasks[i].status = mem.subtasks[i].status
  BY <1>1, <1>2, MarkedFields
<1> QED BY <1>2, <1>3, <1>4

\* ... and its start is logged.
LEMMA StartedFacts ==
  ASSUME TypeInv, LogStarted
  PROVE  /\ pc = "activated" /\ pc' = "handle" /\ todo = <<>> /\ todo' = <<>>
         /\ UNCHANGED <<mem, disk, cur, since, starts, crashes, throws>>
         /\ DOMAIN journal' = DOMAIN journal \cup {Len(journal) + 1}
         /\ Len(journal) + 1 \notin DOMAIN journal
         /\ \A i \in DOMAIN journal : journal'[i] = journal[i] /\ i < Len(journal) + 1
         /\ journal'[Len(journal) + 1].type = "subtask_started"
<1> DEFINE e == Log("subtask_started", cur).entry
<1>1. /\ pc = "activated" /\ pc' = "handle" /\ todo = <<>> /\ todo' = <<>>
      /\ UNCHANGED <<mem, disk, cur, since, starts, crashes, throws>>
      /\ journal' = Append(journal, e) /\ journal \in Seq(Entries)
  BY DEF LogStarted, At, delivery, counters, TypeInv, RecordInv, TypeOK
<1>2. e.type = "subtask_started"
  BY WriteFields
<1> HIDE DEF e
<1> QED BY <1>1, <1>2

\* Every step is one of these.
LEMMA StepCases ==
  ASSUME [Next]_vars
  PROVE  \/ Deliver \/ JobEnds \/ LeaveLoop \/ BeginRun
         \/ EnterRunTask \/ Dequeue \/ Activate \/ LogStarted \/ DoStep
         \/ EvalUnparsable \/ (\E d \in Replies : EvalRejected(d))
         \/ (\E d \in Replies : EvalApplied(d)) \/ EvalExhausted
         \/ Stage \/ RunScript \/ HandleResume
         \/ Resume \/ CheckTimeouts \/ RunTaskThrows \/ Crash \/ Restart
         \/ UNCHANGED vars
  BY DEF Next, WorkerStep, Eval

(***************************************************************************)
(* The durable status                                                      *)
(***************************************************************************)
\* The record in memory is the one on disk, or one move of TaskLifecycle
\* ahead of it.
AheadByOne ==
    \/ mem.status = disk.status /\ mem.total = disk.total
    \/ /\ disk.status \in {"queued", "active"} /\ mem.status = disk.status
       /\ mem.total = disk.total + 1 /\ disk.total < MaxTotalActions
    \/ /\ disk.status \in {"queued", "active"} /\ mem.total = disk.total
       /\ mem.status \in {"paused", "completed", "failed"}
    \/ /\ disk.status = "paused" /\ mem.total = disk.total
       /\ mem.status \in {"active", "waiting"}

\* Whatever is ahead of the disk is saved by a write still to be made.
SavedSoon == mem = disk \/ \E k \in DOMAIN todo : todo[k].op # "log"

\* The status the task has where the process is.
RunningPlaces ==
    /\ pc \in {"down", "fetched"} => todo = <<>>
    /\ pc = "entry" => mem.status = "active"
    /\ pc = "loop" => mem.status \in {"queued", "active", "paused", "completed", "failed"}
    /\ pc \in {"dequeued", "activated", "handle"} =>
           mem = disk /\ mem.status \in {"queued", "active"}

\* A task with a subtask of a resume is no longer "queued": resume_after_input
\* sets the status it finds.
NeverResumed ==
    disk.status \in {"unsaved", "queued"} =>
        /\ \A i \in DOMAIN mem.subtasks : mem.subtasks[i].kind # "resume_after_input"
        /\ \A k \in Places(todo, "enqueue") : todo[k].sub.kind # "resume_after_input"

\* The inductive invariant of StartsOnlyRunning and of the refinement.
StatusInv == AheadByOne /\ SavedSoon /\ RunningPlaces /\ NeverResumed

\* With nothing left to write, the disk is up to date.
LEMMA UpToDate ==
  ASSUME StatusInv, todo = <<>>
  PROVE  mem = disk
  BY DEF StatusInv, SavedSoon

\* The initial states satisfy the invariant.
LEMMA StatusInit == Init => StatusInv
  BY DEF Init, NewTask, StatusInv, AheadByOne, SavedSoon, RunningPlaces, NeverResumed, Places

\* A write keeps the invariant.
LEMMA StatusDoStep == TypeInv /\ StatusInv /\ DoStep => StatusInv'
<1> SUFFICES ASSUME TypeInv, StatusInv, DoStep PROVE StatusInv'
  OBVIOUS
<1>1. pc \notin {"down", "fetched"} /\ pc' = pc
  BY Shifted, DoStepKeeps DEF StatusInv, RunningPlaces
<1>2. CASE todo[1].op = "log"
  <2>1. mem' = mem /\ disk' = disk
    BY <1>2, DoStepKeeps
  <2>2. AheadByOne' /\ RunningPlaces'
    BY <1>1, <2>1 DEF StatusInv, AheadByOne, RunningPlaces
  <2>3. SavedSoon'
    BY <1>1, <1>2, <2>1, Shifted DEF StatusInv, SavedSoon
  <2>4. NeverResumed'
    BY <2>1, ShiftedPlaces DEF StatusInv, NeverResumed
  <2> QED BY <2>2, <2>3, <2>4 DEF StatusInv
<1>3. CASE todo[1].op # "log"
  <2>1. disk' = mem' /\ mem'.status = mem.status
    BY <1>3, DoStepKeeps DEF Rest
  <2>2. AheadByOne' /\ SavedSoon' /\ RunningPlaces'
    BY <1>1, <2>1 DEF StatusInv, AheadByOne, SavedSoon, RunningPlaces
  <2>3. NeverResumed'
    <3> SUFFICES ASSUME disk'.status \in {"unsaved", "queued"}
                 PROVE  /\ \A i \in DOMAIN mem'.subtasks : mem'.subtasks[i].kind # "resume_after_input"
                        /\ \A k \in Places(todo', "enqueue") : todo'[k].sub.kind # "resume_after_input"
      BY DEF NeverResumed
    <3>1. disk.status \in {"unsaved", "queued"}
      BY <2>1 DEF StatusInv, AheadByOne
    <3>2. /\ \A i \in DOMAIN mem.subtasks : mem.subtasks[i].kind # "resume_after_input"
          /\ \A k \in Places(todo, "enqueue") : todo[k].sub.kind # "resume_after_input"
      BY <3>1 DEF StatusInv, NeverResumed
    <3>3. \A k \in Places(todo', "enqueue") : todo'[k].sub.kind # "resume_after_input"
      BY <3>2, ShiftedPlaces
    <3>4. CASE todo[1].op = "enqueue"
      <4>1. 1 \in Places(todo, "enqueue")
        BY <3>4, Shifted DEF Places
      <4> QED BY <3>2, <3>3, <3>4, <4>1, DoStepEnqueues
    <3>5. CASE todo[1].op \in {"settle", "unset", "save"}
      BY <3>2, <3>3, <3>5, DoStepSettles
    <3> QED BY <1>3, <3>4, <3>5, DoStepKeeps
  <2> QED BY <2>2, <2>3 DEF StatusInv
<1> QED BY <1>2, <1>3

\* A step that chooses what to write moves the status in memory by one, and
\* only from a record that is up to date.
LEMMA StatusChooses ==
  ASSUME TypeInv, StatusInv, Chooses,
         AheadByOne', SavedSoon', pc' \in {"idle", "entry", "loop"},
         pc' = "entry" => mem'.status = "active",
         pc' = "loop" => mem'.status \in {"queued", "active", "paused", "completed", "failed"},
         disk.status \in {"unsaved", "queued"} =>
           \A k \in Places(todo', "enqueue") : todo'[k].sub.kind # "resume_after_input"
  PROVE  StatusInv'
<1>1. RunningPlaces'
  BY DEF RunningPlaces
<1>2. NeverResumed'
  BY DEF StatusInv, NeverResumed, Chooses
<1> QED BY <1>1, <1>2 DEF StatusInv

\* Every step keeps the invariant.
LEMMA StatusStep == TypeInv /\ StatusInv /\ [Next]_vars => StatusInv'
<1> SUFFICES ASSUME TypeInv, StatusInv, [Next]_vars PROVE StatusInv'
  OBVIOUS
<1>a. /\ MaxTotalActions \in Nat /\ mem.total \in Nat /\ disk.total \in Nat
      /\ EndStatus.finish_run = "completed" /\ EndStatus.fail_run = "failed"
      /\ EndStatus.pause_for_input = "paused"
      /\ DOMAIN EndStatus = {"finish_run", "fail_run", "pause_for_input"}
  BY RecipeAssumption DEF TypeInv, RecordInv, TypeOK, Tasks, EndStatus
<1>b. ASSUME pc = "handle" PROVE mem = disk /\ mem.status \in {"queued", "active"}
  BY <1>b DEF StatusInv, RunningPlaces
<1>1. CASE Deliver \/ JobEnds \/ LeaveLoop
  <2>1. todo = <<>> /\ UNCHANGED <<todo, mem, disk>> /\ pc' \in {"idle", "fetched"}
    BY <1>1, PlaceFacts
  <2>2. mem = disk
    BY <2>1, UpToDate
  <2> QED BY <2>1, <2>2 DEF StatusInv, AheadByOne, SavedSoon, RunningPlaces, NeverResumed
<1>16. CASE BeginRun
  <2>1. /\ pc' = "loop" /\ disk' = mem' /\ mem'.status \in {"queued", "active"}
        /\ DOMAIN mem'.subtasks = {1} /\ mem'.subtasks[1].kind = "orchestrator_eval"
        /\ DOMAIN todo' = {1} /\ todo'[1].op = "log"
    BY <1>16, BeginRunFacts
  <2>2. NeverResumed'
    BY <2>1 DEF NeverResumed, Places
  <2> QED BY <2>1, <2>2 DEF StatusInv, AheadByOne, SavedSoon, RunningPlaces
<1>2. CASE EnterRunTask
  <2>1. /\ Chooses /\ pc = "entry" /\ pc' = "loop"
        /\ mem'.status = mem.status /\ mem'.total = mem.total /\ disk' = disk
    BY <1>2, EnterFacts DEF Chooses
  <2>2. AheadByOne' /\ mem'.status \in {"queued", "active"}
    BY <2>1 DEF StatusInv, AheadByOne, RunningPlaces
  <2>3. CASE mem.queue # <<>> /\ mem' = mem /\ todo' = <<>>
    <3>1. mem = disk
      BY <2>1, <2>3, UpToDate DEF Chooses
    <3>2. SavedSoon' /\ Places(todo', "enqueue") = {}
      BY <2>1, <2>3, <3>1 DEF SavedSoon, Places
    <3> QED BY <2>1, <2>2, <3>2, StatusChooses
  <2>4. CASE \E q \in Nat :
                 todo' = <<Enqueue(NewSubtask("orchestrator_eval", EffectiveStage(mem), None, FALSE)),
                           Log("subtask_queued", q)>>
    <3> DEFINE sub == NewSubtask("orchestrator_eval", EffectiveStage(mem), None, FALSE)
    <3>4. PICK q \in Nat : todo' = <<Enqueue(sub), Log("subtask_queued", q)>>
      BY <2>4
    <3>5. sub.kind = "orchestrator_eval"
      BY DEF NewSubtask
    <3> HIDE DEF sub
    <3>6. Places(todo', "enqueue") = {1} /\ todo'[1].sub = sub /\ 1 \in DOMAIN todo'
      BY <3>4, EvalPlaces
    <3>1. /\ Places(todo', "enqueue") = {1} /\ todo'[1].sub.kind = "orchestrator_eval"
          /\ 1 \in DOMAIN todo'
      BY <3>5, <3>6
    <3>2. SavedSoon'
      BY <3>1 DEF SavedSoon, Places
    <3> QED BY <2>1, <2>2, <3>1, <3>2, StatusChooses
  <2> QED BY <1>2, <2>3, <2>4, EnterFacts
<1>3. CASE Dequeue
  <2>1. /\ pc = "loop" /\ pc' = "dequeued" /\ todo = <<>> /\ todo' = <<>> /\ disk' = mem'
        /\ mem.status \notin TerminalStatuses /\ mem'.subtasks = mem.subtasks
        /\ mem'.status = mem.status /\ mem'.total = mem.total
    BY <1>3, DequeueFacts DEF Rest
  <2>2. mem = disk
    BY <2>1, UpToDate
  <2>3. mem'.status \in {"queued", "active"}
    BY <2>1 DEF StatusInv, RunningPlaces, TerminalStatuses
  <2>4. NeverResumed'
    BY <2>1, <2>2 DEF StatusInv, NeverResumed, Places
  <2> QED BY <2>1, <2>3, <2>4 DEF StatusInv, AheadByOne, SavedSoon, RunningPlaces
<1>4. CASE Activate
  <2>1. /\ pc = "dequeued" /\ pc' = "activated" /\ todo' = <<>> /\ disk' = mem'
        /\ mem'.status = mem.status
        /\ DOMAIN mem'.subtasks = DOMAIN mem.subtasks
        /\ \A i \in DOMAIN mem.subtasks : mem'.subtasks[i].kind = mem.subtasks[i].kind
    BY <1>4, ActivateFacts DEF Rest
  <2>2. mem = disk /\ mem'.status \in {"queued", "active"}
    BY <2>1 DEF StatusInv, RunningPlaces
  <2>3. NeverResumed'
    BY <2>1, <2>2 DEF StatusInv, NeverResumed, Places
  <2> QED BY <2>1, <2>2, <2>3 DEF StatusInv, AheadByOne, SavedSoon, RunningPlaces
<1>5. CASE LogStarted
  <2>1. pc = "activated" /\ pc' = "handle" /\ UNCHANGED <<mem, disk, todo>>
    BY <1>5, StartedFacts
  <2>2. AheadByOne' /\ NeverResumed' /\ RunningPlaces' /\ mem' = disk'
    BY <2>1 DEF StatusInv, AheadByOne, NeverResumed, RunningPlaces
  <2> QED BY <2>2 DEF StatusInv, SavedSoon
<1>6. CASE DoStep
  BY <1>6, StatusDoStep
<1>7. CASE EvalUnparsable \/ \E d \in Replies : EvalRejected(d)
  <2>1. /\ Chooses /\ pc = "handle" /\ pc' = "handle" /\ mem' = mem /\ disk' = disk
        /\ Places(todo', "enqueue") = {}
    BY <1>7, RejectFacts, RejectPlaces DEF Chooses, NoSubtaskWrites
  <2>2. AheadByOne' /\ NeverResumed' /\ RunningPlaces' /\ mem' = disk'
    BY <2>1 DEF StatusInv, AheadByOne, NeverResumed, RunningPlaces
  <2> QED BY <2>2 DEF StatusInv, SavedSoon
<1>8. ASSUME NEW d \in Replies, EvalApplied(d) PROVE StatusInv'
  <2>1. /\ Chooses /\ pc = "handle" /\ pc' = "loop" /\ mem = disk /\ disk' = disk
        /\ mem.status \in {"queued", "active"}
    BY <1>8, <1>b, AppliedFacts DEF Chooses
  <2>2. ASSUME NEW sub \in Subtasks, sub.kind \in Counted, mem'.status = mem.status,
               mem'.total = mem.total + 1, mem.total < MaxTotalActions, RunWrites(todo', cur, sub)
        PROVE  StatusInv'
    <3>1. AheadByOne' /\ mem'.status \in {"queued", "active"}
      BY <2>1, <2>2 DEF AheadByOne
    <3>2. Places(todo', "enqueue") = {2} /\ todo'[2].sub.kind # "resume_after_input"
      BY <2>2, RunPlaces DEF Counted
    <3>3. SavedSoon'
      BY <3>2 DEF SavedSoon, Places
    <3> QED BY <2>1, <3>1, <3>2, <3>3, StatusChooses
  <2>3. ASSUME NEW a \in DOMAIN EndStatus, mem'.status = EndStatus[a], mem'.total = mem.total,
               EndWrites(todo', cur, EndEntry[a])
        PROVE  StatusInv'
    <3>1. AheadByOne' /\ mem'.status \in {"paused", "completed", "failed"}
      BY <1>a, <2>1, <2>3 DEF AheadByOne
    <3>2. Places(todo', "enqueue") = {} /\ Places(todo', "settle") = {3}
      BY <2>3, EndPlaces
    <3>3. SavedSoon'
      BY <3>2 DEF SavedSoon, Places
    <3> QED BY <2>1, <3>1, <3>2, <3>3, StatusChooses
  <2>4. ASSUME mem' = mem, UnknownWrites(todo', cur) PROVE StatusInv'
    <3>1. AheadByOne' /\ mem'.status \in {"queued", "active"}
      BY <2>1, <2>4 DEF AheadByOne
    <3>2. Places(todo', "enqueue") = {}
      BY <2>4, UnknownPlaces
    <3>3. SavedSoon'
      BY <2>1, <2>4 DEF SavedSoon
    <3> QED BY <2>1, <3>1, <3>2, <3>3, StatusChooses
  <2> QED BY <1>8, <2>2, <2>3, <2>4, AppliedFacts
<1>9. CASE EvalExhausted
  <2>1. /\ Chooses /\ pc = "handle" /\ pc' = "loop" /\ mem = disk /\ disk' = disk
        /\ mem.status \in {"queued", "active"} /\ mem'.status = "failed" /\ mem'.total = mem.total
        /\ Places(todo', "enqueue") = {} /\ Places(todo', "settle") = {1}
    BY <1>9, <1>b, ExhaustedFacts, ExhaustedPlaces DEF Chooses
  <2>2. AheadByOne' /\ SavedSoon'
    BY <2>1 DEF AheadByOne, SavedSoon, Places
  <2> QED BY <2>1, <2>2, StatusChooses
<1>10. CASE Stage \/ RunScript \/ HandleResume
  <2>1. /\ Chooses /\ pc = "handle" /\ pc' = "loop" /\ mem = disk /\ disk' = disk
        /\ mem.status \in {"queued", "active"}
    BY <1>10, <1>b, HandledFacts DEF Chooses
  <2>2. mem' = mem
    <3>1. CASE mem.subtasks[cur].kind = "resume_after_input"
      <4>1. mem.status = "active"
        BY <2>1, <3>1 DEF StatusInv, NeverResumed, TypeInv, RecordInv, CurKnown
      <4>2. mem' = [mem EXCEPT !.status = "active"]
        BY <1>10, <3>1, HandledFacts
      <4> QED BY <4>1, <4>2 DEF TypeInv, RecordInv, TypeOK, Tasks
    <3>2. CASE mem.subtasks[cur].kind # "resume_after_input"
      BY <1>10, <3>2, HandledFacts
    <3> QED BY <3>1, <3>2
  <2>3. PICK n \in Nat, status \in {"completed", "failed"}, input \in BOOLEAN :
               Recorded(todo', n, cur, status, NextEval(input))
    BY <1>10, HandledFacts
  <2>4. Places(todo', "enqueue") = {n + 3} /\ todo'[n + 3].sub = NextEval(input)
    BY <2>3, RecordedPlaces
  <2>5. NextEval(input).kind = "orchestrator_eval"
    BY NewSubtaskFields DEF NextEval
  <2>6. AheadByOne' /\ SavedSoon'
    BY <2>1, <2>2 DEF AheadByOne, SavedSoon
  <2> QED BY <2>1, <2>2, <2>4, <2>5, <2>6, StatusChooses
<1>11. CASE Resume
  <2>1. /\ Chooses /\ pc = "idle" /\ pc' = "entry" /\ todo = <<>> /\ disk' = disk
        /\ mem.status = "paused" /\ mem'.status = "active" /\ mem'.total = mem.total
    BY <1>11, ResumeFacts DEF Chooses
  <2>4. Places(todo', "enqueue") = {1}
    <3> DEFINE sub == NewSubtask("resume_after_input", EffectiveStage(mem), None, FALSE)
    <3>1. todo' = <<Enqueue(sub), Log("task_resumed", 0), Save>>
      BY <1>11, ResumeFacts
    <3> HIDE DEF sub
    <3> QED BY <3>1, ResumePlaces
  <2>2. mem = disk
    BY <2>1, UpToDate
  <2>3. AheadByOne' /\ SavedSoon'
    BY <2>1, <2>2, <2>4 DEF AheadByOne, SavedSoon, Places
  <2> QED BY <2>1, <2>2, <2>3, StatusChooses
<1>12. CASE CheckTimeouts
  <2>1. /\ Chooses /\ pc = "idle" /\ pc' = "idle" /\ todo = <<>> /\ disk' = disk
        /\ mem.status = "paused" /\ mem'.status = "waiting" /\ mem'.total = mem.total
        /\ Places(todo', "enqueue") = {} /\ 2 \in DOMAIN todo' /\ todo'[2].op = "save"
    BY <1>12, ExpireFacts, ExpirePlaces DEF Chooses, NoSubtaskWrites
  <2>2. mem = disk
    BY <2>1, UpToDate
  <2>3. AheadByOne' /\ SavedSoon'
    BY <2>1, <2>2 DEF AheadByOne, SavedSoon
  <2> QED BY <2>1, <2>2, <2>3, StatusChooses
<1>13. CASE RunTaskThrows \/ Crash
  <2>1. pc' \in {"idle", "down"} /\ todo' = <<>> /\ mem' = disk /\ disk' = disk
    BY <1>13, DropFacts
  <2>2. AheadByOne' /\ SavedSoon' /\ RunningPlaces'
    BY <2>1 DEF AheadByOne, SavedSoon, RunningPlaces
  <2>3. mem'.subtasks = mem.subtasks
    BY <2>1 DEF TypeInv, RecordInv, Synced
  <2>4. NeverResumed'
    BY <2>1, <2>3 DEF StatusInv, NeverResumed, Places
  <2> QED BY <2>2, <2>4 DEF StatusInv
<1>14. CASE Restart
  <2>1. pc = "down" /\ UNCHANGED <<mem, disk>>
    BY <1>14, RestartFacts
  <2>2. mem = disk /\ mem' = disk' /\ todo = <<>>
    BY <2>1, UpToDate DEF StatusInv, RunningPlaces
  <2>3. AheadByOne' /\ SavedSoon'
    BY <2>1, <2>2 DEF AheadByOne, SavedSoon
  <2>4. CASE pc' = "entry" /\ mem.status = "active" /\ todo' = RebuildQueue(mem)
    <3>1. mem \in Tasks
      BY DEF TypeInv, RecordInv, TypeOK
    <3>2. NeverResumed'
      BY <2>1, <2>2, <2>4 DEF NeverResumed
    <3>3. RunningPlaces'
      BY <2>1, <2>4 DEF RunningPlaces
    <3> QED BY <2>3, <3>2, <3>3 DEF StatusInv
  <2>5. CASE pc' = "idle" /\ todo' = todo
    <3>1. NeverResumed' /\ RunningPlaces'
      BY <2>1, <2>5 DEF StatusInv, NeverResumed, RunningPlaces
    <3> QED BY <2>3, <3>1 DEF StatusInv
  <2> QED BY <1>14, <2>4, <2>5, RestartFacts
<1>15. CASE UNCHANGED vars
  BY <1>15 DEF vars, StatusInv, AheadByOne, SavedSoon, RunningPlaces, NeverResumed
<1> QED BY <1>1, <1>2, <1>3, <1>4, <1>5, <1>6, <1>7, <1>8, <1>9, <1>10, <1>11, <1>12, <1>13, <1>14,
           <1>15, <1>16, StepCases

\* Only LogStarted and a write of a handler reach the journal.
LEMMA JournalKept ==
  ASSUME TypeInv, [Next]_vars, ~LogStarted, ~(DoStep /\ todo[1].op = "log")
  PROVE  journal' = journal
<1>1. CASE Deliver \/ JobEnds \/ LeaveLoop
  BY <1>1, PlaceFacts
<1>14. CASE BeginRun
  BY <1>14, BeginRunFacts
<1>2. CASE EnterRunTask
  BY <1>2, EnterFacts DEF Chooses
<1>3. CASE Dequeue \/ Activate
  BY <1>3, DequeueFacts, ActivateFacts
<1>4. CASE DoStep
  BY <1>4, DoStepKeeps
<1>5. CASE EvalUnparsable \/ \E d \in Replies : EvalRejected(d)
  BY <1>5, RejectFacts DEF Chooses
<1>6. CASE \E d \in Replies : EvalApplied(d)
  BY <1>6, AppliedFacts DEF Chooses
<1>7. CASE EvalExhausted
  BY <1>7, ExhaustedFacts DEF Chooses
<1>8. CASE Stage \/ RunScript \/ HandleResume
  BY <1>8, HandledFacts DEF Chooses
<1>9. CASE Resume
  BY <1>9, ResumeFacts DEF Chooses
<1>10. CASE CheckTimeouts
  BY <1>10, ExpireFacts DEF Chooses
<1>11. CASE RunTaskThrows \/ Crash
  BY <1>11, DropFacts
<1>12. CASE Restart
  BY <1>12, RestartFacts
<1>13. CASE UNCHANGED vars
  BY <1>13 DEF vars
<1> QED BY <1>1, <1>2, <1>3, <1>4, <1>5, <1>6, <1>7, <1>8, <1>9, <1>10, <1>11, <1>12, <1>13, <1>14,
        StepCases

\* A start is logged only where the task runs.
LEMMA StartsRunning ==
  ASSUME TypeInv, StatusInv, [Next]_vars,
         Len(journal') > Len(journal), journal'[Len(journal')].type = "subtask_started"
  PROVE  disk.status \in {"queued", "active"}
<1>1. journal' # journal
  BY DEF TypeInv, RecordInv, TypeOK
<1>2. CASE LogStarted
  BY <1>2, StartedFacts DEF StatusInv, RunningPlaces
<1>3. CASE DoStep /\ todo[1].op = "log"
  BY <1>3, DoStepLogs
<1> QED BY <1>1, <1>2, <1>3, JournalKept

\* For every recipe and any number of crashes and exceptions, a subtask is started
\* only while task.json says that the task is queued or active: nothing runs for a
\* task that was paused, expired or ended (worker.ts, the condition of the loop).
THEOREM StartsOnlyRunningTasks == Spec => StartsOnlyRunning
<1>1. TypeInv /\ StatusInv /\ [Next]_vars =>
        [Len(journal') > Len(journal) /\ journal'[Len(journal')].type = "subtask_started"
           => disk.status \in {"queued", "active"}]_vars
  BY StartsRunning
<1> QED BY <1>1, TypeInit, TypeStep, StatusInit, StatusStep, PTL DEF Spec, StartsOnlyRunning

(***************************************************************************)
(* The refinement of TaskLifecycle                                         *)
(***************************************************************************)
\* Unless it begins a record, a step leaves the durable status and total alone
\* or makes them the ones in memory.
LEMMA DiskFollows ==
  ASSUME TypeInv, [Next]_vars, ~BeginRun
  PROVE  /\ starts' = starts
         /\ \/ disk'.status = disk.status /\ disk'.total = disk.total
            \/ disk'.status = mem.status /\ disk'.total = mem.total
<1>1. CASE Deliver \/ JobEnds \/ LeaveLoop
  BY <1>1, PlaceFacts
<1>2. CASE EnterRunTask
  BY <1>2, EnterFacts DEF Chooses
<1>3. CASE Dequeue \/ Activate
  BY <1>3, DequeueFacts, ActivateFacts DEF Rest
<1>4. CASE LogStarted
  BY <1>4, StartedFacts
<1>5. CASE DoStep
  BY <1>5, DoStepKeeps DEF Rest
<1>6. CASE EvalUnparsable \/ \E d \in Replies : EvalRejected(d)
  BY <1>6, RejectFacts DEF Chooses
<1>7. CASE \E d \in Replies : EvalApplied(d)
  BY <1>7, AppliedFacts DEF Chooses
<1>8. CASE EvalExhausted
  BY <1>8, ExhaustedFacts DEF Chooses
<1>9. CASE Stage \/ RunScript \/ HandleResume
  BY <1>9, HandledFacts DEF Chooses
<1>10. CASE Resume \/ CheckTimeouts
  BY <1>10, ResumeFacts, ExpireFacts DEF Chooses
<1>11. CASE RunTaskThrows \/ Crash
  BY <1>11, DropFacts
<1>12. CASE Restart
  BY <1>12, RestartFacts
<1>13. CASE UNCHANGED vars
  BY <1>13 DEF vars, delivery
<1> QED BY <1>1, <1>2, <1>3, <1>4, <1>5, <1>6, <1>7, <1>8, <1>9, <1>10, <1>11, <1>12, <1>13, StepCases

\* The record that is saved is at most one move ahead, and a new record takes
\* one of the deliveries of the job, so every step is a move of TaskLifecycle or
\* a stutter.
LEMMA LifecycleStep ==
  TypeInv /\ StatusInv /\ [Next]_vars => [Lifecycle!Next]_<<disk.status, disk.total, starts>>
<1> SUFFICES ASSUME TypeInv, StatusInv, [Next]_vars,
                    ~(disk'.status = disk.status /\ disk'.total = disk.total /\ starts' = starts)
             PROVE  Lifecycle!Next
  OBVIOUS
<1>0. CASE BeginRun
  <2>1. /\ disk'.status \in InitialStatuses /\ disk'.total = 0 /\ starts' = starts + 1
        /\ pc = "fetched"
    BY <1>0, BeginRunFacts
  <2>2. starts < MaxStalled + 1
    BY <2>1, RuntimeAssumption DEF TypeInv, DeliveryInv, RecordInv, TypeOK, Jobs
  <2> QED BY <2>1, <2>2 DEF Lifecycle!Next, Lifecycle!Start
<1>1. CASE ~BeginRun
  <2>1. disk'.status = mem.status /\ disk'.total = mem.total /\ starts' = starts
    BY <1>1, DiskFollows
  <2>2. AheadByOne
    BY DEF StatusInv
  <2>3. CASE /\ disk.status \in {"queued", "active"} /\ mem.status = disk.status
             /\ mem.total = disk.total + 1 /\ disk.total < MaxTotalActions
    BY <2>1, <2>3 DEF Lifecycle!Next, Lifecycle!Spend, Lifecycle!Running
  <2>4. CASE /\ disk.status \in {"queued", "active"} /\ mem.total = disk.total
             /\ mem.status \in {"paused", "completed", "failed"}
    BY <2>1, <2>4 DEF Lifecycle!Next, Lifecycle!Stop, Lifecycle!Running
  <2>5. CASE /\ disk.status = "paused" /\ mem.total = disk.total
             /\ mem.status \in {"active", "waiting"}
    BY <2>1, <2>5 DEF Lifecycle!Next, Lifecycle!Resume, Lifecycle!Expire
  <2> QED BY <2>1, <2>2, <2>3, <2>4, <2>5 DEF AheadByOne
<1> QED BY <1>0, <1>1

\* For every recipe, and whatever crashes, exceptions, replies and expiries come,
\* the status and the total that task.json holds move as TaskLifecycle says.  A
\* redelivered job may put a new record in the place of the old one, at most
\* MaxStalled times; between two such moments the budget is spent one run at a time
\* and only while the task runs, a record that ended or expired never moves again,
\* and only a paused one resumes.
THEOREM ImplementsLifecycle == Spec => LifecycleSpec
<1>1. Init => Lifecycle!Init
  BY DEF Init, NewTask, Lifecycle!Init
<1> QED BY <1>1, LifecycleStep, TypeInit, TypeStep, StatusInit, StatusStep, PTL
        DEF Spec, LifecycleSpec, Lifecycle!Spec

(***************************************************************************)
(* The budgets                                                             *)
(***************************************************************************)
\* The subtasks of a task that count against its total.
CountedIn(t) == {i \in DOMAIN t.subtasks : t.subtasks[i].kind \in Counted}

\* The counters of a task account for its subtasks.
Accounted(t) ==
    /\ Cardinality(CountedIn(t)) = t.total /\ t.total <= MaxTotalActions
    /\ \A s \in Stages : Cardinality(RunsOf(t, s)) = t.retries[s] /\ t.retries[s] <= MaxStageRetries

\* The counters depend on the kinds and stages of the subtasks only.
LEMMA SameCounts ==
  ASSUME NEW t, NEW u, Accounted(t), u.total = t.total, u.retries = t.retries,
         DOMAIN u.subtasks = DOMAIN t.subtasks,
         \A i \in DOMAIN t.subtasks : /\ u.subtasks[i].kind = t.subtasks[i].kind
                                      /\ u.subtasks[i].stage = t.subtasks[i].stage
  PROVE  Accounted(u)
<1>1. CountedIn(u) = CountedIn(t)
  BY DEF CountedIn
<1>2. \A s \in Stages : RunsOf(u, s) = RunsOf(t, s)
  BY DEF RunsOf
<1> QED BY <1>1, <1>2 DEF Accounted

\* The subtasks of a task are finitely many.
LEMMA CountsFinite ==
  ASSUME NEW t \in Tasks, NEW S \in SUBSET DOMAIN t.subtasks
  PROVE  IsFiniteSet(S) /\ Cardinality(S) \in Nat
<1>1. DOMAIN t.subtasks = 1 .. Len(t.subtasks) /\ Len(t.subtasks) \in Int
  BY DEF Tasks
<1>2. IsFiniteSet(1 .. Len(t.subtasks))
  BY <1>1, FS_Interval
<1> QED BY <1>1, <1>2, FS_Subset, FS_CardinalityType

\* What a decision that runs sub adds to the counters of t.
Charged(u, t, sub) ==
    /\ u.total = t.total + 1 /\ u.total <= MaxTotalActions
    /\ IF sub.kind = "stage_agent_run"
       THEN /\ u.retries = [t.retries EXCEPT ![sub.stage] = @ + 1]
            /\ u.retries[sub.stage] <= MaxStageRetries
       ELSE u.retries = t.retries

\* A new subtask and the charge for it keep the counters right.
LEMMA OneMoreCount ==
  ASSUME NEW t \in Tasks, NEW u, NEW sub \in Subtasks, NEW n, n \notin DOMAIN t.subtasks,
         DOMAIN u.subtasks = DOMAIN t.subtasks \cup {n}, u.subtasks[n] = sub,
         \A i \in DOMAIN t.subtasks : u.subtasks[i] = t.subtasks[i],
         Accounted(t),
         sub.kind \in Counted => Charged(u, t, sub),
         sub.kind \notin Counted => u.total = t.total /\ u.retries = t.retries
  PROVE  Accounted(u)
<1>1. /\ CountedIn(t) \subseteq DOMAIN t.subtasks
      /\ \A s \in Stages : RunsOf(t, s) \subseteq DOMAIN t.subtasks
  BY DEF CountedIn, RunsOf
<1>2. /\ Cardinality(CountedIn(t) \cup {n}) = Cardinality(CountedIn(t)) + 1
      /\ \A s \in Stages : Cardinality(RunsOf(t, s) \cup {n}) = Cardinality(RunsOf(t, s)) + 1
  BY <1>1, CountsFinite, FS_AddElement
<1>3. CountedIn(u) = IF sub.kind \in Counted THEN CountedIn(t) \cup {n} ELSE CountedIn(t)
  BY DEF CountedIn
<1>4. ASSUME NEW s \in Stages
      PROVE  RunsOf(u, s) = IF sub.kind = "stage_agent_run" /\ sub.stage = s
                            THEN RunsOf(t, s) \cup {n} ELSE RunsOf(t, s)
  BY DEF RunsOf
<1>5. Cardinality(CountedIn(u)) = u.total /\ u.total <= MaxTotalActions
  BY <1>2, <1>3 DEF Accounted, Charged
<1>6. ASSUME NEW s \in Stages
      PROVE  Cardinality(RunsOf(u, s)) = u.retries[s] /\ u.retries[s] <= MaxStageRetries
  <2>1. /\ Cardinality(RunsOf(t, s)) = t.retries[s] /\ t.retries[s] <= MaxStageRetries
        /\ t.retries \in [Stages -> Nat] /\ sub.stage \in Stages
    BY DEF Accounted, Tasks, Subtasks
  <2>2. CASE sub.kind = "stage_agent_run"
    <3>1. /\ u.retries = [t.retries EXCEPT ![sub.stage] = @ + 1]
          /\ u.retries[sub.stage] <= MaxStageRetries
      BY <2>2 DEF Charged, Counted
    <3>2. CASE sub.stage = s
      BY <1>2, <1>4, <2>1, <2>2, <3>1, <3>2
    <3>3. CASE sub.stage # s
      BY <1>4, <2>1, <3>1, <3>3
    <3> QED BY <3>2, <3>3
  <2>3. CASE sub.kind # "stage_agent_run"
    <3>1. u.retries = t.retries
      BY <2>3 DEF Charged
    <3> QED BY <1>4, <2>1, <2>3, <3>1
  <2> QED BY <2>2, <2>3
<1> QED BY <1>5, <1>6 DEF Accounted

\* Where a subtask that counts is still to be enqueued.
PendingCounted == {k \in Places(todo, "enqueue") : todo[k].sub.kind \in Counted}

\* The inductive invariant of BudgetAccounted: the counters in memory are ahead
\* of the disk exactly by the charge for a subtask that the next save, which
\* enqueues it, makes durable together with the charge.
BudgetInv ==
    /\ Accounted(disk)
    /\ PendingCounted = {} => mem.total = disk.total /\ mem.retries = disk.retries
    /\ \A k \in PendingCounted : OnlyLogsBefore(todo, k) /\ Charged(mem, disk, todo[k].sub)

\* A record without stage and script subtasks has counters at 0.
LEMMA NothingCounted ==
  ASSUME NEW t, t.total = 0, t.retries = [s \in Stages |-> 0],
         \A i \in DOMAIN t.subtasks : t.subtasks[i].kind \notin Counted
  PROVE  Accounted(t)
<1>1. CountedIn(t) = {} /\ \A s \in Stages : RunsOf(t, s) = {}
  BY DEF CountedIn, RunsOf, Counted
<1>2. Cardinality({}) = 0
  BY FS_EmptySet
<1>3. 0 <= MaxTotalActions /\ 0 <= MaxStageRetries
  BY RecipeAssumption
<1>4. \A s \in Stages : t.retries[s] = 0
  OBVIOUS
<1> QED BY <1>1, <1>2, <1>3, <1>4 DEF Accounted

\* The initial states satisfy the invariant.
LEMMA BudgetInit == Init => BudgetInv
<1> SUFFICES ASSUME Init PROVE BudgetInv
  OBVIOUS
<1>1. /\ disk.subtasks = <<>> /\ disk.total = 0 /\ disk.retries = [s \in Stages |-> 0]
      /\ mem.total = 0 /\ mem.retries = disk.retries /\ todo = <<>>
  BY DEF Init, NewTask
<1>2. Accounted(disk)
  BY <1>1, NothingCounted
<1>3. PendingCounted = {}
  BY <1>1 DEF PendingCounted, Places
<1> QED BY <1>1, <1>2, <1>3 DEF BudgetInv

\* With nothing left to write, nothing is left to be charged.
LEMMA BudgetUpToDate ==
  ASSUME BudgetInv, todo = <<>>
  PROVE  Accounted(disk) /\ mem.total = disk.total /\ mem.retries = disk.retries
BY DEF BudgetInv, PendingCounted, Places

\* A write of the current handler.
LEMMA BudgetDoStep == TypeInv /\ BudgetInv /\ DoStep => BudgetInv'
<1> SUFFICES ASSUME TypeInv, BudgetInv, DoStep PROVE BudgetInv'
  OBVIOUS
<1>1. mem.subtasks = disk.subtasks /\ disk \in Tasks
  BY DEF TypeInv, RecordInv, TypeOK, Synced
<1>2. CASE todo[1].op = "log"
  <2>1. mem' = mem /\ disk' = disk
    BY <1>2, DoStepKeeps
  <2>2. \A k \in PendingCounted : k \in Nat /\ k # 1 /\ k - 1 \in PendingCounted'
    BY <1>2, ShiftedPlaces DEF PendingCounted, Places
  <2>3. ASSUME NEW k \in PendingCounted'
        PROVE  k \in DOMAIN todo' /\ k + 1 \in PendingCounted /\ todo'[k] = todo[k + 1]
    BY ShiftedPlaces DEF PendingCounted, Places
  <2>4. ASSUME NEW k \in PendingCounted'
        PROVE  OnlyLogsBefore(todo', k) /\ Charged(mem', disk', todo'[k].sub)
    <3>1. OnlyLogsBefore(todo, k + 1) /\ Charged(mem, disk, todo'[k].sub)
      BY <2>3 DEF BudgetInv
    <3> QED BY <1>2, <2>1, <2>3, <3>1, ShiftedFirst
  <2>5. Accounted(disk') /\ (PendingCounted' = {} => mem'.total = disk'.total /\ mem'.retries = disk'.retries)
    BY <2>1, <2>2 DEF BudgetInv
  <2> QED BY <2>4, <2>5 DEF BudgetInv
<1>3. CASE todo[1].op # "log"
  <2>1. disk' = mem' /\ mem'.total = mem.total /\ mem'.retries = mem.retries
    BY <1>3, DoStepKeeps DEF Rest
  <2>2. \A k \in PendingCounted : k = 1
    BY <1>3, ShiftedFirst DEF BudgetInv, PendingCounted, Places
  <2>3. PendingCounted' = {}
    BY <2>2, ShiftedPlaces DEF PendingCounted
  <2>4. CASE todo[1].op = "enqueue"
    <3> DEFINE n == Len(disk.subtasks) + 1
    <3>1. /\ todo[1].sub \in Subtasks /\ n \notin DOMAIN disk.subtasks
          /\ DOMAIN disk'.subtasks = DOMAIN disk.subtasks \cup {n}
          /\ \A i \in DOMAIN disk.subtasks : disk'.subtasks[i] = disk.subtasks[i]
          /\ disk'.subtasks[n] = todo[1].sub
      BY <1>1, <2>1, <2>4, DoStepEnqueues
    <3>2. todo[1].sub.kind \in Counted => 1 \in PendingCounted
      BY <2>4, Shifted DEF PendingCounted, Places
    <3>3. todo[1].sub.kind \notin Counted => PendingCounted = {}
      BY <2>2 DEF PendingCounted
    <3>4. todo[1].sub.kind \in Counted => Charged(disk', disk, todo[1].sub)
      BY <2>1, <3>2 DEF BudgetInv, Charged
    <3>5. todo[1].sub.kind \notin Counted => disk'.total = disk.total /\ disk'.retries = disk.retries
      BY <2>1, <3>3 DEF BudgetInv
    <3>6. Accounted(disk)
      BY DEF BudgetInv
    <3> HIDE DEF n
    <3>7. Accounted(disk')
      BY <1>1, <3>1, <3>4, <3>5, <3>6, OneMoreCount
    <3> QED BY <2>1, <2>3, <3>7 DEF BudgetInv
  <2>5. CASE todo[1].op \in {"settle", "unset", "save"}
    <3>1. PendingCounted = {}
      BY <2>2, <2>5 DEF PendingCounted, Places
    <3>2. disk'.total = disk.total /\ disk'.retries = disk.retries /\ Accounted(disk)
      BY <2>1, <3>1 DEF BudgetInv
    <3>3. /\ DOMAIN disk'.subtasks = DOMAIN disk.subtasks
          /\ \A i \in DOMAIN disk.subtasks : /\ disk'.subtasks[i].kind = disk.subtasks[i].kind
                                             /\ disk'.subtasks[i].stage = disk.subtasks[i].stage
      BY <1>1, <2>1, <2>5, DoStepSettles
    <3>4. Accounted(disk')
      BY <3>2, <3>3, SameCounts
    <3> QED BY <2>1, <2>3, <3>4 DEF BudgetInv
  <2> QED BY <1>3, <2>4, <2>5, DoStepKeeps
<1> QED BY <1>2, <1>3

\* A step that chooses to enqueue nothing that counts charges nothing.
LEMMA BudgetQuiet ==
  ASSUME TypeInv, BudgetInv, todo = <<>>, disk' = disk,
         mem'.total = mem.total, mem'.retries = mem.retries,
         \A k \in Places(todo', "enqueue") : todo'[k].sub.kind \notin Counted
  PROVE  BudgetInv'
<1>1. PendingCounted' = {}
  BY DEF PendingCounted
<1>2. Accounted(disk) /\ mem.total = disk.total /\ mem.retries = disk.retries
  BY BudgetUpToDate
<1> QED BY <1>1, <1>2 DEF BudgetInv

\* A subtask is taken from the queue or marked.
LEMMA BudgetMarks ==
  ASSUME TypeInv, BudgetInv, todo = <<>>, todo' = <<>>, disk' = mem', Rest(mem') = Rest(mem),
         DOMAIN mem'.subtasks = DOMAIN mem.subtasks,
         \A i \in DOMAIN mem.subtasks : /\ mem'.subtasks[i].kind = mem.subtasks[i].kind
                                        /\ mem'.subtasks[i].stage = mem.subtasks[i].stage
  PROVE  BudgetInv'
<1>1. mem.subtasks = disk.subtasks
  BY DEF TypeInv, RecordInv, Synced
<1>2. /\ Accounted(disk) /\ disk'.total = disk.total /\ disk'.retries = disk.retries
      /\ mem'.total = disk'.total /\ mem'.retries = disk'.retries
  BY BudgetUpToDate DEF Rest
<1>3. Accounted(disk')
  BY <1>1, <1>2, SameCounts
<1>4. PendingCounted' = {}
  BY DEF PendingCounted, Places
<1> QED BY <1>2, <1>3, <1>4 DEF BudgetInv

\* The decisions that are charged.
LEMMA BudgetApplied ==
  ASSUME TypeInv, BudgetInv, NEW d \in Replies, EvalApplied(d)
  PROVE  BudgetInv'
<1>1. /\ todo = <<>> /\ disk' = disk /\ mem.total \in Nat /\ MaxTotalActions \in Nat
      /\ MaxStageRetries \in Nat /\ mem.retries \in [Stages -> Nat]
  BY AppliedFacts, RecipeAssumption DEF Chooses, TypeInv, RecordInv, TypeOK, Tasks
<1>2. Accounted(disk) /\ mem.total = disk.total /\ mem.retries = disk.retries
  BY <1>1, BudgetUpToDate
<1>3. ASSUME NEW sub \in Subtasks, sub.kind \in Counted,
             mem'.total = mem.total + 1, mem.total < MaxTotalActions,
             sub.kind = "stage_agent_run" =>
               /\ mem'.retries = [mem.retries EXCEPT ![sub.stage] = @ + 1]
               /\ mem.retries[sub.stage] < MaxStageRetries,
             sub.kind = "script_run" => mem'.retries = mem.retries,
             RunWrites(todo', cur, sub)
      PROVE  BudgetInv'
  <2>1. /\ Places(todo', "enqueue") = {2} /\ todo'[2].sub = sub /\ OnlyLogsBefore(todo', 2)
    BY <1>3, RunPlaces
  <2>2. sub.stage \in Stages /\ sub.kind \in {"stage_agent_run", "script_run"}
    BY <1>3 DEF Subtasks, Counted
  <2>3. Charged(mem', disk', sub)
    <3>1. mem'.total = disk.total + 1 /\ mem'.total <= MaxTotalActions
      BY <1>1, <1>2, <1>3
    <3>2. CASE sub.kind = "stage_agent_run"
      <4>1. /\ mem'.retries = [disk.retries EXCEPT ![sub.stage] = @ + 1]
            /\ mem'.retries[sub.stage] <= MaxStageRetries
        BY <1>1, <1>2, <1>3, <2>2, <3>2
      <4> QED BY <1>1, <3>1, <3>2, <4>1 DEF Charged
    <3>3. CASE sub.kind = "script_run"
      BY <1>1, <1>2, <1>3, <3>1, <3>3 DEF Charged
    <3> QED BY <2>2, <3>2, <3>3
  <2>4. PendingCounted' = {2}
    BY <1>3, <2>1 DEF PendingCounted
  <2> QED BY <1>1, <1>2, <2>1, <2>3, <2>4 DEF BudgetInv
<1>4. ASSUME NEW a \in DOMAIN EndStatus, mem'.total = mem.total, mem'.retries = mem.retries,
             EndWrites(todo', cur, EndEntry[a])
      PROVE  BudgetInv'
  BY <1>1, <1>4, EndPlaces, BudgetQuiet
<1>5. ASSUME mem' = mem, UnknownWrites(todo', cur) PROVE BudgetInv'
  BY <1>1, <1>5, UnknownPlaces, BudgetQuiet
<1> QED BY <1>3, <1>4, <1>5, AppliedFacts

\* Every step keeps the invariant.
LEMMA BudgetStep == TypeInv /\ StatusInv /\ BudgetInv /\ [Next]_vars => BudgetInv'
<1> SUFFICES ASSUME TypeInv, StatusInv, BudgetInv, [Next]_vars PROVE BudgetInv'
  OBVIOUS
<1>1. CASE Deliver \/ JobEnds \/ LeaveLoop
  BY <1>1, PlaceFacts DEF BudgetInv, PendingCounted
<1>16. CASE BeginRun
  <2>1. /\ disk' = mem' /\ mem'.total = 0 /\ mem'.retries = [s \in Stages |-> 0]
        /\ DOMAIN mem'.subtasks = {1} /\ mem'.subtasks[1].kind = "orchestrator_eval"
        /\ DOMAIN todo' = {1} /\ todo'[1].op = "log"
    BY <1>16, BeginRunFacts
  <2>2. \A i \in DOMAIN mem'.subtasks : mem'.subtasks[i].kind \notin Counted
    BY <2>1 DEF Counted
  <2>3. Accounted(mem')
    BY <2>1, <2>2, NothingCounted
  <2>4. PendingCounted' = {}
    BY <2>1 DEF PendingCounted, Places
  <2> QED BY <2>1, <2>3, <2>4 DEF BudgetInv
<1>2. CASE EnterRunTask
  <2>1. /\ todo = <<>> /\ disk' = disk /\ mem'.total = mem.total /\ mem'.retries = mem.retries
    BY <1>2, EnterFacts DEF Chooses
  <2>2. CASE todo' = <<>>
    BY <2>1, <2>2, BudgetQuiet DEF Places
  <2>3. CASE \E q \in Nat :
                 todo' = <<Enqueue(NewSubtask("orchestrator_eval", EffectiveStage(mem), None, FALSE)),
                           Log("subtask_queued", q)>>
    <3> DEFINE sub == NewSubtask("orchestrator_eval", EffectiveStage(mem), None, FALSE)
    <3>1. PICK q \in Nat : todo' = <<Enqueue(sub), Log("subtask_queued", q)>>
      BY <2>3
    <3>2. sub.kind \notin Counted
      BY DEF NewSubtask, Counted
    <3> HIDE DEF sub
    <3>3. \A k \in Places(todo', "enqueue") : todo'[k].sub.kind \notin Counted
      BY <3>1, <3>2, EvalPlaces
    <3> QED BY <2>1, <3>3, BudgetQuiet
  <2> QED BY <1>2, <2>2, <2>3, EnterFacts
<1>3. CASE Dequeue
  BY <1>3, DequeueFacts, BudgetMarks
<1>4. CASE Activate
  BY <1>4, ActivateFacts, BudgetMarks
<1>5. CASE LogStarted
  BY <1>5, StartedFacts DEF BudgetInv, PendingCounted
<1>6. CASE DoStep
  BY <1>6, BudgetDoStep
<1>7. CASE EvalUnparsable \/ \E d \in Replies : EvalRejected(d)
  <2>1. todo = <<>> /\ disk' = disk /\ mem' = mem /\ Places(todo', "enqueue") = {}
    BY <1>7, RejectFacts, RejectPlaces DEF Chooses, NoSubtaskWrites
  <2> QED BY <2>1, BudgetQuiet
<1>8. CASE \E d \in Replies : EvalApplied(d)
  BY <1>8, BudgetApplied
<1>9. CASE EvalExhausted
  <2>1. /\ todo = <<>> /\ disk' = disk /\ mem'.total = mem.total /\ mem'.retries = mem.retries
        /\ Places(todo', "enqueue") = {}
    BY <1>9, ExhaustedFacts, ExhaustedPlaces DEF Chooses
  <2> QED BY <2>1, BudgetQuiet
<1>10. CASE Stage \/ RunScript \/ HandleResume
  <2>1. todo = <<>> /\ disk' = disk
    BY <1>10, HandledFacts DEF Chooses
  <2>2. mem' \in {mem, [mem EXCEPT !.status = "active"]}
    BY <1>10, HandledFacts
  <2>3. mem'.total = mem.total /\ mem'.retries = mem.retries
    BY <2>2 DEF TypeInv, RecordInv, TypeOK, Tasks
  <2>4. PICK n \in Nat, status \in {"completed", "failed"}, input \in BOOLEAN :
               Recorded(todo', n, cur, status, NextEval(input))
    BY <1>10, HandledFacts
  <2>5. Places(todo', "enqueue") = {n + 3} /\ todo'[n + 3].sub = NextEval(input)
    BY <2>4, RecordedPlaces
  <2>6. NextEval(input).kind \notin Counted
    BY DEF NextEval, NewSubtask, Counted
  <2> QED BY <2>1, <2>3, <2>5, <2>6, BudgetQuiet
<1>11. CASE Resume
  <2>1. /\ todo = <<>> /\ disk' = disk /\ mem'.total = mem.total /\ mem'.retries = mem.retries
    BY <1>11, ResumeFacts DEF Chooses
  <2> DEFINE sub == NewSubtask("resume_after_input", EffectiveStage(mem), None, FALSE)
  <2>2. todo' = <<Enqueue(sub), Log("task_resumed", 0), Save>>
    BY <1>11, ResumeFacts
  <2>3. sub.kind \notin Counted
    BY DEF NewSubtask, Counted
  <2> HIDE DEF sub
  <2>4. \A k \in Places(todo', "enqueue") : todo'[k].sub.kind \notin Counted
    BY <2>2, <2>3, ResumePlaces
  <2> QED BY <2>1, <2>4, BudgetQuiet
<1>12. CASE CheckTimeouts
  <2>1. /\ todo = <<>> /\ disk' = disk /\ mem'.total = mem.total /\ mem'.retries = mem.retries
        /\ Places(todo', "enqueue") = {}
    BY <1>12, ExpireFacts, ExpirePlaces DEF Chooses, NoSubtaskWrites
  <2> QED BY <2>1, BudgetQuiet
<1>13. CASE RunTaskThrows \/ Crash
  <2>1. todo' = <<>> /\ mem' = disk /\ disk' = disk
    BY <1>13, DropFacts
  <2>2. PendingCounted' = {}
    BY <2>1 DEF PendingCounted, Places
  <2> QED BY <2>1, <2>2 DEF BudgetInv
<1>14. CASE Restart
  <2>1. todo = <<>> /\ mem' = mem /\ disk' = disk /\ mem \in Tasks
    BY <1>14, RestartFacts DEF StatusInv, RunningPlaces, TypeInv, RecordInv, TypeOK
  <2>2. CASE todo' = RebuildQueue(mem)
    <3> DEFINE sub == NewSubtask("orchestrator_eval", EffectiveStage(mem), None, FALSE)
    <3>3. sub.kind = "orchestrator_eval"
      BY DEF NewSubtask
    <3> HIDE DEF sub
    <3>4. \A k \in Places(todo', "enqueue") : todo'[k].sub = sub
      BY <2>1, <2>2, RebuildPlaces DEF sub
    <3>1. \A k \in Places(todo', "enqueue") : todo'[k].sub.kind = "orchestrator_eval"
      BY <3>3, <3>4
    <3>2. \A k \in Places(todo', "enqueue") : todo'[k].sub.kind \notin Counted
      BY <3>1 DEF Counted
    <3> QED BY <2>1, <3>2, BudgetQuiet
  <2>3. CASE todo' = todo
    BY <2>1, <2>3, BudgetQuiet DEF Places
  <2> QED BY <1>14, <2>2, <2>3, RestartFacts
<1>15. CASE UNCHANGED vars
  BY <1>15 DEF vars, BudgetInv, PendingCounted
<1> QED BY <1>1, <1>2, <1>3, <1>4, <1>5, <1>6, <1>7, <1>8, <1>9, <1>10, <1>11, <1>12, <1>13, <1>14,
           <1>15, <1>16, StepCases

\* For every recipe and budget, and whatever fails between two writes, the counters
\* of task.json are exactly the stage and script subtasks of the record it holds, for
\* the task and for each stage, and within the recipe's budgets: no crash, exception
\* or recovery refunds a run, charges one twice or lets one past the limit.  (A job
\* delivered again does begin with the whole budget, in a record of its own; how
\* often that happens is what ImplementsLifecycle bounds.)
THEOREM BudgetsAccounted == Spec => []BudgetAccounted
<1>1. BudgetInv => BudgetAccounted
  BY DEF BudgetInv, Accounted, BudgetAccounted, CountedIn
<1> QED BY <1>1, TypeInit, TypeStep, StatusInit, StatusStep, BudgetInit, BudgetStep, PTL DEF Spec

(***************************************************************************)
(* Scripts that refuse to be run again                                     *)
(***************************************************************************)
\* Writes that log no completion of a script, ...
Silent(s) == s \in Seq(HandlerWrites) /\ LogPlaces(s, "script_completed") = {}

\* ... and writes that log at most one, of the script named.
CompletesOnce(s, script) ==
    /\ s \in Seq(HandlerWrites)
    /\ \A k \in LogPlaces(s, "script_completed") :
         /\ s[k].entry.what = script
         /\ \A l \in LogPlaces(s, "script_completed") : l = k

\* Where the concatenation of two lists logs the completion of a script.
LEMMA CompletionsConcat ==
  ASSUME NEW a \in Seq(HandlerWrites), NEW b \in Seq(HandlerWrites), NEW s, s = a \o b
  PROVE  /\ s \in Seq(HandlerWrites) /\ Len(a) \in Int
         /\ \A k \in LogPlaces(s, "script_completed") :
              \/ k \in LogPlaces(a, "script_completed") /\ s[k] = a[k]
              \/ /\ k \in Int /\ k - Len(a) \in LogPlaces(b, "script_completed")
                 /\ s[k] = b[k - Len(a)]
<1>1. s \in Seq(HandlerWrites) /\ Len(a) \in Int
  OBVIOUS
<1>2. \A k \in DOMAIN s :
         \/ k \in DOMAIN a /\ s[k] = a[k]
         \/ k - Len(a) \in DOMAIN b /\ s[k] = b[k - Len(a)] /\ k \in Int
  OBVIOUS
<1>3. ASSUME NEW k \in LogPlaces(s, "script_completed")
      PROVE  \/ k \in LogPlaces(a, "script_completed") /\ s[k] = a[k]
             \/ /\ k \in Int /\ k - Len(a) \in LogPlaces(b, "script_completed")
                /\ s[k] = b[k - Len(a)]
  <2>1. k \in DOMAIN s /\ s[k].op = "log" /\ s[k].entry.type = "script_completed"
    BY Zenon DEF LogPlaces, Places
  <2>2. CASE k \in DOMAIN a /\ s[k] = a[k]
    BY Zenon, <2>1, <2>2 DEF LogPlaces, Places
  <2>3. CASE k - Len(a) \in DOMAIN b /\ s[k] = b[k - Len(a)] /\ k \in Int
    BY Zenon, <2>1, <2>3 DEF LogPlaces, Places
  <2> QED BY Zenon, <1>2, <2>1, <2>2, <2>3
<1> QED BY <1>1, <1>3

\* Silent lists make a silent list.
LEMMA SilentConcat ==
  ASSUME NEW a, NEW b, Silent(a), Silent(b)
  PROVE  Silent(a \o b)
<1> DEFINE s == a \o b
<1>1. a \in Seq(HandlerWrites) /\ b \in Seq(HandlerWrites)
  BY DEF Silent
<1> HIDE DEF s
<1>2. Silent(s)
  BY <1>1, CompletionsConcat DEF Silent, s
<1> QED BY <1>2 DEF s

\* Two lists of which one is silent complete what the other completes.
LEMMA CompletionsAdd ==
  ASSUME NEW a, NEW b, NEW script,
         \/ Silent(a) /\ CompletesOnce(b, script)
         \/ CompletesOnce(a, script) /\ Silent(b)
  PROVE  CompletesOnce(a \o b, script)
<1>1. a \in Seq(HandlerWrites) /\ b \in Seq(HandlerWrites)
  BY DEF Silent, CompletesOnce
<1> DEFINE s == a \o b
<1>3. s \in Seq(HandlerWrites) /\ Len(a) \in Int
  BY Zenon, <1>1, CompletionsConcat
<1>4. \A k \in LogPlaces(s, "script_completed") :
         \/ k \in LogPlaces(a, "script_completed") /\ s[k] = a[k]
         \/ /\ k \in Int /\ k - Len(a) \in LogPlaces(b, "script_completed")
            /\ s[k] = b[k - Len(a)]
  BY Zenon, <1>1, CompletionsConcat
<1> HIDE DEF s
<1>5. ASSUME Silent(a), CompletesOnce(b, script) PROVE CompletesOnce(s, script)
  <2>1. \A k \in LogPlaces(s, "script_completed") :
           /\ k \in Int /\ k - Len(a) \in LogPlaces(b, "script_completed")
           /\ s[k] = b[k - Len(a)]
    BY <1>4, <1>5 DEF Silent
  <2>2. ASSUME NEW k \in LogPlaces(s, "script_completed"), NEW l \in LogPlaces(s, "script_completed")
        PROVE  l = k
    <3>1. k - Len(a) = l - Len(a) /\ k \in Int /\ l \in Int
      BY <1>5, <2>1 DEF CompletesOnce
    <3> QED BY <1>3, <3>1
  <2> QED BY <1>3, <1>5, <2>1, <2>2 DEF CompletesOnce
<1>6. ASSUME CompletesOnce(a, script), Silent(b) PROVE CompletesOnce(s, script)
  <2>1. \A k \in LogPlaces(s, "script_completed") :
           k \in LogPlaces(a, "script_completed") /\ s[k] = a[k]
    BY <1>4, <1>6 DEF Silent
  <2> QED BY <1>3, <1>6, <2>1 DEF CompletesOnce
<1> QED BY <1>5, <1>6 DEF s

\* A silent list completes any script at most once.
LEMMA SilentOnce ==
  ASSUME NEW s, NEW script, Silent(s)
  PROVE  CompletesOnce(s, script)
BY DEF Silent, CompletesOnce

\* The parts of a handler's writes.
LEMMA SilentParts ==
  ASSUME NEW t \in Tasks, NEW id \in Nat, NEW input \in BOOLEAN
  PROVE  /\ Silent(RecordSuccess(t, id, input)) /\ Silent(RecordFailure(t, id))
         /\ \A labels \in Seq(Labels) : Silent(Artifacts(id, labels))
         /\ \A type \in {"script_started", "script_failed"}, what \in ScriptIds \cup {None} :
              Silent(<<LogWhat(type, id, what)>>)
         /\ \A what \in ScriptIds \cup {None} :
              CompletesOnce(<<LogWhat("script_completed", id, what)>>, what)
<1>1. ASSUME NEW s \in Seq(HandlerWrites), NEW status \in {"completed", "failed"}, NEW sub,
             Recorded(s, 0, id, status, sub)
      PROVE  Silent(s)
  <2>1. /\ DOMAIN s = 1 .. 5 /\ s[1].op = "settle" /\ s[3].op = "enqueue" /\ s[5].op = "save"
        /\ s[2].entry.type # "script_completed" /\ s[4].entry.type # "script_completed"
    BY <1>1, WriteFields DEF Recorded
  <2>2. \A k \in 1 .. 5 : k \in {1, 2, 3, 4, 5}
    OBVIOUS
  <2> QED BY <2>1, <2>2 DEF Silent, LogPlaces, Places
<1>2. Silent(RecordSuccess(t, id, input)) /\ Silent(RecordFailure(t, id))
  BY <1>1, RecordPaths, RecordType
<1>3. ASSUME NEW labels \in Seq(Labels) PROVE Silent(Artifacts(id, labels))
  <2>1. Artifacts(id, labels) \in Seq(HandlerWrites)
    BY ArtifactsType
  <2>2. \A i \in DOMAIN Artifacts(id, labels) :
          Artifacts(id, labels)[i] = LogWhat("artifact_registered", id, labels[i])
    BY DEF Artifacts
  <2>3. \A i \in DOMAIN Artifacts(id, labels) :
          Artifacts(id, labels)[i].entry.type # "script_completed"
    BY <2>2, WriteFields
  <2> QED BY <2>1, <2>3 DEF Silent, LogPlaces, Places
<1>4. ASSUME NEW type \in {"script_started", "script_completed", "script_failed"},
             NEW what \in ScriptIds \cup {None}
      PROVE  /\ CompletesOnce(<<LogWhat(type, id, what)>>, what)
             /\ type # "script_completed" => Silent(<<LogWhat(type, id, what)>>)
  <2> DEFINE w == LogWhat(type, id, what)
  <2>1. w \in HandlerWrites
    BY LogType DEF EntryTypes
  <2>2. w.entry.type = type /\ w.entry.what = what
    BY WriteFields
  <2> HIDE DEF w
  <2>3. <<w>> \in Seq(HandlerWrites) /\ \A k \in DOMAIN <<w>> : k = 1 /\ <<w>>[k] = w
    BY <2>1
  <2>4. CompletesOnce(<<w>>, what) /\ (type # "script_completed" => Silent(<<w>>))
    BY <2>2, <2>3 DEF CompletesOnce, Silent, LogPlaces, Places
  <2> QED BY <2>4 DEF w
<1> QED BY <1>2, <1>3, <1>4

\* A handler logs the completion of a script at most once, and of a script that
\* refuses to be run again only when the journal does not hold it.
LEMMA HandlerCompletes ==
  ASSUME TypeInv, Stage \/ RunScript \/ HandleResume
  PROVE  \A k \in LogPlaces(todo', "script_completed") :
           /\ todo'[k].entry.what \in Refusing => ~HasCompleted(todo'[k].entry.what)
           /\ \A l \in LogPlaces(todo', "script_completed") : l = k
<1> USE DEF Handling, At
<1>1. mem \in Tasks /\ cur \in Nat /\ mem.human \in BOOLEAN
  BY DEF TypeInv, RecordInv, TypeOK, Tasks
<1> DEFINE success == RecordSuccess(mem, cur, FALSE)
           failure == RecordFailure(mem, cur)
<1>2. Silent(success) /\ Silent(failure) /\ \A input \in BOOLEAN : Silent(RecordSuccess(mem, cur, input))
  BY <1>1, SilentParts
<1>3. ASSUME Silent(todo') PROVE LogPlaces(todo', "script_completed") = {}
  BY <1>3 DEF Silent
<1>4. ASSUME NEW a, NEW b, Silent(a), Silent(b) PROVE Silent(a \o b)
  BY <1>4, SilentConcat
<1>5. CASE Stage
  <2> DEFINE labels == Outputs[mem.subtasks[cur].stage]
  <2>1. labels \in Seq(Labels)
    BY <1>5, CurType DEF Stage, StageReturns, StageThrows
  <2>2. ASSUME NEW result \in AgentResults, StageReturns(result) PROVE Silent(todo')
    <3>1. Silent(Artifacts(cur, labels)) /\ todo' = Artifacts(cur, labels) \o success
      BY <1>1, <2>1, <2>2, SilentParts DEF StageReturns
    <3> HIDE DEF success
    <3> QED BY <1>2, <1>4, <3>1
  <2>3. ASSUME NEW n \in Nat, StageThrows(n) PROVE Silent(todo')
    <3> DEFINE some == SubSeq(labels, 1, n)
    <3>1. todo' = Artifacts(cur, some) \o failure /\ n <= Len(labels)
      BY <2>3 DEF StageThrows
    <3>2. some \in Seq(Labels)
      <4> HIDE DEF labels
      <4> QED BY <2>1, <3>1
    <3>3. Silent(Artifacts(cur, some))
      BY <1>1, <3>2, SilentParts
    <3> HIDE DEF some, failure
    <3> QED BY <1>2, <1>4, <3>1, <3>3
  <2>4. \A s \in Stages : Len(Outputs[s]) \in Nat
    BY RecipeAssumption
  <2>5. \/ \E result \in AgentResults : StageReturns(result)
        \/ \E n \in Nat : StageThrows(n)
    BY <1>5, <2>4 DEF Stage
  <2> QED BY <1>3, <2>2, <2>3, <2>5
<1>6. CASE ScriptBlocked
  <2>1. todo' = failure
    BY <1>6 DEF ScriptBlocked
  <2> QED BY <1>2, <1>3, <2>1
<1>7. CASE HandleResume
  <2>1. todo' = RecordSuccess(mem, cur, mem.human)
    BY <1>7 DEF HandleResume
  <2> QED BY <1>1, <1>2, <1>3, <2>1
<1>8. ASSUME NEW result \in ScriptResults, NEW labels \in EnvelopeLabels, ScriptRuns(result, labels)
      PROVE  CompletesOnce(todo', Script)
  <2>1. Script \in ScriptIds \cup {None}
    BY <1>8, CurType DEF ScriptRuns
  <2>2. labels \in Seq(Labels)
    <3>1. \A l \in Labels : <<l>> \in Seq(Labels)
      BY PairType
    <3>2. <<>> \in Seq(Labels)
      OBVIOUS
    <3> QED BY <3>1, <3>2 DEF EnvelopeLabels
  <2> DEFINE started == <<LogWhat("script_started", cur, Script)>>
             completed == <<LogWhat("script_completed", cur, Script)>>
             failed == <<LogWhat("script_failed", cur, Script)>>
             registered == Artifacts(cur, labels)
  <2>3. todo' \in {started \o ((registered \o completed) \o success), started \o success,
                   started \o (failed \o failure), started \o (registered \o failure)}
    BY <1>8 DEF ScriptRuns, ScriptWrites, ScriptResults
  <2>4. /\ Silent(started) /\ Silent(failed) /\ Silent(registered)
        /\ CompletesOnce(completed, Script)
    BY <1>1, <2>1, <2>2, SilentParts
  <2> DEFINE all == (registered \o completed) \o success
             front == registered \o completed
  <2> HIDE DEF started, completed, failed, registered, success, failure
  <2>5. CompletesOnce(front, Script)
    BY <2>4, CompletionsAdd
  <2>6. CompletesOnce(all, Script)
    <3> HIDE DEF front
    <3>1. CompletesOnce(front \o success, Script)
      BY <1>2, <2>5, CompletionsAdd
    <3> QED BY <3>1 DEF front
  <2>7. Silent(failed \o failure) /\ Silent(registered \o failure)
    BY <1>2, <1>4, <2>4
  <2> HIDE DEF all
  <2>8. /\ CompletesOnce(started \o all, Script)
        /\ CompletesOnce(started \o success, Script)
        /\ CompletesOnce(started \o (failed \o failure), Script)
        /\ CompletesOnce(started \o (registered \o failure), Script)
    <3>1. CompletesOnce(started \o all, Script)
      BY <2>4, <2>6, CompletionsAdd
    <3>2. Silent(started \o success) /\ Silent(started \o (failed \o failure))
          /\ Silent(started \o (registered \o failure))
      BY <1>2, <1>4, <2>4, <2>7
    <3> QED BY <3>1, <3>2, SilentOnce
  <2> QED BY <2>3, <2>8 DEF all
<1>9. CASE \E result \in ScriptResults, labels \in EnvelopeLabels : ScriptRuns(result, labels)
  <2>1. CompletesOnce(todo', Script) /\ (Script \in Refusing => ~HasCompleted(Script))
    BY <1>8, <1>9 DEF ScriptRuns, ScriptAdmitted
  <2> QED BY <2>1 DEF CompletesOnce
<1> QED BY <1>5, <1>6, <1>7, <1>9 DEF RunScript

\* The scripts the journal says have completed.
CompletedScripts == {journal[i].what : i \in EverLogged("script_completed")}

\* They are the ones enforceRerunPolicy looks for.
LEMMA CompletedKnown == \A script : HasCompleted(script) <=> script \in CompletedScripts
BY DEF HasCompleted, ToSet, CompletedScripts, EverLogged

\* The inductive invariant of RefusedRunsOnce: a completion still to be logged,
\* of a script that refuses to be run again, is the only one and not in the journal.
RefuseInv ==
    /\ RefusedRunsOnce
    /\ \A k \in LogPlaces(todo, "script_completed") :
         /\ todo[k].entry.what \in Refusing => todo[k].entry.what \notin CompletedScripts
         /\ \A l \in LogPlaces(todo, "script_completed") : l = k

\* The initial states satisfy the invariant.
LEMMA RefuseInit == Init => RefuseInv
BY DEF Init, RefuseInv, RefusedRunsOnce, EverLogged, LogPlaces, Places

\* A step that leaves no completion to be logged.
LEMMA RefuseQuiet ==
  ASSUME RefuseInv, journal' = journal, LogPlaces(todo', "script_completed") = {}
  PROVE  RefuseInv'
<1>1. RefusedRunsOnce'
  BY DEF RefuseInv, RefusedRunsOnce, EverLogged
<1> QED BY <1>1 DEF RefuseInv

\* What one more entry in the journal says of scripts.
LEMMA JournalGrows ==
  ASSUME NEW n, n \notin DOMAIN journal, DOMAIN journal' = DOMAIN journal \cup {n},
         \A i \in DOMAIN journal : journal'[i] = journal[i]
  PROVE  /\ EverLogged("script_completed")' =
              IF journal'[n].type = "script_completed" THEN EverLogged("script_completed") \cup {n}
              ELSE EverLogged("script_completed")
         /\ CompletedScripts' =
              IF journal'[n].type = "script_completed" THEN CompletedScripts \cup {journal'[n].what}
              ELSE CompletedScripts
<1>1. EverLogged("script_completed")' =
         IF journal'[n].type = "script_completed" THEN EverLogged("script_completed") \cup {n}
         ELSE EverLogged("script_completed")
  BY DEF EverLogged
<1>2. \A i \in EverLogged("script_completed") : i \in DOMAIN journal /\ journal'[i] = journal[i]
  BY DEF EverLogged
<1>3. CompletedScripts' = {journal'[i].what : i \in EverLogged("script_completed")'}
  BY DEF CompletedScripts
<1>4. CompletedScripts = {journal[i].what : i \in EverLogged("script_completed")}
  BY DEF CompletedScripts
<1> QED BY <1>1, <1>2, <1>3, <1>4

\* A write of the current handler.
LEMMA RefuseDoStep == TypeInv /\ RefuseInv /\ DoStep => RefuseInv'
<1> SUFFICES ASSUME TypeInv, RefuseInv, DoStep PROVE RefuseInv'
  OBVIOUS
<1> DEFINE completed == "script_completed"
<1>1. \A k \in LogPlaces(todo', completed) :
         k \in Nat /\ k > 0 /\ k + 1 \in LogPlaces(todo, completed) /\ todo'[k] = todo[k + 1]
  BY ShiftedPlaces DEF LogPlaces
<1>2. CASE todo[1].op # "log"
  <2>1. journal' = journal
    BY <1>2, DoStepKeeps
  <2>2. RefusedRunsOnce' /\ CompletedScripts' = CompletedScripts
    BY <2>1 DEF RefuseInv, RefusedRunsOnce, EverLogged, CompletedScripts
  <2>3. ASSUME NEW k \in LogPlaces(todo', completed), NEW l \in LogPlaces(todo', completed)
        PROVE  l = k
    BY <1>1 DEF RefuseInv
  <2>4. ASSUME NEW k \in LogPlaces(todo', completed)
        PROVE  todo'[k].entry.what \in Refusing => todo'[k].entry.what \notin CompletedScripts'
    BY <1>1, <2>2 DEF RefuseInv
  <2> QED BY <2>2, <2>3, <2>4 DEF RefuseInv
<1>3. CASE todo[1].op = "log"
  <2> DEFINE n == Len(journal) + 1
             e == todo[1].entry
  <2>1. /\ n \notin DOMAIN journal /\ DOMAIN journal' = DOMAIN journal \cup {n}
        /\ journal'[n] = e
        /\ \A i \in DOMAIN journal : journal'[i] = journal[i]
    BY <1>3, DoStepLogs
  <2> HIDE DEF n
  <2>2. /\ EverLogged(completed)' = IF e.type = completed THEN EverLogged(completed) \cup {n}
                                ELSE EverLogged(completed)
        /\ CompletedScripts' = IF e.type = completed THEN CompletedScripts \cup {e.what}
                               ELSE CompletedScripts
    BY <2>1, JournalGrows
  <2>3. 1 \in LogPlaces(todo, completed) <=> e.type = completed
    BY <1>3, Shifted DEF LogPlaces, Places
  <2>4. e.type = completed => LogPlaces(todo', completed) = {}
    <3> SUFFICES ASSUME e.type = completed, NEW k \in LogPlaces(todo', completed) PROVE FALSE
      OBVIOUS
    <3>1. k \in Nat /\ k > 0 /\ k + 1 \in LogPlaces(todo, completed) /\ 1 \in LogPlaces(todo, completed)
      BY <1>1, <2>3
    <3>2. k + 1 = 1
      BY <3>1 DEF RefuseInv
    <3> QED BY <3>1, <3>2
  <2>5. ASSUME NEW k \in LogPlaces(todo', completed)
        PROVE  /\ todo'[k].entry.what \in Refusing => todo'[k].entry.what \notin CompletedScripts'
               /\ \A l \in LogPlaces(todo', completed) : l = k
    BY <1>1, <2>2, <2>4 DEF RefuseInv
  <2>6. RefusedRunsOnce'
    <3> SUFFICES ASSUME NEW i \in EverLogged(completed)', NEW j \in EverLogged(completed)',
                        journal'[i].what \in Refusing, journal'[i].what = journal'[j].what
                 PROVE  i = j
      BY DEF RefusedRunsOnce
    <3>1. EverLogged(completed) \subseteq DOMAIN journal
      BY DEF EverLogged
    <3>2. \A h \in EverLogged(completed) : journal[h].what \in CompletedScripts
      BY DEF CompletedScripts
    <3>3. CASE i \in EverLogged(completed) /\ j \in EverLogged(completed)
      BY <2>1, <3>1, <3>3 DEF RefuseInv, RefusedRunsOnce
    <3>4. CASE i = n /\ j = n
      BY <3>4
    <3>5. ASSUME NEW h \in EverLogged(completed), e.type = completed, e.what \in Refusing,
                 journal[h].what = e.what
          PROVE  FALSE
      BY <2>3, <3>2, <3>5 DEF RefuseInv
    <3> QED BY <2>1, <2>2, <3>1, <3>3, <3>4, <3>5
  <2> QED BY <2>5, <2>6 DEF RefuseInv
<1> QED BY <1>2, <1>3

\* Every step keeps the invariant.
LEMMA RefuseStep == TypeInv /\ StatusInv /\ RefuseInv /\ [Next]_vars => RefuseInv'
<1> SUFFICES ASSUME TypeInv, StatusInv, RefuseInv, [Next]_vars PROVE RefuseInv'
  OBVIOUS
<1>a. ASSUME journal' = journal, NEW S, "script_completed" \notin S,
             \A k \in Places(todo', "log") : todo'[k].entry.type \in S
      PROVE  RefuseInv'
  BY <1>a, RefuseQuiet DEF LogPlaces
<1>b. "script_completed" \notin PlainTypes
  BY DEF PlainTypes
<1>1. CASE Deliver \/ JobEnds \/ LeaveLoop
  BY <1>1, PlaceFacts DEF RefuseInv, RefusedRunsOnce, EverLogged, CompletedScripts
<1>16. CASE BeginRun
  <2>1. /\ journal' = journal /\ DOMAIN todo' = {1} /\ todo'[1].entry.type = "subtask_queued"
    BY <1>16, BeginRunFacts
  <2> QED BY <2>1, RefuseQuiet DEF LogPlaces, Places
<1>2. CASE EnterRunTask
  <2>1. journal' = journal
    BY <1>2, EnterFacts DEF Chooses
  <2>2. CASE todo' = <<>>
    BY <2>1, <2>2, RefuseQuiet DEF LogPlaces, Places
  <2>3. CASE \E q \in Nat :
                 todo' = <<Enqueue(NewSubtask("orchestrator_eval", EffectiveStage(mem), None, FALSE)),
                           Log("subtask_queued", q)>>
    <3> DEFINE sub == NewSubtask("orchestrator_eval", EffectiveStage(mem), None, FALSE)
    <3>2. PICK q \in Nat : todo' = <<Enqueue(sub), Log("subtask_queued", q)>>
      BY <2>3
    <3> HIDE DEF sub
    <3>1. \A k \in Places(todo', "log") : todo'[k].entry.type \in PlainTypes
      BY <3>2, EvalPlaces
    <3> QED BY <1>a, <1>b, <2>1, <3>1
  <2> QED BY <1>2, <2>2, <2>3, EnterFacts
<1>3. CASE Dequeue \/ Activate
  <2>1. journal' = journal /\ todo' = <<>>
    BY <1>3, DequeueFacts, ActivateFacts
  <2> QED BY <2>1, RefuseQuiet DEF LogPlaces, Places
<1>5. CASE LogStarted
  <2> DEFINE n == Len(journal) + 1
  <2>1. /\ n \notin DOMAIN journal /\ DOMAIN journal' = DOMAIN journal \cup {n}
        /\ journal'[n].type = "subtask_started" /\ todo' = <<>>
        /\ \A i \in DOMAIN journal : journal'[i] = journal[i]
    BY <1>5, StartedFacts
  <2> HIDE DEF n
  <2>2. EverLogged("script_completed")' = EverLogged("script_completed")
    BY <2>1, JournalGrows
  <2>3. RefusedRunsOnce'
    BY <2>1, <2>2 DEF RefuseInv, RefusedRunsOnce, EverLogged
  <2> QED BY <2>1, <2>3 DEF RefuseInv, LogPlaces, Places
<1>6. CASE DoStep
  BY <1>6, RefuseDoStep
<1>7. CASE EvalUnparsable \/ \E d \in Replies : EvalRejected(d)
  <2>1. journal' = journal /\ \A k \in Places(todo', "log") : todo'[k].entry.type \in PlainTypes
    BY <1>7, RejectFacts, RejectPlaces DEF Chooses
  <2> QED BY <1>a, <1>b, <2>1
<1>8. ASSUME NEW d \in Replies, EvalApplied(d) PROVE RefuseInv'
  <2>1. journal' = journal
    BY <1>8, AppliedFacts DEF Chooses
  <2> DEFINE S == PlainTypes \cup {"subtask_completed", "task_completed", "task_failed", "task_paused"}
  <2>2. "script_completed" \notin S
    BY DEF PlainTypes
  <2>3. ASSUME NEW sub, RunWrites(todo', cur, sub) PROVE RefuseInv'
    <3>1. \A k \in Places(todo', "log") : todo'[k].entry.type \in S
      BY <2>3, RunPlaces
    <3> HIDE DEF S
    <3> QED BY <1>a, <2>1, <2>2, <3>1
  <2>4. ASSUME NEW a \in DOMAIN EndStatus, EndWrites(todo', cur, EndEntry[a]) PROVE RefuseInv'
    <3>1. EndEntry[a] \in S
      BY DEF EndStatus, EndEntry
    <3>2. \A k \in Places(todo', "log") : todo'[k].entry.type \in S
      BY <2>4, <3>1, EndPlaces
    <3> HIDE DEF S
    <3> QED BY <1>a, <2>1, <2>2, <3>2
  <2>5. ASSUME UnknownWrites(todo', cur) PROVE RefuseInv'
    <3>1. \A k \in Places(todo', "log") : todo'[k].entry.type \in S
      BY <2>5, UnknownPlaces
    <3> HIDE DEF S
    <3> QED BY <1>a, <2>1, <2>2, <3>1
  <2> QED BY <1>8, <2>3, <2>4, <2>5, AppliedFacts
<1>9. CASE EvalExhausted
  <2>1. journal' = journal
    BY <1>9, ExhaustedFacts DEF Chooses
  <2> DEFINE S == PlainTypes \cup {"subtask_failed"}
  <2>2. "script_completed" \notin S
    BY DEF PlainTypes
  <2>3. \A k \in Places(todo', "log") : todo'[k].entry.type \in S
    BY <1>9, ExhaustedFacts, ExhaustedPlaces
  <2> HIDE DEF S
  <2> QED BY <1>a, <2>1, <2>2, <2>3
<1>10. CASE Stage \/ RunScript \/ HandleResume
  <2>1. journal' = journal
    BY <1>10, HandledFacts DEF Chooses
  <2>2. RefusedRunsOnce' /\ CompletedScripts' = CompletedScripts
    BY <2>1 DEF RefuseInv, RefusedRunsOnce, EverLogged, CompletedScripts
  <2> QED BY <1>10, <2>2, HandlerCompletes, CompletedKnown DEF RefuseInv
<1>11. CASE Resume
  <2>1. journal' = journal
    BY <1>11, ResumeFacts DEF Chooses
  <2> DEFINE sub == NewSubtask("resume_after_input", EffectiveStage(mem), None, FALSE)
  <2>3. todo' = <<Enqueue(sub), Log("task_resumed", 0), Save>>
    BY <1>11, ResumeFacts
  <2> HIDE DEF sub
  <2>2. \A k \in Places(todo', "log") : todo'[k].entry.type = "task_resumed"
    BY <2>3, ResumePlaces
  <2> QED BY <2>1, <2>2, RefuseQuiet DEF LogPlaces
<1>12. CASE CheckTimeouts
  <2>1. journal' = journal /\ \A k \in Places(todo', "log") : todo'[k].entry.type \in PlainTypes
    BY <1>12, ExpireFacts, ExpirePlaces DEF Chooses
  <2> QED BY <1>a, <1>b, <2>1
<1>13. CASE RunTaskThrows \/ Crash
  <2>1. journal' = journal /\ todo' = <<>>
    BY <1>13, DropFacts
  <2> QED BY <2>1, RefuseQuiet DEF LogPlaces, Places
<1>14. CASE Restart
  <2>1. journal' = journal /\ todo = <<>> /\ mem \in Tasks
    BY <1>14, RestartFacts DEF StatusInv, RunningPlaces, TypeInv, RecordInv, TypeOK
  <2>2. CASE todo' = RebuildQueue(mem)
    <3>1. \A k \in Places(todo', "log") : todo'[k].entry.type \in PlainTypes \cup {"subtask_failed"}
      BY <2>1, <2>2, RebuildPlaces
    <3>2. LogPlaces(todo', "script_completed") = {}
      BY <1>b, <3>1 DEF LogPlaces
    <3> QED BY <2>1, <3>2, RefuseQuiet
  <2>3. CASE todo' = todo
    BY <2>1, <2>3, RefuseQuiet DEF LogPlaces, Places
  <2> QED BY <1>14, <2>2, <2>3, RestartFacts
<1>15. CASE UNCHANGED vars
  BY <1>15 DEF vars, RefuseInv, RefusedRunsOnce, EverLogged, CompletedScripts
<1> QED BY <1>1, <1>2, <1>3, <1>5, <1>6, <1>7, <1>8, <1>9, <1>10, <1>11, <1>12, <1>13, <1>14,
           <1>15, <1>16, StepCases

\* For every recipe and script registry, a script whose rerun policy is "refuse" is
\* logged as completed at most once in the life of a task, however often a crash or an
\* exception comes between its completion and the end of its subtask and the
\* orchestrator asks for it again, in the same record or in that of a redelivered job.
THEOREM RefusedScriptsRunOnce == Spec => []RefusedRunsOnce
<1>1. RefuseInv => RefusedRunsOnce
  BY DEF RefuseInv
<1> QED BY <1>1, TypeInit, TypeStep, StatusInit, StatusStep, RefuseInit, RefuseStep, PTL DEF Spec

(***************************************************************************)
(* One continuation                                                        *)
(***************************************************************************)
\* Stage, script and resume subtasks that were started and not settled.
Orphans ==
    {i \in DOMAIN mem.subtasks : /\ mem.subtasks[i].status = "active"
                                 /\ mem.subtasks[i].kind # "orchestrator_eval"}

\* activeSubtaskId is saved as soon as it is set and names a subtask.
ActiveKnown == mem.active = disk.active /\ mem.active \in DOMAIN mem.subtasks \cup {0}

\* What is queued is the newest subtask, and nothing else is under way.
QueueShort ==
    /\ mem.queue \in {<<>>, <<Len(mem.subtasks)>>}
    /\ mem.queue # <<>> =>
         /\ Orphans = {} /\ Len(mem.subtasks) \in DOMAIN mem.subtasks
         /\ mem.subtasks[Len(mem.subtasks)].status = "pending"

\* A subtask is handled while the queue is empty, and it is the newest one.
CurNewest ==
    /\ pc \in {"dequeued", "activated", "handle"} =>
         /\ mem.queue = <<>> /\ cur = Len(mem.subtasks) /\ Places(todo, "log") = DOMAIN todo
    /\ pc = "dequeued" => Orphans = {} /\ mem.subtasks[cur].status = "pending"
    /\ pc \in {"activated", "handle"} => mem.active = cur /\ mem.subtasks[cur].status = "active"

\* A handler enqueues at most one subtask, when nothing is queued, and settles
\* what is under way before, unless that is an evaluation.
EnqueueOnce ==
    \A k \in Places(todo, "enqueue") :
        /\ mem.queue = <<>> /\ todo[k].sub.status = "pending" /\ Places(todo, "enqueue") = {k}
        /\ Orphans = {} \/ \E j \in Places(todo, "settle") : j < k

\* It settles at most one subtask, the active one.
SettleActive ==
    \A k \in Places(todo, "settle") :
        /\ Places(todo, "settle") = {k} /\ Places(todo, "unset") = {}
        /\ todo[k].id = mem.active /\ mem.active # 0
        /\ mem.subtasks[mem.active].status = "active"
        /\ todo[k].status \in {"completed", "failed"}

\* activeSubtaskId is cleared without settling only when nothing is under way.
UnsetQuiet == \A k \in Places(todo, "unset") : k = 1 /\ Orphans = {}

OrphanIsActive == Orphans \subseteq {mem.active}

\* Between two subtasks nothing is under way, or about to be settled.
RunQuiet == pc \in {"entry", "loop"} => Orphans = {} \/ Places(todo, "settle") # {}

\* A task that rests, in memory or on the disk, has nothing queued or active,
\* or settles the active subtask with the next save.
RestQuiet ==
    /\ disk.status \in {"paused", "waiting"} => disk.queue = <<>> /\ disk.active = 0
    /\ mem.status \in {"paused", "waiting"} =>
         /\ mem.queue = <<>> /\ Places(todo, "enqueue") = {}
         /\ mem.active = 0 \/ \E k \in Places(todo, "settle") : OnlyLogsBefore(todo, k)

\* The inductive invariant of the first three parts of OneContinuation.
FlowInv ==
    /\ ActiveKnown /\ QueueShort /\ CurNewest /\ EnqueueOnce /\ SettleActive /\ UnsetQuiet
    /\ OrphanIsActive /\ RunQuiet /\ RestQuiet

\* The initial states satisfy the invariant.
LEMMA FlowInit == Init => FlowInv
<1> SUFFICES ASSUME Init PROVE FlowInv
  OBVIOUS
<1>1. /\ mem.subtasks = <<>> /\ mem.queue = <<>> /\ mem.active = 0 /\ disk.active = 0
      /\ mem.status = "unsaved" /\ disk.status = "unsaved" /\ todo = <<>> /\ pc = "idle"
  BY DEF Init, NewTask
<1>2. Orphans = {} /\ \A op : Places(todo, op) = {}
  BY <1>1 DEF Orphans, Places
<1>3. ActiveKnown /\ QueueShort /\ CurNewest
  BY <1>1 DEF ActiveKnown, QueueShort, CurNewest
<1>4. EnqueueOnce /\ SettleActive /\ UnsetQuiet /\ OrphanIsActive /\ RunQuiet /\ RestQuiet
  BY <1>1, <1>2 DEF EnqueueOnce, SettleActive, UnsetQuiet, OrphanIsActive, RunQuiet, RestQuiet
<1> QED BY <1>3, <1>4 DEF FlowInv

\* An entry is logged: nothing of the record changes.
LEMMA FlowLogs ==
  ASSUME TypeInv, FlowInv, DoStep, todo[1].op = "log"
  PROVE  FlowInv'
<1>1. mem' = mem /\ disk' = disk /\ pc' = pc /\ cur' = cur
  BY DoStepKeeps
<1>2. Orphans' = Orphans
  BY <1>1 DEF Orphans
<1>3. /\ \A op : \A k \in Places(todo', op) :
            k \in Nat /\ k > 0 /\ k + 1 \in Places(todo, op) /\ todo'[k] = todo[k + 1]
      /\ \A op : \A k \in Places(todo, op) :
            k \in Nat /\ k > 0 /\ (k # 1 => k - 1 \in Places(todo', op) /\ todo'[k - 1] = todo[k])
  BY ShiftedPlaces
<1>4. 1 \notin Places(todo, "enqueue") /\ 1 \notin Places(todo, "settle") /\ 1 \notin Places(todo, "unset")
  BY DEF Places
<1>5. ActiveKnown' /\ QueueShort' /\ OrphanIsActive'
  BY <1>1, <1>2 DEF FlowInv, ActiveKnown, QueueShort, OrphanIsActive
<1>6. CurNewest'
  <2>1. Places(todo, "log") = DOMAIN todo => Places(todo', "log") = DOMAIN todo'
    BY Shifted DEF Places
  <2> QED BY <1>1, <1>2, <2>1 DEF FlowInv, CurNewest
<1>7. EnqueueOnce'
  <2> SUFFICES ASSUME NEW k \in Places(todo', "enqueue")
               PROVE  /\ mem.queue = <<>> /\ todo'[k].sub.status = "pending"
                      /\ Places(todo', "enqueue") = {k}
                      /\ Orphans = {} \/ \E j \in Places(todo', "settle") : j < k
    BY <1>1, <1>2 DEF EnqueueOnce
  <2>1. /\ k + 1 \in Places(todo, "enqueue") /\ todo'[k] = todo[k + 1] /\ k \in Nat
        /\ Places(todo, "enqueue") = {k + 1} /\ mem.queue = <<>> /\ todo'[k].sub.status = "pending"
        /\ Orphans = {} \/ \E j \in Places(todo, "settle") : j < k + 1
    BY <1>3 DEF FlowInv, EnqueueOnce
  <2>2. Places(todo', "enqueue") = {k}
    BY <2>1, ShiftedOnce
  <2>3. ASSUME NEW j \in Places(todo, "settle"), j < k + 1
        PROVE  j - 1 \in Places(todo', "settle") /\ j - 1 < k
    BY <1>3, <1>4, <2>1, <2>3
  <2> QED BY <2>1, <2>2, <2>3
<1>8. SettleActive'
  <2> SUFFICES ASSUME NEW k \in Places(todo', "settle")
               PROVE  /\ Places(todo', "settle") = {k} /\ Places(todo', "unset") = {}
                      /\ todo'[k].id = mem.active /\ mem.active # 0
                      /\ mem.subtasks[mem.active].status = "active"
                      /\ todo'[k].status \in {"completed", "failed"}
    BY <1>1 DEF SettleActive
  <2>1. /\ k + 1 \in Places(todo, "settle") /\ todo'[k] = todo[k + 1] /\ k \in Nat
        /\ Places(todo, "settle") = {k + 1} /\ Places(todo, "unset") = {}
        /\ todo'[k].id = mem.active /\ mem.active # 0
        /\ mem.subtasks[mem.active].status = "active"
        /\ todo'[k].status \in {"completed", "failed"}
    BY <1>3 DEF FlowInv, SettleActive
  <2>2. Places(todo', "settle") = {k} /\ Places(todo', "unset") = {}
    BY <1>3, <2>1, ShiftedOnce
  <2> QED BY <2>1, <2>2
<1>9. UnsetQuiet'
  <2>1. Places(todo', "unset") = {}
    BY <1>3, <1>4 DEF FlowInv, UnsetQuiet
  <2> QED BY <2>1 DEF UnsetQuiet
<1>10. RunQuiet'
  <2>1. Places(todo, "settle") # {} => Places(todo', "settle") # {}
    BY <1>3, <1>4
  <2> QED BY <1>1, <1>2, <2>1 DEF FlowInv, RunQuiet
<1>11. RestQuiet'
  <2>1. ASSUME NEW k \in Places(todo, "settle"), OnlyLogsBefore(todo, k)
        PROVE  k - 1 \in Places(todo', "settle") /\ OnlyLogsBefore(todo', k - 1)
    <3>1. k \in DOMAIN todo /\ k # 1
      BY <1>4 DEF Places
    <3> QED BY <1>3, <2>1, <3>1, ShiftedFirst
  <2>2. Places(todo, "enqueue") = {} => Places(todo', "enqueue") = {}
    BY <1>3
  <2> QED BY <1>1, <2>1, <2>2 DEF FlowInv, RestQuiet
<1> QED BY <1>5, <1>6, <1>7, <1>8, <1>9, <1>10, <1>11 DEF FlowInv

\* A subtask is enqueued: it is the only one that waits.
LEMMA FlowEnqueues ==
  ASSUME TypeInv, FlowInv, DoStep, todo[1].op = "enqueue"
  PROVE  FlowInv'
<1> DEFINE n == Len(mem.subtasks) + 1
<1>1. /\ pc' = pc /\ disk' = mem' /\ mem'.status = mem.status /\ mem'.active = mem.active
      /\ todo[1].sub \in Subtasks /\ Len(mem'.subtasks) = n /\ n \notin DOMAIN mem.subtasks
      /\ DOMAIN mem'.subtasks = DOMAIN mem.subtasks \cup {n}
      /\ \A i \in DOMAIN mem.subtasks : mem'.subtasks[i] = mem.subtasks[i]
      /\ mem'.subtasks[n] = todo[1].sub /\ mem'.queue = Append(mem.queue, n)
  BY DoStepKeeps, DoStepEnqueues DEF Rest
<1>2. 1 \in Places(todo, "enqueue") /\ 1 \notin Places(todo, "log") /\ 1 \in DOMAIN todo
  BY Shifted DEF Places
<1>3. /\ mem.queue = <<>> /\ todo[1].sub.status = "pending" /\ Places(todo, "enqueue") = {1}
      /\ Orphans = {} \/ \E j \in Places(todo, "settle") : j < 1
  BY <1>2 DEF FlowInv, EnqueueOnce
<1>4. /\ \A op : \A k \in Places(todo', op) :
            k \in Nat /\ k > 0 /\ k + 1 \in Places(todo, op) /\ todo'[k] = todo[k + 1]
      /\ \A op : \A k \in Places(todo, op) :
            k \in Nat /\ k > 0 /\ (k # 1 => k - 1 \in Places(todo', op) /\ todo'[k - 1] = todo[k])
  BY ShiftedPlaces
<1>5. Orphans = {}
  <2>1. \A j \in Places(todo, "settle") : ~(j < 1)
    BY <1>4
  <2> QED BY <1>3, <2>1
<1>6. mem'.queue = <<n>> /\ n \in Nat
  BY <1>1, <1>3 DEF TypeInv, RecordInv, TypeOK, Tasks
<1> HIDE DEF n
<1>7. Orphans' = {}
  BY <1>1, <1>3, <1>5 DEF Orphans
<1>8. pc' \notin {"dequeued", "activated", "handle"}
  BY <1>1, <1>2 DEF FlowInv, CurNewest
<1>9. Places(todo', "enqueue") = {} /\ Places(todo', "unset") = {}
  <2>1. 1 \notin Places(todo, "unset")
    BY DEF Places
  <2> QED BY <1>3, <1>4, <2>1 DEF FlowInv, UnsetQuiet
<1>10. ActiveKnown' /\ QueueShort' /\ CurNewest' /\ OrphanIsActive'
  BY <1>1, <1>3, <1>6, <1>7, <1>8 DEF FlowInv, ActiveKnown, QueueShort, CurNewest, OrphanIsActive
<1>11. EnqueueOnce' /\ UnsetQuiet' /\ RunQuiet'
  BY <1>7, <1>9 DEF EnqueueOnce, UnsetQuiet, RunQuiet
<1>12. SettleActive'
  <2> SUFFICES ASSUME NEW k \in Places(todo', "settle")
               PROVE  /\ Places(todo', "settle") = {k} /\ Places(todo', "unset") = {}
                      /\ todo'[k].id = mem'.active /\ mem'.active # 0
                      /\ mem'.subtasks[mem'.active].status = "active"
                      /\ todo'[k].status \in {"completed", "failed"}
    BY DEF SettleActive
  <2>1. /\ k + 1 \in Places(todo, "settle") /\ todo'[k] = todo[k + 1] /\ k \in Nat
        /\ Places(todo, "settle") = {k + 1}
        /\ todo'[k].id = mem.active /\ mem.active # 0
        /\ mem.subtasks[mem.active].status = "active"
        /\ todo'[k].status \in {"completed", "failed"}
    BY <1>4 DEF FlowInv, SettleActive
  <2>2. mem.active \in DOMAIN mem.subtasks
    BY <2>1 DEF FlowInv, ActiveKnown
  <2>3. Places(todo', "settle") = {k}
    BY <2>1, ShiftedOnce
  <2> QED BY <1>1, <1>9, <2>1, <2>2, <2>3
<1>13. RestQuiet'
  <2>1. mem'.status \notin {"paused", "waiting"}
    BY <1>1, <1>3 DEF FlowInv, RestQuiet
  <2> QED BY <1>1, <2>1 DEF RestQuiet
<1> QED BY <1>10, <1>11, <1>12, <1>13 DEF FlowInv

\* The active subtask is settled, activeSubtaskId is cleared, or the record is saved.
LEMMA FlowSettles ==
  ASSUME TypeInv, FlowInv, DoStep, todo[1].op \in {"settle", "unset", "save"}
  PROVE  FlowInv'
<1>1. /\ pc' = pc /\ disk' = mem' /\ mem'.status = mem.status
      /\ Len(mem'.subtasks) = Len(mem.subtasks)
      /\ DOMAIN mem'.subtasks = DOMAIN mem.subtasks /\ mem'.queue = mem.queue
      /\ mem'.active = IF todo[1].op = "save" THEN mem.active ELSE 0
      /\ \A i \in DOMAIN mem.subtasks :
           /\ mem'.subtasks[i].kind = mem.subtasks[i].kind
           /\ todo[1].op = "settle" /\ todo[1].id = i => mem'.subtasks[i].status = todo[1].status
           /\ todo[1].op # "settle" \/ todo[1].id # i =>
                mem'.subtasks[i].status = mem.subtasks[i].status
  BY DoStepKeeps, DoStepSettles DEF Rest
<1>2. /\ \A op : \A k \in Places(todo', op) :
            k \in Nat /\ k > 0 /\ k + 1 \in Places(todo, op) /\ todo'[k] = todo[k + 1]
      /\ \A op : \A k \in Places(todo, op) :
            k \in Nat /\ k > 0 /\ (k # 1 => k - 1 \in Places(todo', op) /\ todo'[k - 1] = todo[k])
  BY ShiftedPlaces
<1>3. /\ 1 \in DOMAIN todo /\ 1 \notin Places(todo, "enqueue") /\ 1 \notin Places(todo, "log")
      /\ todo[1].op = "settle" <=> 1 \in Places(todo, "settle")
      /\ todo[1].op = "unset" <=> 1 \in Places(todo, "unset")
  BY Shifted DEF Places
<1>4. pc' \notin {"dequeued", "activated", "handle"}
  BY <1>1, <1>3 DEF FlowInv, CurNewest
<1>5. CASE todo[1].op = "settle"
  <2>1. /\ Places(todo, "settle") = {1} /\ Places(todo, "unset") = {}
        /\ todo[1].id = mem.active /\ mem.active # 0 /\ mem.active \in DOMAIN mem.subtasks
        /\ mem.subtasks[mem.active].status = "active"
        /\ todo[1].status \in {"completed", "failed"}
    BY <1>3, <1>5 DEF FlowInv, SettleActive, ActiveKnown
  <2>2. Places(todo', "settle") = {} /\ Places(todo', "unset") = {}
    BY <1>2, <2>1
  <2>3. Orphans' = {}
    BY <1>1, <1>5, <2>1 DEF FlowInv, OrphanIsActive, Orphans
  <2>4. mem'.active = 0
    BY <1>1, <1>5
  <2>5. ActiveKnown' /\ CurNewest' /\ OrphanIsActive'
    BY <1>1, <1>4, <2>3, <2>4 DEF ActiveKnown, CurNewest, OrphanIsActive
  <2>6. QueueShort'
    <3>1. ASSUME mem.queue # <<>>
          PROVE  /\ Len(mem.subtasks) \in DOMAIN mem.subtasks
                 /\ mem'.subtasks[Len(mem.subtasks)].status = "pending"
      <4>1. /\ Len(mem.subtasks) \in DOMAIN mem.subtasks
            /\ mem.subtasks[Len(mem.subtasks)].status = "pending"
        BY <3>1 DEF FlowInv, QueueShort
      <4>2. Len(mem.subtasks) # todo[1].id
        BY <2>1, <4>1
      <4> QED BY <1>1, <4>1, <4>2
    <3> QED BY <1>1, <2>3, <3>1 DEF FlowInv, QueueShort
  <2>7. EnqueueOnce'
    BY <1>1, <1>2, <2>3 DEF FlowInv, EnqueueOnce
  <2>8. SettleActive' /\ UnsetQuiet' /\ RunQuiet'
    BY <2>2, <2>3 DEF SettleActive, UnsetQuiet, RunQuiet
  <2>9. RestQuiet'
    BY <1>1, <1>2, <2>4 DEF FlowInv, RestQuiet
  <2> QED BY <2>5, <2>6, <2>7, <2>8, <2>9 DEF FlowInv
<1>6. CASE todo[1].op = "unset"
  <2>1. Orphans = {} /\ Places(todo, "settle") = {} /\ \A k \in Places(todo, "unset") : k = 1
    BY <1>3, <1>6 DEF FlowInv, UnsetQuiet, SettleActive
  <2>2. Places(todo', "settle") = {} /\ Places(todo', "unset") = {}
    BY <1>2, <2>1
  <2>3. Orphans' = {}
    BY <1>1, <1>6, <2>1 DEF Orphans
  <2>4. mem'.active = 0
    BY <1>1, <1>6
  <2>5. ActiveKnown' /\ CurNewest' /\ OrphanIsActive'
    BY <1>1, <1>4, <2>3, <2>4 DEF ActiveKnown, CurNewest, OrphanIsActive
  <2>6. QueueShort'
    BY <1>1, <1>6, <2>3 DEF FlowInv, QueueShort
  <2>7. EnqueueOnce'
    BY <1>1, <1>2, <2>3 DEF FlowInv, EnqueueOnce
  <2>8. SettleActive' /\ UnsetQuiet' /\ RunQuiet'
    BY <2>2, <2>3 DEF SettleActive, UnsetQuiet, RunQuiet
  <2>9. RestQuiet'
    BY <1>1, <1>2, <2>4 DEF FlowInv, RestQuiet
  <2> QED BY <2>5, <2>6, <2>7, <2>8, <2>9 DEF FlowInv
<1>7. CASE todo[1].op = "save"
  <2>1. 1 \notin Places(todo, "settle") /\ 1 \notin Places(todo, "unset")
    BY <1>3, <1>7
  <2>2. Places(todo, "unset") = {} /\ Places(todo', "unset") = {}
    BY <1>2, <2>1 DEF FlowInv, UnsetQuiet
  <2>3. Orphans' = Orphans
    BY <1>1, <1>7 DEF Orphans
  <2>4. mem'.active = mem.active
    BY <1>1, <1>7
  <2>5. ActiveKnown' /\ CurNewest' /\ OrphanIsActive'
    BY <1>1, <1>4, <2>3, <2>4 DEF FlowInv, ActiveKnown, CurNewest, OrphanIsActive
  <2>6. QueueShort'
    BY <1>1, <1>7, <2>3 DEF FlowInv, QueueShort
  <2>7. EnqueueOnce'
    <3> SUFFICES ASSUME NEW k \in Places(todo', "enqueue")
                 PROVE  /\ mem.queue = <<>> /\ todo'[k].sub.status = "pending"
                        /\ Places(todo', "enqueue") = {k}
                        /\ Orphans = {} \/ \E j \in Places(todo', "settle") : j < k
      BY <1>1, <2>3 DEF EnqueueOnce
    <3>1. /\ k + 1 \in Places(todo, "enqueue") /\ todo'[k] = todo[k + 1] /\ k \in Nat
          /\ Places(todo, "enqueue") = {k + 1} /\ mem.queue = <<>> /\ todo'[k].sub.status = "pending"
          /\ Orphans = {} \/ \E j \in Places(todo, "settle") : j < k + 1
      BY <1>2 DEF FlowInv, EnqueueOnce
    <3>2. Places(todo', "enqueue") = {k}
      BY <3>1, ShiftedOnce
    <3>3. ASSUME NEW j \in Places(todo, "settle"), j < k + 1
          PROVE  j - 1 \in Places(todo', "settle") /\ j - 1 < k
      BY <1>2, <2>1, <3>1, <3>3
    <3> QED BY <3>1, <3>2, <3>3
  <2>8. SettleActive'
    <3> SUFFICES ASSUME NEW k \in Places(todo', "settle")
                 PROVE  /\ Places(todo', "settle") = {k} /\ Places(todo', "unset") = {}
                        /\ todo'[k].id = mem'.active /\ mem'.active # 0
                        /\ mem'.subtasks[mem'.active].status = "active"
                        /\ todo'[k].status \in {"completed", "failed"}
      BY DEF SettleActive
    <3>1. /\ k + 1 \in Places(todo, "settle") /\ todo'[k] = todo[k + 1] /\ k \in Nat
          /\ Places(todo, "settle") = {k + 1}
          /\ todo'[k].id = mem.active /\ mem.active # 0
          /\ mem.subtasks[mem.active].status = "active"
          /\ todo'[k].status \in {"completed", "failed"}
      BY <1>2 DEF FlowInv, SettleActive
    <3>2. mem.active \in DOMAIN mem.subtasks
      BY <3>1 DEF FlowInv, ActiveKnown
    <3>3. Places(todo', "settle") = {k}
      BY <3>1, ShiftedOnce
    <3> QED BY <1>1, <1>7, <2>2, <2>4, <3>1, <3>2, <3>3
  <2>9. UnsetQuiet'
    BY <2>2 DEF UnsetQuiet
  <2>10. RunQuiet'
    <3>1. Places(todo, "settle") # {} => Places(todo', "settle") # {}
      BY <1>2, <2>1
    <3> QED BY <1>1, <2>3, <3>1 DEF FlowInv, RunQuiet
  <2>11. RestQuiet'
    <3>1. \A k \in Places(todo, "settle") : ~OnlyLogsBefore(todo, k)
      BY <1>7, <2>1, ShiftedFirst DEF Places
    <3> QED BY <1>1, <1>2, <2>4, <3>1 DEF FlowInv, RestQuiet
  <2> QED BY <2>5, <2>6, <2>7, <2>8, <2>9, <2>10, <2>11 DEF FlowInv
<1> QED BY <1>5, <1>6, <1>7

\* A step that chooses what to write leaves the subtasks as they are.
LEMMA FlowKept ==
  ASSUME FlowInv, Chooses
  PROVE  ActiveKnown' /\ QueueShort' /\ OrphanIsActive' /\ Orphans' = Orphans
<1>1. Orphans' = Orphans
  BY DEF Chooses, Orphans
<1> QED BY <1>1 DEF Chooses, FlowInv, ActiveKnown, QueueShort, OrphanIsActive

\* One that writes no subtask keeps what is said of the writes.
LEMMA FlowNoWrites ==
  ASSUME NoSubtaskWrites(todo')
  PROVE  EnqueueOnce' /\ SettleActive' /\ UnsetQuiet'
BY DEF NoSubtaskWrites, EnqueueOnce, SettleActive, UnsetQuiet

\* A handler that settles its subtask.
LEMMA FlowHandled ==
  ASSUME TypeInv, StatusInv, FlowInv, Chooses, pc = "handle", pc' = "loop",
         NEW k, Places(todo', "settle") = {k}, Places(todo', "unset") = {},
         todo'[k].id = cur, todo'[k].status \in {"completed", "failed"},
         \A l \in Places(todo', "enqueue") :
           /\ Places(todo', "enqueue") = {l} /\ todo'[l].sub.status = "pending"
           /\ k < l \/ mem.subtasks[cur].kind = "orchestrator_eval",
         mem'.status \in {"paused", "waiting"} =>
           Places(todo', "enqueue") = {} /\ OnlyLogsBefore(todo', k)
  PROVE  FlowInv'
<1>1. /\ mem'.subtasks = mem.subtasks /\ mem'.queue = mem.queue /\ mem'.active = mem.active
      /\ disk' = disk
  BY DEF Chooses
<1>2. /\ mem.queue = <<>> /\ cur \in DOMAIN mem.subtasks /\ mem.active = cur
      /\ mem.subtasks[cur].status = "active"
  BY DEF FlowInv, CurNewest, TypeInv, RecordInv, CurKnown
<1>3. cur # 0
  BY <1>2 DEF TypeInv, RecordInv, TypeOK, Tasks
<1>4. mem.subtasks[cur].kind = "orchestrator_eval" => Orphans = {}
  BY <1>2 DEF FlowInv, OrphanIsActive, Orphans
<1>5. ActiveKnown' /\ QueueShort' /\ OrphanIsActive' /\ Orphans' = Orphans
  BY FlowKept
<1>6. CurNewest' /\ UnsetQuiet' /\ RunQuiet'
  BY DEF CurNewest, UnsetQuiet, RunQuiet
<1>7. EnqueueOnce'
  BY <1>1, <1>2, <1>4, <1>5 DEF EnqueueOnce
<1>8. SettleActive'
  BY <1>1, <1>2, <1>3 DEF SettleActive
<1>9. RestQuiet'
  BY <1>1, <1>2 DEF FlowInv, RestQuiet
<1> QED BY <1>5, <1>6, <1>7, <1>8, <1>9 DEF FlowInv

\* Outside the handlers, with nothing under way, a first evaluation or a resume
\* is enqueued.
LEMMA FlowOpens ==
  ASSUME FlowInv, Chooses, pc' \in {"entry", "loop"}, Orphans = {}, mem.queue = <<>>,
         Places(todo', "settle") = {}, Places(todo', "unset") = {},
         Places(todo', "enqueue") = {1}, todo'[1].sub.status = "pending",
         mem'.status \notin {"paused", "waiting"}
  PROVE  FlowInv'
<1>1. mem'.queue = mem.queue /\ disk' = disk
  BY DEF Chooses
<1>2. ActiveKnown' /\ QueueShort' /\ OrphanIsActive' /\ Orphans' = {}
  BY FlowKept
<1>3. CurNewest' /\ UnsetQuiet' /\ RunQuiet' /\ SettleActive'
  BY <1>2 DEF CurNewest, UnsetQuiet, RunQuiet, SettleActive
<1>4. EnqueueOnce'
  BY <1>1, <1>2 DEF EnqueueOnce
<1>5. RestQuiet'
  BY <1>1 DEF FlowInv, RestQuiet
<1> QED BY <1>2, <1>3, <1>4, <1>5 DEF FlowInv

\* A rejected reply writes entries only.
LEMMA FlowRejects ==
  ASSUME TypeInv, StatusInv, FlowInv, EvalUnparsable \/ \E d \in Replies : EvalRejected(d)
  PROVE  FlowInv'
<1>1. /\ Chooses /\ pc = "handle" /\ pc' = "handle" /\ mem' = mem /\ cur' = cur /\ disk' = disk
      /\ NoSubtaskWrites(todo') /\ Places(todo', "log") = DOMAIN todo'
  BY RejectFacts, RejectPlaces DEF Chooses
<1>2. ActiveKnown' /\ QueueShort' /\ OrphanIsActive' /\ Orphans' = Orphans
  BY <1>1, FlowKept
<1>3. CurNewest'
  BY <1>1 DEF FlowInv, CurNewest
<1>4. RunQuiet' /\ RestQuiet'
  BY <1>1 DEF RunQuiet, StatusInv, RunningPlaces, FlowInv, RestQuiet
<1> QED BY <1>1, <1>2, <1>3, <1>4, FlowNoWrites DEF FlowInv

\* The decisions that are applied.
LEMMA FlowApplied ==
  ASSUME TypeInv, StatusInv, FlowInv, NEW d \in Replies, EvalApplied(d)
  PROVE  FlowInv'
<1>1. /\ Chooses /\ pc = "handle" /\ pc' = "loop" /\ mem.subtasks[cur].kind = "orchestrator_eval"
      /\ mem.status \in {"queued", "active"}
  BY AppliedFacts DEF StatusInv, RunningPlaces
<1>2. ASSUME NEW sub \in Subtasks, sub.status = "pending", mem'.status = mem.status,
             RunWrites(todo', cur, sub)
      PROVE  FlowInv'
  <2>1. /\ Places(todo', "enqueue") = {2} /\ todo'[2].sub = sub
        /\ Places(todo', "settle") = {4} /\ todo'[4].id = cur /\ todo'[4].status = "completed"
        /\ Places(todo', "unset") = {}
    BY <1>2, RunPlaces
  <2> QED BY <1>1, <1>2, <2>1, FlowHandled
<1>3. ASSUME NEW type, EndWrites(todo', cur, type) PROVE FlowInv'
  <2>1. /\ Places(todo', "enqueue") = {} /\ Places(todo', "unset") = {}
        /\ Places(todo', "settle") = {3} /\ todo'[3].id = cur /\ todo'[3].status = "completed"
        /\ OnlyLogsBefore(todo', 3)
    BY <1>3, EndPlaces
  <2> QED BY <1>1, <2>1, FlowHandled
<1>4. ASSUME UnknownWrites(todo', cur) PROVE FlowInv'
  <2>1. /\ Places(todo', "enqueue") = {} /\ Places(todo', "unset") = {}
        /\ Places(todo', "settle") = {2} /\ todo'[2].id = cur /\ todo'[2].status = "completed"
        /\ OnlyLogsBefore(todo', 2)
    BY <1>4, UnknownPlaces
  <2> QED BY <1>1, <2>1, FlowHandled
<1> QED BY <1>2, <1>3, <1>4, AppliedFacts

\* Recovery rebuilds the queue of an active task.
LEMMA FlowRebuilds ==
  ASSUME TypeInv, StatusInv, FlowInv, Restart, pc' = "entry", todo' = RebuildQueue(mem)
  PROVE  FlowInv'
<1>1. /\ UNCHANGED <<mem, disk>> /\ mem.status \in {"queued", "active"} /\ mem \in Tasks
      /\ mem = disk
  <2>1. /\ pc = "down" /\ UNCHANGED <<mem, disk>> /\ todo = <<>>
        /\ \/ mem.status = "active"
           \/ pc' = "idle"
    BY RestartFacts DEF StatusInv, RunningPlaces
  <2>2. mem = disk
    BY <2>1, UpToDate
  <2> QED BY <2>1, <2>2 DEF TypeInv, RecordInv, TypeOK
<1>r. /\ \A k \in Places(todo', "settle") :
            /\ k = 1 /\ todo'[k].id = mem.active /\ todo'[k].status = "failed" /\ Interrupted(mem)
            /\ Places(todo', "unset") = {}
      /\ \A k \in Places(todo', "unset") : k = 1 /\ ~Interrupted(mem)
      /\ \A k \in Places(todo', "enqueue") :
            /\ Places(todo', "enqueue") = {k} /\ mem.queue = <<>>
            /\ todo'[k].sub = NewSubtask("orchestrator_eval", EffectiveStage(mem), None, FALSE)
            /\ Interrupted(mem) => 1 \in Places(todo', "settle") /\ k > 1
      /\ Interrupted(mem) /\ mem.queue = <<>> => 1 \in Places(todo', "settle")
  <2>1. mem \in Tasks
    BY <1>1
  <2> QED BY Zenon, <2>1, RebuildPlaces
<1>2. Orphans' = Orphans
  BY <1>1 DEF Orphans
<1>3. ~Interrupted(mem) \/ mem.queue # <<>> => Orphans = {}
  <2>1. mem.queue # <<>> => Orphans = {}
    BY DEF FlowInv, QueueShort
  <2>2. ASSUME NEW i \in Orphans PROVE Interrupted(mem)
    <3>1. i = mem.active /\ mem.subtasks[i].status = "active" /\ i \in DOMAIN mem.subtasks
      BY DEF FlowInv, OrphanIsActive, Orphans
    <3>2. i # 0
      BY <1>1, <3>1 DEF Tasks
    <3> QED BY <3>1, <3>2 DEF Interrupted
  <2> QED BY <2>1, <2>2
<1>4. ActiveKnown' /\ QueueShort' /\ OrphanIsActive' /\ CurNewest'
  BY <1>1, <1>2 DEF FlowInv, ActiveKnown, QueueShort, OrphanIsActive, CurNewest
<1>5. EnqueueOnce'
  <2> SUFFICES ASSUME NEW k \in Places(todo', "enqueue")
               PROVE  /\ mem.queue = <<>> /\ todo'[k].sub.status = "pending"
                      /\ Places(todo', "enqueue") = {k}
                      /\ Orphans = {} \/ \E j \in Places(todo', "settle") : j < k
    BY <1>1, <1>2 DEF EnqueueOnce
  <2> DEFINE sub == NewSubtask("orchestrator_eval", EffectiveStage(mem), None, FALSE)
  <2>1. sub.status = "pending"
    BY DEF NewSubtask
  <2> HIDE DEF sub
  <2>2. /\ Places(todo', "enqueue") = {k} /\ mem.queue = <<>> /\ todo'[k].sub = sub
        /\ Interrupted(mem) => 1 \in Places(todo', "settle") /\ k > 1
    BY <1>r DEF sub
  <2> QED BY <1>3, <2>1, <2>2
<1>6. SettleActive'
  <2> SUFFICES ASSUME NEW k \in Places(todo', "settle")
               PROVE  /\ Places(todo', "settle") = {k} /\ Places(todo', "unset") = {}
                      /\ todo'[k].id = mem.active /\ mem.active # 0
                      /\ mem.subtasks[mem.active].status = "active"
                      /\ todo'[k].status \in {"completed", "failed"}
    BY <1>1 DEF SettleActive
  <2>1. /\ k = 1 /\ todo'[k].id = mem.active /\ todo'[k].status = "failed" /\ Interrupted(mem)
        /\ Places(todo', "unset") = {}
    BY <1>r
  <2>2. \A l \in Places(todo', "settle") : l = 1
    BY <1>r
  <2> QED BY <2>1, <2>2 DEF Interrupted
<1>7. UnsetQuiet'
  <2>1. \A k \in Places(todo', "unset") : k = 1 /\ ~Interrupted(mem)
    BY <1>r
  <2> QED BY <1>2, <1>3, <2>1 DEF UnsetQuiet
<1>8. RunQuiet'
  <2>1. Interrupted(mem) /\ mem.queue = <<>> => 1 \in Places(todo', "settle")
    BY <1>r
  <2> QED BY <1>2, <1>3, <2>1 DEF RunQuiet
<1>9. RestQuiet'
  BY <1>1 DEF RestQuiet
<1> QED BY <1>4, <1>5, <1>6, <1>7, <1>8, <1>9 DEF FlowInv

\* The steps that take the next subtask and start it.
LEMMA FlowStarts ==
  ASSUME TypeInv, StatusInv, FlowInv, Dequeue \/ Activate \/ LogStarted
  PROVE  FlowInv'
<1>1. CASE Dequeue
  <2>1. /\ pc = "loop" /\ pc' = "dequeued" /\ todo' = <<>> /\ disk' = mem'
        /\ mem.queue # <<>> /\ cur' = Head(mem.queue) /\ mem'.queue = Tail(mem.queue)
        /\ mem'.subtasks = mem.subtasks /\ mem'.active = mem.active /\ mem'.status = mem.status
        /\ mem.status \notin TerminalStatuses
    BY <1>1, DequeueFacts DEF Rest
  <2>2. /\ mem.queue = <<Len(mem.subtasks)>> /\ Orphans = {}
        /\ mem.subtasks[Len(mem.subtasks)].status = "pending"
    BY <2>1 DEF FlowInv, QueueShort
  <2>3. cur' = Len(mem.subtasks) /\ mem'.queue = <<>>
    BY <2>1, <2>2
  <2>4. Orphans' = {} /\ \A op : Places(todo', op) = {}
    BY <2>1, <2>2 DEF Orphans, Places
  <2>5. mem'.status \notin {"paused", "waiting"}
    BY <2>1 DEF StatusInv, RunningPlaces, TerminalStatuses
  <2>6. ActiveKnown' /\ QueueShort' /\ CurNewest'
    BY <2>1, <2>2, <2>3, <2>4 DEF FlowInv, ActiveKnown, QueueShort, CurNewest
  <2>7. EnqueueOnce' /\ SettleActive' /\ UnsetQuiet' /\ OrphanIsActive' /\ RunQuiet'
    BY <2>4 DEF EnqueueOnce, SettleActive, UnsetQuiet, OrphanIsActive, RunQuiet
  <2>8. RestQuiet'
    BY <2>1, <2>5 DEF RestQuiet
  <2> QED BY <2>6, <2>7, <2>8 DEF FlowInv
<1>2. CASE Activate
  <2>1. /\ pc = "dequeued" /\ pc' = "activated" /\ todo' = <<>> /\ disk' = mem' /\ cur' = cur
        /\ cur \in DOMAIN mem.subtasks /\ mem'.active = cur /\ mem'.queue = mem.queue
        /\ mem'.status = mem.status
        /\ DOMAIN mem'.subtasks = DOMAIN mem.subtasks /\ Len(mem'.subtasks) = Len(mem.subtasks)
        /\ \A i \in DOMAIN mem.subtasks :
             /\ mem'.subtasks[i].kind = mem.subtasks[i].kind
             /\ i = cur => mem'.subtasks[i].status = "active"
             /\ i # cur => mem'.subtasks[i].status = mem.subtasks[i].status
    BY <1>2, ActivateFacts DEF Rest
  <2>2. /\ mem.queue = <<>> /\ cur = Len(mem.subtasks) /\ Orphans = {}
        /\ mem.status \in {"queued", "active"}
    BY <2>1 DEF FlowInv, CurNewest, StatusInv, RunningPlaces
  <2>3. Orphans' \subseteq {cur}
    BY <2>1, <2>2 DEF Orphans
  <2>4. \A op : Places(todo', op) = {}
    BY <2>1 DEF Places
  <2>5. ActiveKnown' /\ QueueShort' /\ CurNewest'
    BY <2>1, <2>2, <2>4 DEF ActiveKnown, QueueShort, CurNewest
  <2>6. EnqueueOnce' /\ SettleActive' /\ UnsetQuiet' /\ OrphanIsActive' /\ RunQuiet'
    BY <2>1, <2>3, <2>4 DEF EnqueueOnce, SettleActive, UnsetQuiet, OrphanIsActive, RunQuiet
  <2>7. RestQuiet'
    BY <2>1, <2>2 DEF RestQuiet
  <2> QED BY <2>5, <2>6, <2>7 DEF FlowInv
<1>3. CASE LogStarted
  <2>1. /\ pc = "activated" /\ pc' = "handle" /\ todo' = todo /\ UNCHANGED <<mem, disk, cur>>
    BY <1>3, StartedFacts
  <2>2. Orphans' = Orphans
    BY <2>1 DEF Orphans
  <2>3. ActiveKnown' /\ QueueShort' /\ OrphanIsActive' /\ CurNewest'
    BY <2>1, <2>2 DEF FlowInv, ActiveKnown, QueueShort, CurNewest, OrphanIsActive
  <2>4. EnqueueOnce' /\ SettleActive' /\ UnsetQuiet' /\ RunQuiet' /\ RestQuiet'
    BY <2>1, <2>2 DEF FlowInv, EnqueueOnce, SettleActive, UnsetQuiet, RunQuiet, RestQuiet
  <2> QED BY <2>3, <2>4 DEF FlowInv
<1> QED BY <1>1, <1>2, <1>3

\* A new record: its only subtask is queued and nothing is under way.
LEMMA FlowBegins ==
  ASSUME TypeInv, BeginRun
  PROVE  FlowInv'
<1>1. /\ pc' = "loop" /\ disk' = mem' /\ mem'.status \in {"queued", "active"}
      /\ mem'.active = 0 /\ mem'.queue = <<1>> /\ Len(mem'.subtasks) = 1
      /\ DOMAIN mem'.subtasks = {1} /\ mem'.subtasks[1].status = "pending"
      /\ DOMAIN todo' = {1} /\ todo'[1].op = "log"
  BY BeginRunFacts
<1>2. /\ Orphans' = {} /\ Places(todo', "enqueue") = {} /\ Places(todo', "settle") = {}
      /\ Places(todo', "unset") = {}
  BY <1>1 DEF Orphans, Places
<1>3. ActiveKnown' /\ QueueShort' /\ CurNewest'
  BY <1>1, <1>2 DEF ActiveKnown, QueueShort, CurNewest
<1>4. EnqueueOnce' /\ SettleActive' /\ UnsetQuiet' /\ OrphanIsActive' /\ RunQuiet'
  BY <1>2 DEF EnqueueOnce, SettleActive, UnsetQuiet, OrphanIsActive, RunQuiet
<1>5. RestQuiet'
  BY <1>1 DEF RestQuiet
<1> QED BY <1>3, <1>4, <1>5 DEF FlowInv

\* The steps between two subtasks: the job is handed over or ends, runTask is
\* entered or returns, and a paused task is resumed or expires.
LEMMA FlowBetween ==
  ASSUME TypeInv, StatusInv, FlowInv,
         Deliver \/ JobEnds \/ LeaveLoop \/ EnterRunTask \/ Resume \/ CheckTimeouts
  PROVE  FlowInv'
<1>1. CASE Deliver \/ JobEnds \/ LeaveLoop
  <2>1. UNCHANGED <<todo, mem, disk>> /\ pc' \in {"fetched", "idle"}
    BY <1>1, PlaceFacts
  <2>2. Orphans' = Orphans
    BY <2>1 DEF Orphans
  <2>3. ActiveKnown' /\ QueueShort' /\ OrphanIsActive' /\ CurNewest'
    BY <2>1, <2>2 DEF FlowInv, ActiveKnown, QueueShort, CurNewest, OrphanIsActive
  <2>4. EnqueueOnce' /\ SettleActive' /\ UnsetQuiet' /\ RunQuiet' /\ RestQuiet'
    BY <2>1, <2>2 DEF FlowInv, EnqueueOnce, SettleActive, UnsetQuiet, RunQuiet, RestQuiet
  <2> QED BY <2>3, <2>4 DEF FlowInv
<1>2. CASE EnterRunTask
  <2>1. /\ Chooses /\ todo = <<>> /\ pc = "entry" /\ pc' = "loop" /\ mem'.status = mem.status
        /\ mem.status \in {"queued", "active"} /\ disk' = disk
    BY <1>2, EnterFacts DEF Chooses, StatusInv, RunningPlaces
  <2>2. Orphans = {}
    BY <2>1 DEF FlowInv, RunQuiet, Places
  <2>3. CASE todo' = <<>>
    <3>1. NoSubtaskWrites(todo')
      BY <2>3 DEF NoSubtaskWrites, Places
    <3>2. ActiveKnown' /\ QueueShort' /\ OrphanIsActive' /\ Orphans' = {}
      BY <2>1, <2>2, FlowKept
    <3>3. CurNewest' /\ RunQuiet' /\ RestQuiet'
      BY <2>1, <3>2 DEF FlowInv, CurNewest, RunQuiet, RestQuiet
    <3> QED BY <3>1, <3>2, <3>3, FlowNoWrites DEF FlowInv
  <2>4. CASE mem.queue = <<>> /\ \E q \in Nat :
                 todo' = <<Enqueue(NewSubtask("orchestrator_eval", EffectiveStage(mem), None, FALSE)),
                           Log("subtask_queued", q)>>
    <3> DEFINE sub == NewSubtask("orchestrator_eval", EffectiveStage(mem), None, FALSE)
    <3>1. PICK q \in Nat : todo' = <<Enqueue(sub), Log("subtask_queued", q)>>
      BY <2>4
    <3>2. sub.status = "pending"
      BY DEF NewSubtask
    <3> HIDE DEF sub
    <3>3. /\ Places(todo', "enqueue") = {1} /\ todo'[1].sub = sub
          /\ Places(todo', "settle") = {} /\ Places(todo', "unset") = {}
      BY <3>1, EvalPlaces
    <3> QED BY <2>1, <2>2, <2>4, <3>2, <3>3, FlowOpens
  <2> QED BY <1>2, <2>3, <2>4, EnterFacts
<1>3. ASSUME Resume \/ CheckTimeouts
      PROVE  /\ Chooses /\ pc = "idle" /\ todo = <<>> /\ disk' = disk
             /\ mem.queue = <<>> /\ mem.active = 0 /\ Orphans = {}
  <2>1. Chooses /\ pc = "idle" /\ todo = <<>> /\ mem.status = "paused" /\ disk' = disk
    BY <1>3, ResumeFacts, ExpireFacts DEF Chooses
  <2>2. mem.queue = <<>> /\ mem.active = 0
    BY <2>1 DEF FlowInv, RestQuiet, Places
  <2>3. 0 \notin DOMAIN mem.subtasks
    BY DEF TypeInv, RecordInv, TypeOK, Tasks
  <2>4. Orphans = {}
    BY <2>2, <2>3 DEF FlowInv, OrphanIsActive, Orphans
  <2> QED BY <2>1, <2>2, <2>4
<1>4. CASE Resume
  <2>1. pc' = "entry" /\ mem'.status = "active"
    BY <1>4, ResumeFacts
  <2> DEFINE sub == NewSubtask("resume_after_input", EffectiveStage(mem), None, FALSE)
  <2>2. todo' = <<Enqueue(sub), Log("task_resumed", 0), Save>>
    BY <1>4, ResumeFacts
  <2>3. sub.status = "pending"
    BY DEF NewSubtask
  <2> HIDE DEF sub
  <2>4. /\ Places(todo', "enqueue") = {1} /\ todo'[1].sub = sub
        /\ Places(todo', "settle") = {} /\ Places(todo', "unset") = {}
    BY <2>2, ResumePlaces
  <2> QED BY <1>3, <1>4, <2>1, <2>3, <2>4, FlowOpens
<1>5. CASE CheckTimeouts
  <2>1. pc' = "idle" /\ NoSubtaskWrites(todo')
    BY <1>5, ExpireFacts, ExpirePlaces
  <2>2. ActiveKnown' /\ QueueShort' /\ OrphanIsActive'
    BY <1>3, <1>5, FlowKept
  <2>3. CurNewest' /\ RunQuiet'
    BY <2>1 DEF CurNewest, RunQuiet
  <2>4. RestQuiet'
    BY <1>3, <1>5, <2>1 DEF FlowInv, RestQuiet, Chooses, NoSubtaskWrites
  <2> QED BY <2>1, <2>2, <2>3, <2>4, FlowNoWrites DEF FlowInv
<1> QED BY <1>1, <1>2, <1>4, <1>5

\* Every step keeps the invariant.
LEMMA FlowStep == TypeInv /\ StatusInv /\ FlowInv /\ [Next]_vars => FlowInv'
<1> SUFFICES ASSUME TypeInv, StatusInv, FlowInv, [Next]_vars PROVE FlowInv'
  OBVIOUS
<1>1. CASE DoStep
  BY <1>1, FlowLogs, FlowEnqueues, FlowSettles, DoStepKeeps
<1>2. CASE EvalExhausted
  <2>1. /\ Chooses /\ pc = "handle" /\ pc' = "loop" /\ mem'.status = "failed"
        /\ Places(todo', "enqueue") = {} /\ Places(todo', "unset") = {}
        /\ Places(todo', "settle") = {1} /\ todo'[1].id = cur /\ todo'[1].status = "failed"
    BY <1>2, ExhaustedFacts, ExhaustedPlaces
  <2> QED BY <2>1, FlowHandled
<1>3. CASE Stage \/ RunScript \/ HandleResume
  <2>1. Chooses /\ pc = "handle" /\ pc' = "loop"
    BY <1>3, HandledFacts
  <2>2. mem' \in {mem, [mem EXCEPT !.status = "active"]}
    BY <1>3, HandledFacts
  <2>3. mem'.status \notin {"paused", "waiting"}
    <3>1. mem.status \in {"queued", "active"} /\ mem \in Tasks
      BY <2>1 DEF StatusInv, RunningPlaces, TypeInv, RecordInv, TypeOK
    <3> QED BY <2>2, <3>1 DEF Tasks
  <2>4. PICK n \in Nat, status \in {"completed", "failed"}, input \in BOOLEAN :
               Recorded(todo', n, cur, status, NextEval(input))
    BY <1>3, HandledFacts
  <2>5. /\ Places(todo', "settle") = {n + 1} /\ todo'[n + 1].id = cur
        /\ todo'[n + 1].status = status /\ Places(todo', "unset") = {}
        /\ Places(todo', "enqueue") = {n + 3} /\ todo'[n + 3].sub = NextEval(input)
    BY <2>4, RecordedPlaces
  <2>6. NextEval(input).status = "pending" /\ n + 1 < n + 3
    BY DEF NextEval, NewSubtask
  <2> QED BY <2>1, <2>3, <2>5, <2>6, FlowHandled
<1>4. CASE RunTaskThrows \/ Crash
  <2>1. pc' \in {"idle", "down"} /\ todo' = <<>> /\ mem' = disk /\ disk' = disk
    BY <1>4, DropFacts
  <2>2. mem'.subtasks = mem.subtasks /\ mem'.queue = mem.queue /\ mem'.active = mem.active
    BY <2>1 DEF TypeInv, RecordInv, Synced, FlowInv, ActiveKnown
  <2>3. Orphans' = Orphans
    BY <2>2 DEF Orphans
  <2>4. NoSubtaskWrites(todo')
    BY <2>1 DEF NoSubtaskWrites, Places
  <2>5. ActiveKnown' /\ QueueShort' /\ OrphanIsActive'
    BY <2>1, <2>2, <2>3 DEF FlowInv, ActiveKnown, QueueShort, OrphanIsActive
  <2>6. CurNewest' /\ RunQuiet' /\ RestQuiet'
    BY <2>1, <2>4 DEF FlowInv, CurNewest, RunQuiet, RestQuiet, NoSubtaskWrites
  <2> QED BY <2>4, <2>5, <2>6, FlowNoWrites DEF FlowInv
<1>5. CASE Restart
  <2>1. CASE pc' = "entry" /\ todo' = RebuildQueue(mem)
    BY <1>5, <2>1, FlowRebuilds
  <2>2. CASE pc' = "idle" /\ todo' = todo
    <3>1. UNCHANGED <<mem, disk, todo>>
      BY <1>5, <2>2, RestartFacts
    <3>2. Orphans' = Orphans
      BY <3>1 DEF Orphans
    <3>3. ActiveKnown' /\ QueueShort' /\ OrphanIsActive'
      BY <3>1, <3>2 DEF FlowInv, ActiveKnown, QueueShort, OrphanIsActive
    <3>4. CurNewest' /\ RunQuiet' /\ RestQuiet'
      BY <2>2, <3>1 DEF FlowInv, CurNewest, RunQuiet, RestQuiet
    <3>5. EnqueueOnce' /\ SettleActive' /\ UnsetQuiet'
      BY <3>1, <3>2 DEF FlowInv, EnqueueOnce, SettleActive, UnsetQuiet
    <3> QED BY <3>3, <3>4, <3>5 DEF FlowInv
  <2> QED BY <1>5, <2>1, <2>2, RestartFacts
<1>6. CASE UNCHANGED vars
  <2>1. Orphans' = Orphans
    BY <1>6 DEF vars, Orphans
  <2> QED BY <1>6, <2>1 DEF vars, FlowInv, ActiveKnown, QueueShort, CurNewest, EnqueueOnce,
             SettleActive, UnsetQuiet, OrphanIsActive, RunQuiet, RestQuiet
<1> QED BY <1>1, <1>2, <1>3, <1>4, <1>5, <1>6, StepCases, FlowBegins, FlowStarts, FlowBetween,
           FlowRejects, FlowApplied

(***************************************************************************)
(* What a human said                                                       *)
(***************************************************************************)
\* Subtasks that a human reply enqueued.
Resumes == {i \in DOMAIN mem.subtasks : mem.subtasks[i].kind = "resume_after_input"}

\* The evaluation that is told what the human said.
CarriesInput(sub) == sub.kind = "orchestrator_eval" /\ sub.input = TRUE

\* A reply is kept from the resume on.
HumanKept ==
    /\ Resumes # {} => mem.human = TRUE /\ disk.human = TRUE
    /\ \A k \in Places(todo, "enqueue") :
         todo[k].sub.kind = "resume_after_input" => mem.human = TRUE

\* The handler that completes such a subtask enqueues the evaluation next.
CompletesCarrying ==
    \A k \in Places(todo, "settle") :
        todo[k].status = "completed" /\ todo[k].id \in Resumes =>
          /\ todo[k].id = Len(mem.subtasks)
          /\ \E l \in Places(todo, "enqueue") : k < l /\ CarriesInput(todo[l].sub)

\* Without failures a completed resume is followed by that evaluation, or will
\* be by the next subtask to be enqueued.
CompletedCarried ==
    crashes = 0 /\ throws = 0 =>
      \A i \in Resumes :
        mem.subtasks[i].status = "completed" =>
          \/ i + 1 \in DOMAIN mem.subtasks /\ CarriesInput(mem.subtasks[i + 1])
          \/ i = Len(mem.subtasks) /\ \E k \in Places(todo, "enqueue") : CarriesInput(todo[k].sub)

\* The inductive invariant of InputCarried.
CarryInv == HumanKept /\ CompletesCarrying /\ CompletedCarried

\* The initial states satisfy the invariant.
LEMMA CarryInit == Init => CarryInv
<1> SUFFICES ASSUME Init PROVE CarryInv
  OBVIOUS
<1>1. mem.subtasks = <<>> /\ todo = <<>>
  BY DEF Init, NewTask
<1>2. Resumes = {} /\ \A op : Places(todo, op) = {}
  BY <1>1 DEF Resumes, Places
<1> QED BY <1>2 DEF CarryInv, HumanKept, CompletesCarrying, CompletedCarried

\* A step that keeps the subtasks, with nothing left to write, keeps the invariant
\* if what it chooses to write does.
LEMMA CarryChooses ==
  ASSUME CarryInv, todo = <<>>, mem'.subtasks = mem.subtasks,
         disk'.human = disk.human, mem.human = TRUE => mem'.human = TRUE,
         crashes' = 0 /\ throws' = 0 => crashes = 0 /\ throws = 0,
         \A k \in Places(todo', "enqueue") :
           todo'[k].sub.kind = "resume_after_input" => mem'.human = TRUE,
         CompletesCarrying'
  PROVE  CarryInv'
<1>1. Resumes' = Resumes
  BY DEF Resumes
<1>2. HumanKept'
  BY <1>1 DEF CarryInv, HumanKept
<1>3. CompletedCarried'
  BY <1>1 DEF CarryInv, CompletedCarried, Places
<1> QED BY <1>2, <1>3 DEF CarryInv

\* An entry is logged.
LEMMA CarryLogs ==
  ASSUME TypeInv, CarryInv, DoStep, todo[1].op = "log"
  PROVE  CarryInv'
<1>1. mem' = mem /\ disk' = disk /\ crashes' = crashes /\ throws' = throws
  BY DoStepKeeps
<1>2. Resumes' = Resumes
  BY <1>1 DEF Resumes
<1>3. /\ \A op : \A k \in Places(todo', op) :
            k \in Nat /\ k > 0 /\ k + 1 \in Places(todo, op) /\ todo'[k] = todo[k + 1]
      /\ \A op : \A k \in Places(todo, op) :
            k \in Nat /\ k > 0 /\ (k # 1 => k - 1 \in Places(todo', op) /\ todo'[k - 1] = todo[k])
  BY ShiftedPlaces
<1>4. \A k \in Places(todo, "enqueue") : k - 1 \in Places(todo', "enqueue") /\ todo'[k - 1] = todo[k]
  BY <1>3 DEF Places
<1>5. HumanKept'
  BY <1>1, <1>2, <1>3 DEF CarryInv, HumanKept
<1>6. CompletesCarrying'
  <2> SUFFICES ASSUME NEW k \in Places(todo', "settle"), todo'[k].status = "completed",
                      todo'[k].id \in Resumes
               PROVE  /\ todo'[k].id = Len(mem.subtasks)
                      /\ \E l \in Places(todo', "enqueue") : k < l /\ CarriesInput(todo'[l].sub)
    BY <1>1, <1>2 DEF CompletesCarrying
  <2>1. /\ k \in Nat /\ todo'[k].id = Len(mem.subtasks)
        /\ \E l \in Places(todo, "enqueue") : k + 1 < l /\ CarriesInput(todo[l].sub)
    BY <1>3 DEF CarryInv, CompletesCarrying
  <2>2. PICK l \in Places(todo, "enqueue") : k + 1 < l /\ CarriesInput(todo[l].sub)
    BY <2>1
  <2>3. l - 1 \in Places(todo', "enqueue") /\ todo'[l - 1] = todo[l] /\ k < l - 1
    BY <1>3, <1>4, <2>1, <2>2
  <2> QED BY <2>1, <2>2, <2>3
<1>7. CompletedCarried'
  <2>1. (\E k \in Places(todo, "enqueue") : CarriesInput(todo[k].sub)) =>
           \E k \in Places(todo', "enqueue") : CarriesInput(todo'[k].sub)
    <3> SUFFICES ASSUME NEW k \in Places(todo, "enqueue"), CarriesInput(todo[k].sub)
                 PROVE  \E l \in Places(todo', "enqueue") : CarriesInput(todo'[l].sub)
      OBVIOUS
    <3> QED BY <1>4
  <2> QED BY <1>1, <1>2, <2>1 DEF CarryInv, CompletedCarried
<1> QED BY <1>5, <1>6, <1>7 DEF CarryInv

\* A subtask is enqueued.
LEMMA CarryEnqueues ==
  ASSUME TypeInv, FlowInv, CarryInv, DoStep, todo[1].op = "enqueue"
  PROVE  CarryInv'
<1> DEFINE n == Len(mem.subtasks) + 1
           sub == todo[1].sub
<1>1. /\ crashes' = crashes /\ throws' = throws /\ disk' = mem' /\ mem'.human = mem.human
      /\ n \notin DOMAIN mem.subtasks
      /\ DOMAIN mem'.subtasks = DOMAIN mem.subtasks \cup {n} /\ n = Len(mem.subtasks) + 1
      /\ \A i \in DOMAIN mem.subtasks : mem'.subtasks[i] = mem.subtasks[i]
      /\ mem'.subtasks[n] = sub
  BY DoStepKeeps, DoStepEnqueues DEF Rest
<1>2. 1 \in Places(todo, "enqueue")
  BY Shifted DEF Places
<1>3. Places(todo, "enqueue") = {1} /\ sub.status = "pending"
  BY <1>2 DEF FlowInv, EnqueueOnce
<1> HIDE DEF n, sub
<1>4. \A op : \A k \in Places(todo', op) :
         k \in Nat /\ k > 0 /\ k + 1 \in Places(todo, op) /\ todo'[k] = todo[k + 1]
  BY ShiftedPlaces
<1>5. Places(todo', "enqueue") = {}
  BY <1>3, <1>4
<1>6. Resumes' = IF sub.kind = "resume_after_input" THEN Resumes \cup {n} ELSE Resumes
  BY <1>1 DEF Resumes
<1>7. HumanKept'
  <2>1. Resumes' # {} => mem.human = TRUE
    BY <1>2, <1>6 DEF CarryInv, HumanKept, sub
  <2> QED BY <1>1, <1>5, <2>1 DEF HumanKept
<1>8. CompletesCarrying'
  <2> SUFFICES ASSUME NEW k \in Places(todo', "settle"), todo'[k].status = "completed",
                      todo'[k].id \in Resumes'
               PROVE  FALSE
    BY DEF CompletesCarrying
  <2>1. k \in Nat /\ k > 0 /\ k + 1 \in Places(todo, "settle") /\ todo'[k] = todo[k + 1]
    BY <1>4
  <2>2. todo[k + 1].id \in DOMAIN mem.subtasks
    BY <2>1 DEF FlowInv, SettleActive, ActiveKnown
  <2>3. todo[k + 1].id \in Resumes
    BY <1>1, <1>6, <2>1, <2>2
  <2>4. PICK l \in Places(todo, "enqueue") : k + 1 < l
    BY <2>1, <2>3 DEF CarryInv, CompletesCarrying
  <2> QED BY <1>3, <2>1, <2>4
<1>9. CompletedCarried'
  <2> SUFFICES ASSUME crashes = 0, throws = 0, NEW i \in Resumes', mem'.subtasks[i].status = "completed"
               PROVE  i + 1 \in DOMAIN mem'.subtasks /\ CarriesInput(mem'.subtasks[i + 1])
    BY <1>1 DEF CompletedCarried
  <2>1. i \in Resumes /\ i \in DOMAIN mem.subtasks /\ mem.subtasks[i].status = "completed"
    BY <1>1, <1>3, <1>6 DEF Resumes
  <2>2. CASE i + 1 \in DOMAIN mem.subtasks /\ CarriesInput(mem.subtasks[i + 1])
    BY <1>1, <2>2
  <2>3. CASE i = Len(mem.subtasks) /\ \E k \in Places(todo, "enqueue") : CarriesInput(todo[k].sub)
    <3>1. CarriesInput(sub) /\ i + 1 = n
      BY <1>1, <1>3, <2>3 DEF sub
    <3> QED BY <1>1, <3>1
  <2> QED BY <2>1, <2>2, <2>3 DEF CarryInv, CompletedCarried
<1> QED BY <1>7, <1>8, <1>9 DEF CarryInv

\* The active subtask is settled, activeSubtaskId is cleared, or the record is saved.
LEMMA CarrySettles ==
  ASSUME TypeInv, FlowInv, CarryInv, DoStep, todo[1].op \in {"settle", "unset", "save"}
  PROVE  CarryInv'
<1>1. /\ crashes' = crashes /\ throws' = throws /\ disk' = mem' /\ mem'.human = mem.human
      /\ Len(mem'.subtasks) = Len(mem.subtasks)
      /\ DOMAIN mem'.subtasks = DOMAIN mem.subtasks
      /\ \A i \in DOMAIN mem.subtasks :
           /\ mem'.subtasks[i].kind = mem.subtasks[i].kind
           /\ mem'.subtasks[i].input = mem.subtasks[i].input
           /\ todo[1].op = "settle" /\ todo[1].id = i => mem'.subtasks[i].status = todo[1].status
           /\ todo[1].op # "settle" \/ todo[1].id # i =>
                mem'.subtasks[i].status = mem.subtasks[i].status
  BY DoStepKeeps, DoStepSettles DEF Rest
<1>2. Resumes' = Resumes
  BY <1>1 DEF Resumes
<1>3. /\ \A op : \A k \in Places(todo', op) :
            k \in Nat /\ k > 0 /\ k + 1 \in Places(todo, op) /\ todo'[k] = todo[k + 1]
      /\ \A op : \A k \in Places(todo, op) :
            k \in Nat /\ k > 0 /\ (k # 1 => k - 1 \in Places(todo', op) /\ todo'[k - 1] = todo[k])
  BY ShiftedPlaces
<1>4. \A k \in Places(todo, "enqueue") : k - 1 \in Places(todo', "enqueue") /\ todo'[k - 1] = todo[k]
  BY <1>3 DEF Places
<1>5. HumanKept'
  BY <1>1, <1>2, <1>3 DEF CarryInv, HumanKept
<1>6. CompletesCarrying'
  <2> SUFFICES ASSUME NEW k \in Places(todo', "settle"), todo'[k].status = "completed",
                      todo'[k].id \in Resumes
               PROVE  /\ todo'[k].id = Len(mem.subtasks)
                      /\ \E l \in Places(todo', "enqueue") : k < l /\ CarriesInput(todo'[l].sub)
    BY <1>1, <1>2 DEF CompletesCarrying
  <2>1. /\ k \in Nat /\ todo'[k].id = Len(mem.subtasks)
        /\ \E l \in Places(todo, "enqueue") : k + 1 < l /\ CarriesInput(todo[l].sub)
    BY <1>3 DEF CarryInv, CompletesCarrying
  <2>2. PICK l \in Places(todo, "enqueue") : k + 1 < l /\ CarriesInput(todo[l].sub)
    BY <2>1
  <2>3. l - 1 \in Places(todo', "enqueue") /\ todo'[l - 1] = todo[l] /\ k < l - 1
    BY <1>3, <1>4, <2>1, <2>2
  <2> QED BY <2>1, <2>2, <2>3
<1>7. CompletedCarried'
  <2>1. ASSUME NEW k \in Places(todo, "enqueue"), CarriesInput(todo[k].sub)
        PROVE  \E l \in Places(todo', "enqueue") : CarriesInput(todo'[l].sub)
    BY <1>4, <2>1
  <2> SUFFICES ASSUME crashes = 0, throws = 0, NEW i \in Resumes, mem'.subtasks[i].status = "completed"
               PROVE  \/ i + 1 \in DOMAIN mem'.subtasks /\ CarriesInput(mem'.subtasks[i + 1])
                      \/ /\ i = Len(mem'.subtasks)
                         /\ \E k \in Places(todo', "enqueue") : CarriesInput(todo'[k].sub)
    BY <1>1, <1>2 DEF CompletedCarried
  <2>2. i \in DOMAIN mem.subtasks
    BY DEF Resumes
  <2>3. CASE todo[1].op = "settle" /\ todo[1].id = i
    <3>1. todo[1].status = "completed" /\ 1 \in Places(todo, "settle")
      BY <1>1, <2>2, <2>3, Shifted DEF Places
    <3>2. /\ i = Len(mem.subtasks)
          /\ \E l \in Places(todo, "enqueue") : CarriesInput(todo[l].sub)
      BY <2>3, <3>1 DEF CarryInv, CompletesCarrying
    <3> QED BY <1>1, <2>1, <3>2
  <2>4. CASE todo[1].op # "settle" \/ todo[1].id # i
    <3>1. mem.subtasks[i].status = "completed"
      BY <1>1, <2>2, <2>4
    <3>2. CASE i + 1 \in DOMAIN mem.subtasks /\ CarriesInput(mem.subtasks[i + 1])
      BY <1>1, <3>2 DEF CarriesInput
    <3>3. CASE /\ i = Len(mem.subtasks)
               /\ \E k \in Places(todo, "enqueue") : CarriesInput(todo[k].sub)
      BY <1>1, <2>1, <3>3
    <3> QED BY <3>1, <3>2, <3>3 DEF CarryInv, CompletedCarried
  <2> QED BY <2>3, <2>4
<1> QED BY <1>5, <1>6, <1>7 DEF CarryInv

\* Every step keeps the invariant.
LEMMA CarryStep == TypeInv /\ StatusInv /\ FlowInv /\ CarryInv /\ [Next]_vars => CarryInv'
<1> SUFFICES ASSUME TypeInv, StatusInv, FlowInv, CarryInv, [Next]_vars PROVE CarryInv'
  OBVIOUS
<1>a. ASSUME Places(todo', "settle") = {} PROVE CompletesCarrying'
  BY <1>a DEF CompletesCarrying
<1>b. ASSUME Chooses PROVE /\ todo = <<>> /\ mem'.subtasks = mem.subtasks /\ disk'.human = disk.human
                           /\ crashes' = 0 /\ throws' = 0 => crashes = 0 /\ throws = 0
                           /\ Resumes' = Resumes
  BY <1>b DEF Chooses, Resumes
<1>13. CASE BeginRun
  <2>1. /\ DOMAIN mem'.subtasks = {1} /\ mem'.subtasks[1].kind = "orchestrator_eval"
        /\ DOMAIN todo' = {1} /\ todo'[1].op = "log"
    BY <1>13, BeginRunFacts
  <2>2. /\ Resumes' = {} /\ Places(todo', "enqueue") = {} /\ Places(todo', "settle") = {}
    BY <2>1 DEF Resumes, Places
  <2> QED BY <2>2 DEF CarryInv, HumanKept, CompletesCarrying, CompletedCarried
<1>1. CASE (Deliver \/ JobEnds \/ LeaveLoop) \/ LogStarted \/ UNCHANGED vars
  <2>1. UNCHANGED <<todo, mem, disk, crashes, throws>>
    BY <1>1, PlaceFacts, StartedFacts DEF vars, counters
  <2> QED BY <2>1 DEF CarryInv, HumanKept, CompletesCarrying, CompletedCarried, Resumes
<1>2. CASE EnterRunTask
  <2>1. Chooses /\ mem'.human = mem.human
    BY <1>2, EnterFacts
  <2>2. CASE todo' = <<>>
    <3>1. Places(todo', "enqueue") = {} /\ Places(todo', "settle") = {}
      BY <2>2 DEF Places
    <3> QED BY <1>a, <1>b, <2>1, <3>1, CarryChooses
  <2>3. CASE \E q \in Nat :
                 todo' = <<Enqueue(NewSubtask("orchestrator_eval", EffectiveStage(mem), None, FALSE)),
                           Log("subtask_queued", q)>>
    <3> DEFINE sub == NewSubtask("orchestrator_eval", EffectiveStage(mem), None, FALSE)
    <3>1. PICK q \in Nat : todo' = <<Enqueue(sub), Log("subtask_queued", q)>>
      BY <2>3
    <3>2. sub.kind = "orchestrator_eval"
      BY DEF NewSubtask
    <3> HIDE DEF sub
    <3>3. /\ Places(todo', "enqueue") = {1} /\ todo'[1].sub = sub /\ Places(todo', "settle") = {}
      BY <3>1, EvalPlaces
    <3> QED BY <1>a, <1>b, <2>1, <3>2, <3>3, CarryChooses
  <2> QED BY <1>2, <2>2, <2>3, EnterFacts
<1>3. CASE Dequeue \/ Activate
  <2>1. /\ todo = <<>> /\ todo' = <<>> /\ UNCHANGED <<crashes, throws>> /\ disk' = mem'
        /\ mem'.human = mem.human /\ Len(mem'.subtasks) = Len(mem.subtasks)
        /\ DOMAIN mem'.subtasks = DOMAIN mem.subtasks
        /\ \A i \in DOMAIN mem.subtasks :
             /\ mem'.subtasks[i].kind = mem.subtasks[i].kind
             /\ mem'.subtasks[i].input = mem.subtasks[i].input
             /\ mem'.subtasks[i].status = "completed" => mem.subtasks[i].status = "completed"
    <3>1. CASE Dequeue
      BY <3>1, DequeueFacts DEF Rest
    <3>2. CASE Activate
      BY <3>2, ActivateFacts DEF Rest
    <3> QED BY <1>3, <3>1, <3>2
  <2>2. Resumes' = Resumes /\ \A op : Places(todo, op) = {} /\ Places(todo', op) = {}
    BY <2>1 DEF Resumes, Places
  <2>3. HumanKept' /\ CompletesCarrying'
    BY <2>1, <2>2 DEF CarryInv, HumanKept, CompletesCarrying
  <2>4. CompletedCarried'
    <3> SUFFICES ASSUME crashes = 0, throws = 0, NEW i \in Resumes, mem'.subtasks[i].status = "completed"
                 PROVE  i + 1 \in DOMAIN mem'.subtasks /\ CarriesInput(mem'.subtasks[i + 1])
      BY <2>1, <2>2 DEF CompletedCarried
    <3>1. mem.subtasks[i].status = "completed"
      BY <2>1 DEF Resumes
    <3>2. i + 1 \in DOMAIN mem.subtasks /\ CarriesInput(mem.subtasks[i + 1])
      BY <2>2, <3>1 DEF CarryInv, CompletedCarried
    <3> QED BY <2>1, <3>2 DEF CarriesInput
  <2> QED BY <2>3, <2>4 DEF CarryInv
<1>4. CASE DoStep
  BY <1>4, CarryLogs, CarryEnqueues, CarrySettles, DoStepKeeps
<1>5. CASE EvalUnparsable \/ \E d \in Replies : EvalRejected(d)
  <2>1. Chooses /\ mem' = mem /\ Places(todo', "enqueue") = {} /\ Places(todo', "settle") = {}
    BY <1>5, RejectFacts, RejectPlaces DEF NoSubtaskWrites
  <2> QED BY <1>a, <1>b, <2>1, CarryChooses
<1>6. ASSUME NEW d \in Replies, EvalApplied(d) PROVE CarryInv'
  <2>1. Chooses /\ mem'.human = mem.human /\ mem.subtasks[cur].kind = "orchestrator_eval"
    BY <1>6, AppliedFacts
  <2>2. cur \notin Resumes'
    BY <1>b, <2>1 DEF Resumes
  <2>3. ASSUME NEW sub, sub.kind \in Counted, RunWrites(todo', cur, sub) PROVE CarryInv'
    <3>1. /\ Places(todo', "enqueue") = {2} /\ todo'[2].sub = sub
          /\ Places(todo', "settle") = {4} /\ todo'[4].id = cur
      BY <2>3, RunPlaces
    <3>2. CompletesCarrying' /\ sub.kind # "resume_after_input"
      BY <2>2, <2>3, <3>1 DEF CompletesCarrying, Counted
    <3> QED BY <1>b, <2>1, <3>1, <3>2, CarryChooses
  <2>4. ASSUME NEW type, EndWrites(todo', cur, type) PROVE CarryInv'
    <3>1. /\ Places(todo', "enqueue") = {} /\ Places(todo', "settle") = {3} /\ todo'[3].id = cur
      BY <2>4, EndPlaces
    <3>2. CompletesCarrying'
      BY <2>2, <3>1 DEF CompletesCarrying
    <3> QED BY <1>b, <2>1, <3>1, <3>2, CarryChooses
  <2>5. ASSUME UnknownWrites(todo', cur) PROVE CarryInv'
    <3>1. /\ Places(todo', "enqueue") = {} /\ Places(todo', "settle") = {2} /\ todo'[2].id = cur
      BY <2>5, UnknownPlaces
    <3>2. CompletesCarrying'
      BY <2>2, <3>1 DEF CompletesCarrying
    <3> QED BY <1>b, <2>1, <3>1, <3>2, CarryChooses
  <2> QED BY <1>6, <2>3, <2>4, <2>5, AppliedFacts
<1>7. CASE EvalExhausted
  <2>1. /\ Chooses /\ mem'.human = mem.human /\ Places(todo', "enqueue") = {}
        /\ Places(todo', "settle") = {1} /\ todo'[1].status = "failed"
    BY <1>7, ExhaustedFacts, ExhaustedPlaces
  <2>2. CompletesCarrying'
    BY <2>1 DEF CompletesCarrying
  <2> QED BY <1>b, <2>1, <2>2, CarryChooses
<1>8. CASE Stage \/ RunScript \/ HandleResume
  <2>1. Chooses /\ pc = "handle" /\ mem' \in {mem, [mem EXCEPT !.status = "active"]}
    BY <1>8, HandledFacts
  <2>2. mem'.human = mem.human
    BY <2>1 DEF TypeInv, RecordInv, TypeOK, Tasks
  <2>3. PICK n \in Nat, status \in {"completed", "failed"}, input \in BOOLEAN :
               /\ Recorded(todo', n, cur, status, NextEval(input))
               /\ mem.subtasks[cur].kind = "resume_after_input" => input = mem.human
    BY <1>8, HandledFacts
  <2>4. /\ Places(todo', "settle") = {n + 1} /\ todo'[n + 1].id = cur
        /\ Places(todo', "enqueue") = {n + 3} /\ todo'[n + 3].sub = NextEval(input)
    BY <2>3, RecordedPlaces
  <2>5. NextEval(input).kind = "orchestrator_eval" /\ NextEval(input).input = input
    BY DEF NextEval, NewSubtask
  <2>6. CompletesCarrying'
    <3>1. cur = Len(mem'.subtasks)
      BY <1>b, <2>1 DEF FlowInv, CurNewest
    <3>2. ASSUME cur \in Resumes PROVE CarriesInput(todo'[n + 3].sub)
      <4>1. mem.human = TRUE /\ mem.subtasks[cur].kind = "resume_after_input"
        BY <3>2 DEF CarryInv, HumanKept, Resumes
      <4> QED BY <2>3, <2>4, <2>5, <4>1 DEF CarriesInput
    <3>3. n + 1 < n + 3
      OBVIOUS
    <3> QED BY <1>b, <2>1, <2>4, <3>1, <3>2, <3>3 DEF CompletesCarrying
  <2>7. \A k \in Places(todo', "enqueue") : todo'[k].sub.kind # "resume_after_input"
    BY <2>4, <2>5
  <2> QED BY <1>b, <2>1, <2>2, <2>6, <2>7, CarryChooses
<1>9. CASE Resume
  <2>1. Chooses /\ mem'.human = TRUE
    BY <1>9, ResumeFacts
  <2> DEFINE sub == NewSubtask("resume_after_input", EffectiveStage(mem), None, FALSE)
  <2>2. todo' = <<Enqueue(sub), Log("task_resumed", 0), Save>>
    BY <1>9, ResumeFacts
  <2> HIDE DEF sub
  <2>3. Places(todo', "settle") = {}
    BY <2>2, ResumePlaces
  <2> QED BY <1>a, <1>b, <2>1, <2>3, CarryChooses
<1>10. CASE CheckTimeouts
  <2>1. /\ Chooses /\ mem'.human = mem.human /\ Places(todo', "enqueue") = {}
        /\ Places(todo', "settle") = {}
    BY <1>10, ExpireFacts, ExpirePlaces DEF NoSubtaskWrites
  <2> QED BY <1>a, <1>b, <2>1, CarryChooses
<1>11. CASE RunTaskThrows \/ Crash
  <2>1. todo' = <<>> /\ mem' = disk /\ disk' = disk /\ ~(crashes' = 0 /\ throws' = 0)
    BY <1>11, DropFacts
  <2>2. mem'.subtasks = mem.subtasks /\ \A op : Places(todo', op) = {}
    BY <2>1 DEF TypeInv, RecordInv, Synced, Places
  <2>3. Resumes' = Resumes
    BY <2>2 DEF Resumes
  <2>4. HumanKept' /\ CompletesCarrying' /\ CompletedCarried'
    BY <2>1, <2>2, <2>3 DEF CarryInv, HumanKept, CompletesCarrying, CompletedCarried
  <2> QED BY <2>4 DEF CarryInv
<1>12. CASE Restart
  <2>1. /\ todo = <<>> /\ UNCHANGED <<mem, disk, crashes, throws>> /\ mem \in Tasks
    BY <1>12, RestartFacts DEF StatusInv, RunningPlaces, TypeInv, RecordInv, TypeOK
  <2>2. CASE todo' = RebuildQueue(mem)
    <3>1. CompletesCarrying'
      <4>1. \A k \in Places(todo', "settle") : todo'[k].status = "failed"
        BY <2>1, <2>2, RebuildPlaces
      <4> QED BY <4>1 DEF CompletesCarrying
    <3>2. \A k \in Places(todo', "enqueue") : todo'[k].sub.kind = "orchestrator_eval"
      <4> DEFINE sub == NewSubtask("orchestrator_eval", EffectiveStage(mem), None, FALSE)
      <4>1. sub.kind = "orchestrator_eval"
        BY DEF NewSubtask
      <4> HIDE DEF sub
      <4>2. \A k \in Places(todo', "enqueue") : todo'[k].sub = sub
        BY <2>1, <2>2, RebuildPlaces DEF sub
      <4> QED BY <4>1, <4>2
    <3> QED BY <2>1, <3>1, <3>2, CarryChooses
  <2>3. CASE todo' = todo
    BY <2>1, <2>3 DEF CarryInv, HumanKept, CompletesCarrying, CompletedCarried, Resumes
  <2> QED BY <1>12, <2>2, <2>3, RestartFacts
<1> QED BY <1>1, <1>2, <1>3, <1>4, <1>5, <1>6, <1>7, <1>8, <1>9, <1>10, <1>11, <1>12,
           <1>13, StepCases

\* For every recipe, and whatever crashes, exceptions, replies and expiries come, at
\* most one subtask is queued; a paused or expired task has nothing queued or active; a
\* stage, script or resume subtask left active is the one activeSubtaskId names; and
\* unless something failed, a completed resume is followed by an evaluation that is
\* told what the human said.
THEOREM RunHasOneContinuation == Spec => []OneContinuation
<1>1. TypeInv /\ FlowInv /\ CarryInv => OneContinuation
  <2> SUFFICES ASSUME TypeInv, FlowInv, CarryInv PROVE OneContinuation
    OBVIOUS
  <2>1. mem.subtasks = disk.subtasks /\ mem.queue = disk.queue /\ mem.active = disk.active
    BY DEF TypeInv, RecordInv, Synced, FlowInv, ActiveKnown
  <2>2. SingleContinuation
    <3>1. disk.queue \in {<<>>, <<Len(mem.subtasks)>>}
      BY <2>1 DEF FlowInv, QueueShort
    <3>2. Len(<<>>) = 0 /\ \A x : Len(<<x>>) = 1
      OBVIOUS
    <3>3. CASE disk.queue = <<>>
      BY <3>2, <3>3 DEF SingleContinuation
    <3>4. CASE disk.queue = <<Len(mem.subtasks)>>
      <4>1. Len(disk.queue) = 1
        BY <3>2, <3>4, Zenon
      <4> QED BY <4>1 DEF SingleContinuation
    <3> QED BY <3>1, <3>3, <3>4
  <2>3. PausedIsQuiet
    BY DEF FlowInv, RestQuiet, PausedIsQuiet
  <2>4. NoOrphanedWork
    BY <2>1 DEF FlowInv, OrphanIsActive, Orphans, NoOrphanedWork
  <2>5. InputCarried
    <3> SUFFICES ASSUME crashes = 0, throws = 0, todo = <<>>, NEW i \in DOMAIN disk.subtasks,
                        disk.subtasks[i].kind = "resume_after_input",
                        disk.subtasks[i].status = "completed"
                 PROVE  /\ i + 1 \in DOMAIN disk.subtasks
                        /\ disk.subtasks[i + 1].kind = "orchestrator_eval"
                        /\ disk.subtasks[i + 1].input
      BY DEF InputCarried
    <3>1. i \in Resumes /\ Places(todo, "enqueue") = {}
      BY <2>1 DEF Resumes, Places
    <3>2. i + 1 \in DOMAIN mem.subtasks /\ CarriesInput(mem.subtasks[i + 1])
      BY <2>1, <3>1 DEF CarryInv, CompletedCarried
    <3> QED BY <2>1, <3>2 DEF CarriesInput
  <2> QED BY <2>2, <2>3, <2>4, <2>5 DEF OneContinuation
<1> QED BY <1>1, TypeInit, TypeStep, StatusInit, StatusStep, FlowInit, FlowStep, CarryInit, CarryStep,
           PTL DEF Spec

(***************************************************************************)
(* Outcomes                                                                *)
(***************************************************************************)
\* The entries that report how a subtask ended, and the status each stands for.
OutcomeTypes == {"subtask_completed", "subtask_failed"}
Outcome(type) == IF type = "subtask_completed" THEN "completed" ELSE "failed"

HasStatus(t, id, status) == id \in DOMAIN t.subtasks /\ t.subtasks[id].status = status

\* The subtasks have the outcomes the journal reports, ...
OutcomesKept ==
    \A type \in OutcomeTypes :
        \A i \in Logged(type) : HasStatus(mem, journal[i].id, Outcome(type))

\* ... and those still to be reported have them or are settled before.
OutcomesComing ==
    \A type \in OutcomeTypes :
        \A k \in LogPlaces(todo, type) :
            \/ HasStatus(mem, todo[k].entry.id, Outcome(type))
            \/ \E j \in Places(todo, "settle") :
                 j < k /\ todo[j].id = todo[k].entry.id /\ todo[j].status = Outcome(type)

\* The inductive invariant of SettledAsLogged.
OutcomeInv == OutcomesKept /\ OutcomesComing

\* The initial states satisfy the invariant.
LEMMA OutcomeInit == Init => OutcomeInv
<1> SUFFICES ASSUME Init PROVE OutcomeInv
  OBVIOUS
<1>1. journal = <<>> /\ todo = <<>>
  BY DEF Init
<1> QED BY <1>1 DEF OutcomeInv, OutcomesKept, OutcomesComing, Logged, EverLogged, LogPlaces, Places

\* No write changes an outcome: the subtask that is settled is active.
LEMMA OutcomesLast ==
  ASSUME TypeInv, FlowInv, DoStep, NEW id, NEW status \in {"completed", "failed"},
         HasStatus(mem, id, status)
  PROVE  HasStatus(mem', id, status)
<1>1. CASE todo[1].op = "log"
  <2>1. mem' = mem
    BY <1>1, DoStepKeeps
  <2> QED BY <2>1 DEF HasStatus
<1>2. CASE todo[1].op = "enqueue"
  BY <1>2, DoStepEnqueues DEF HasStatus
<1>3. CASE todo[1].op \in {"settle", "unset", "save"}
  <2>1. todo[1].op = "settle" => todo[1].id # id
    <3>1. todo[1].op = "settle" => 1 \in Places(todo, "settle")
      BY Shifted DEF Places
    <3>2. 1 \in Places(todo, "settle") =>
            todo[1].id = mem.active /\ mem.subtasks[mem.active].status = "active"
      BY DEF FlowInv, SettleActive
    <3> QED BY <3>1, <3>2 DEF HasStatus
  <2> QED BY <1>3, <2>1, DoStepSettles DEF HasStatus
<1> QED BY <1>1, <1>2, <1>3, DoStepKeeps

\* A write of the current handler.
LEMMA OutcomeDoStep == TypeInv /\ FlowInv /\ OutcomeInv /\ DoStep => OutcomeInv'
<1> SUFFICES ASSUME TypeInv, FlowInv, OutcomeInv, DoStep PROVE OutcomeInv'
  OBVIOUS
<1>1. /\ \A op : \A k \in Places(todo', op) :
            k \in Nat /\ k > 0 /\ k + 1 \in Places(todo, op) /\ todo'[k] = todo[k + 1]
      /\ \A op : \A k \in Places(todo, op) :
            k \in Nat /\ k > 0 /\ (k # 1 => k - 1 \in Places(todo', op) /\ todo'[k - 1] = todo[k])
  BY ShiftedPlaces
<1>2. ASSUME NEW type \in OutcomeTypes PROVE Outcome(type) \in {"completed", "failed"}
  BY DEF Outcome
<1>3. OutcomesKept'
  <2> SUFFICES ASSUME NEW type \in OutcomeTypes, NEW i \in Logged(type)'
               PROVE  HasStatus(mem', journal'[i].id, Outcome(type))
    BY DEF OutcomesKept
  <2> DEFINE id == journal'[i].id
             status == Outcome(type)
  <2>1. HasStatus(mem, id, status)
    <3>1. CASE i \in Logged(type) /\ journal'[i] = journal[i]
      BY <3>1 DEF OutcomeInv, OutcomesKept
    <3>2. CASE 1 \in LogPlaces(todo, type) /\ journal'[i] = todo[1].entry
      <4>1. ~ \E j \in Places(todo, "settle") : j < 1
        BY <1>1
      <4> QED BY <3>2, <4>1 DEF OutcomeInv, OutcomesComing
    <3>3. CASE todo[1].op = "log"
      BY <3>1, <3>2, <3>3, DoStepLogs, DoStepKeeps, Shifted DEF Logged, EverLogged, LogPlaces, Places
    <3>4. CASE todo[1].op # "log"
      <4>1. journal' = journal /\ since' = since
        BY <3>4, DoStepKeeps
      <4> QED BY <3>1, <4>1 DEF Logged, EverLogged
    <3> QED BY <3>3, <3>4
  <2> HIDE DEF id, status
  <2>2. status \in {"completed", "failed"}
    BY <1>2 DEF status
  <2>3. HasStatus(mem', id, status)
    BY <2>1, <2>2, OutcomesLast
  <2> QED BY <2>3 DEF id, status
<1>4. OutcomesComing'
  <2> SUFFICES ASSUME NEW type \in OutcomeTypes, NEW k \in LogPlaces(todo', type)
               PROVE  \/ HasStatus(mem', todo'[k].entry.id, Outcome(type))
                      \/ \E j \in Places(todo', "settle") :
                           j < k /\ todo'[j].id = todo'[k].entry.id /\ todo'[j].status = Outcome(type)
    BY DEF OutcomesComing
  <2>1. k \in Nat /\ k > 0 /\ k + 1 \in LogPlaces(todo, type) /\ todo'[k] = todo[k + 1]
    BY <1>1 DEF LogPlaces
  <2> DEFINE id == todo'[k].entry.id
             status == Outcome(type)
  <2>2. status \in {"completed", "failed"}
    BY <1>2
  <2>3. CASE HasStatus(mem, id, status)
    <3> HIDE DEF id, status
    <3>1. HasStatus(mem', id, status)
      BY <2>2, <2>3, OutcomesLast
    <3> QED BY <3>1 DEF id, status
  <2>4. CASE \E j \in Places(todo, "settle") : j < k + 1 /\ todo[j].id = id /\ todo[j].status = status
    <3>1. PICK j \in Places(todo, "settle") : j < k + 1 /\ todo[j].id = id /\ todo[j].status = status
      BY <2>4
    <3>2. CASE j # 1
      <4>1. j - 1 \in Places(todo', "settle") /\ todo'[j - 1] = todo[j] /\ j - 1 < k
        BY <1>1, <2>1, <3>1, <3>2
      <4> QED BY <3>1, <4>1
    <3>3. CASE j = 1
      <4>1. todo[1].op = "settle" /\ todo[1].id = id /\ todo[1].status = status
        BY <3>1, <3>3 DEF Places
      <4>2. mem.active = id /\ mem.active # 0
        BY <3>1 DEF FlowInv, SettleActive
      <4>3. id \in DOMAIN mem.subtasks
        BY <4>2 DEF FlowInv, ActiveKnown
      <4>4. id \in DOMAIN mem'.subtasks /\ mem'.subtasks[id].status = status
        BY <4>1, <4>3, DoStepSettles
      <4> QED BY <4>4 DEF HasStatus
    <3> QED BY <3>2, <3>3
  <2> QED BY <2>1, <2>3, <2>4 DEF OutcomeInv, OutcomesComing
<1> QED BY <1>3, <1>4 DEF OutcomeInv

\* A step that keeps the journal and the outcomes keeps the invariant if what it
\* chooses to write does.
LEMMA OutcomeChooses ==
  ASSUME OutcomeInv, journal' = journal, since' = since, mem'.subtasks = mem.subtasks,
         \A k \in Places(todo', "log") :
           todo'[k].entry.type \in OutcomeTypes =>
             \E j \in Places(todo', "settle") :
               /\ j < k /\ todo'[j].id = todo'[k].entry.id
               /\ todo'[j].status = Outcome(todo'[k].entry.type)
  PROVE  OutcomeInv'
<1>1. OutcomesKept'
  BY DEF OutcomeInv, OutcomesKept, Logged, EverLogged, HasStatus
<1>2. OutcomesComing'
  BY DEF OutcomesComing, LogPlaces
<1> QED BY <1>1, <1>2 DEF OutcomeInv

\* Of a record that has just begun the journal says nothing.
LEMMA NothingLogged ==
  ASSUME TypeInv, BeginRun
  PROVE  \A type : Logged(type)' = {}
<1>1. journal' = journal /\ since' = Len(journal)
  BY BeginRunFacts
<1>2. journal \in Seq(Entries)
  BY DEF TypeInv, RecordInv, TypeOK
<1>3. DOMAIN journal = 1 .. Len(journal)
  BY <1>2
<1> QED BY <1>1, <1>3 DEF Logged, EverLogged

\* Every step keeps the invariant.
LEMMA OutcomeStep == TypeInv /\ StatusInv /\ FlowInv /\ OutcomeInv /\ [Next]_vars => OutcomeInv'
<1> SUFFICES ASSUME TypeInv, StatusInv, FlowInv, OutcomeInv, [Next]_vars PROVE OutcomeInv'
  OBVIOUS
<1>a. OutcomeTypes = {"subtask_completed", "subtask_failed"} /\ OutcomeTypes \cap PlainTypes = {}
  BY DEF OutcomeTypes, PlainTypes
<1>b. Outcome("subtask_completed") = "completed" /\ Outcome("subtask_failed") = "failed"
  BY DEF Outcome
<1>c. ASSUME Chooses PROVE journal' = journal /\ since' = since /\ mem'.subtasks = mem.subtasks
  BY <1>c DEF Chooses
<1>d. ASSUME journal' = journal, since' = since, mem'.subtasks = mem.subtasks,
             \A k \in Places(todo', "log") : todo'[k].entry.type \notin OutcomeTypes
      PROVE  OutcomeInv'
  BY <1>d, OutcomeChooses
<1>e. ASSUME Chooses, NEW j \in Nat, NEW id, NEW status,
             j \in Places(todo', "settle"), todo'[j].id = id, todo'[j].status = status,
             \A k \in Places(todo', "log") :
               \/ todo'[k].entry.type \notin OutcomeTypes
               \/ /\ j < k /\ todo'[k].entry.id = id /\ status = Outcome(todo'[k].entry.type)
      PROVE  OutcomeInv'
  <2>1. journal' = journal /\ since' = since /\ mem'.subtasks = mem.subtasks
    BY <1>c, <1>e
  <2>2. \A k \in Places(todo', "log") :
           todo'[k].entry.type \in OutcomeTypes =>
             \E l \in Places(todo', "settle") :
               /\ l < k /\ todo'[l].id = todo'[k].entry.id
               /\ todo'[l].status = Outcome(todo'[k].entry.type)
    BY <1>e
  <2> QED BY <2>1, <2>2, OutcomeChooses
<1>f. Places(<<>>, "log") = {}
  BY DEF Places
<1>1. CASE Deliver \/ JobEnds \/ LeaveLoop \/ UNCHANGED vars
  <2>1. UNCHANGED <<todo, mem, journal, since>>
    BY <1>1, PlaceFacts DEF vars, delivery
  <2> QED BY <2>1 DEF OutcomeInv, OutcomesKept, OutcomesComing, Logged, EverLogged
<1>15. CASE BeginRun
  <2>1. DOMAIN todo' = {1} /\ todo'[1].entry.type = "subtask_queued"
    BY <1>15, BeginRunFacts
  <2>2. \A type : Logged(type)' = {}
    BY <1>15, NothingLogged
  <2>3. "subtask_queued" \notin OutcomeTypes
    BY <1>a
  <2> QED BY <2>1, <2>2, <2>3 DEF OutcomeInv, OutcomesKept, OutcomesComing, LogPlaces, Places
<1>2. CASE EnterRunTask
  <2>1. Chooses
    BY <1>2, EnterFacts
  <2>2. CASE todo' = <<>>
    BY <1>c, <1>d, <1>f, <2>1, <2>2
  <2>3. CASE \E q \in Nat :
                 todo' = <<Enqueue(NewSubtask("orchestrator_eval", EffectiveStage(mem), None, FALSE)),
                           Log("subtask_queued", q)>>
    <3> DEFINE sub == NewSubtask("orchestrator_eval", EffectiveStage(mem), None, FALSE)
    <3>1. PICK q \in Nat : todo' = <<Enqueue(sub), Log("subtask_queued", q)>>
      BY <2>3
    <3> HIDE DEF sub
    <3>2. \A k \in Places(todo', "log") : todo'[k].entry.type \in PlainTypes
      BY <3>1, EvalPlaces
    <3> QED BY <1>a, <1>c, <1>d, <2>1, <3>2
  <2> QED BY <1>2, <2>2, <2>3, EnterFacts
<1>3. CASE Dequeue
  <2>1. journal' = journal /\ since' = since /\ mem'.subtasks = mem.subtasks /\ todo' = <<>>
    BY <1>3, DequeueFacts
  <2> QED BY <1>d, <1>f, <2>1
<1>4. CASE Activate
  <2>1. /\ journal' = journal /\ since' = since /\ todo' = <<>> /\ pc = "dequeued"
        /\ DOMAIN mem'.subtasks = DOMAIN mem.subtasks
        /\ \A i \in DOMAIN mem.subtasks :
             i # cur => mem'.subtasks[i].status = mem.subtasks[i].status
    BY <1>4, ActivateFacts
  <2>2. mem.subtasks[cur].status = "pending"
    BY <2>1 DEF FlowInv, CurNewest
  <2>3. ASSUME NEW id, NEW status \in {"completed", "failed"}, HasStatus(mem, id, status)
        PROVE  HasStatus(mem', id, status)
    BY <2>1, <2>2, <2>3 DEF HasStatus
  <2>4. \A type \in OutcomeTypes : Outcome(type) \in {"completed", "failed"}
    BY <1>a, <1>b
  <2>5. OutcomesKept'
    BY <2>1, <2>3, <2>4 DEF OutcomeInv, OutcomesKept, Logged, EverLogged
  <2>6. OutcomesComing'
    BY <1>f, <2>1 DEF OutcomesComing, LogPlaces
  <2> QED BY <2>5, <2>6 DEF OutcomeInv
<1>5. CASE LogStarted
  <2>1. mem' = mem /\ todo' = <<>>
    BY <1>5, StartedFacts
  <2>2. \A type \in OutcomeTypes : Logged(type)' = Logged(type)
    BY <1>5, <1>a, StartedFacts DEF Logged, EverLogged
  <2>3. OutcomesKept'
    BY <1>5, <2>1, <2>2, StartedFacts DEF OutcomeInv, OutcomesKept, Logged, EverLogged
  <2>4. OutcomesComing'
    BY <1>f, <2>1 DEF OutcomesComing, LogPlaces
  <2> QED BY <2>3, <2>4 DEF OutcomeInv
<1>6. CASE DoStep
  BY <1>6, OutcomeDoStep
<1>7. CASE EvalUnparsable \/ \E d \in Replies : EvalRejected(d)
  <2>1. Chooses /\ \A k \in Places(todo', "log") : todo'[k].entry.type \in PlainTypes
    BY <1>7, RejectFacts, RejectPlaces
  <2> QED BY <1>a, <1>c, <1>d, <2>1
<1>8. ASSUME NEW d \in Replies, EvalApplied(d) PROVE OutcomeInv'
  <2>1. Chooses
    BY <1>8, AppliedFacts
  <2>2. ASSUME NEW sub, RunWrites(todo', cur, sub) PROVE OutcomeInv'
    <3>1. /\ 4 \in Places(todo', "settle") /\ todo'[4].id = cur /\ todo'[4].status = "completed"
          /\ \A k \in Places(todo', "log") :
               \/ todo'[k].entry.type \in PlainTypes
               \/ k = 5 /\ todo'[k].entry.id = cur /\ todo'[k].entry.type = "subtask_completed"
      BY <2>2, RunPlaces
    <3> QED BY <1>a, <1>b, <1>e, <2>1, <3>1
  <2>3. ASSUME NEW a \in DOMAIN EndStatus, EndWrites(todo', cur, EndEntry[a]) PROVE OutcomeInv'
    <3>1. EndEntry[a] \notin OutcomeTypes
      BY <1>a DEF EndStatus, EndEntry
    <3>2. /\ 3 \in Places(todo', "settle") /\ todo'[3].id = cur /\ todo'[3].status = "completed"
          /\ \A k \in Places(todo', "log") :
               \/ todo'[k].entry.type \in PlainTypes \cup {EndEntry[a]}
               \/ k = 4 /\ todo'[k].entry.id = cur /\ todo'[k].entry.type = "subtask_completed"
      BY <2>3, EndPlaces
    <3> QED BY <1>a, <1>b, <1>e, <2>1, <3>1, <3>2
  <2>4. ASSUME UnknownWrites(todo', cur) PROVE OutcomeInv'
    <3>1. /\ 2 \in Places(todo', "settle") /\ todo'[2].id = cur /\ todo'[2].status = "completed"
          /\ \A k \in Places(todo', "log") :
               \/ todo'[k].entry.type \in PlainTypes
               \/ k = 3 /\ todo'[k].entry.id = cur /\ todo'[k].entry.type = "subtask_completed"
      BY <2>4, UnknownPlaces
    <3> QED BY <1>a, <1>b, <1>e, <2>1, <3>1
  <2> QED BY <1>8, <2>2, <2>3, <2>4, AppliedFacts
<1>9. CASE EvalExhausted
  <2>1. /\ Chooses
        /\ 1 \in Places(todo', "settle") /\ todo'[1].id = cur /\ todo'[1].status = "failed"
        /\ \A k \in Places(todo', "log") :
             \/ todo'[k].entry.type \in PlainTypes
             \/ k = 2 /\ todo'[k].entry.id = cur /\ todo'[k].entry.type = "subtask_failed"
    BY <1>9, ExhaustedFacts, ExhaustedPlaces
  <2> QED BY <1>a, <1>b, <1>e, <2>1
<1>10. CASE Stage \/ RunScript \/ HandleResume
  <2>1. Chooses
    BY <1>10, HandledFacts
  <2>2. PICK n \in Nat, status \in {"completed", "failed"}, input \in BOOLEAN :
               Recorded(todo', n, cur, status, NextEval(input))
    BY <1>10, HandledFacts
  <2>3. /\ n + 1 \in Places(todo', "settle") /\ todo'[n + 1].id = cur /\ todo'[n + 1].status = status
        /\ \A k \in Places(todo', "log") :
             \/ todo'[k].entry.type \in PlainTypes \cup {"script_completed"}
             \/ /\ k = n + 2 /\ todo'[k].entry.id = cur
                /\ todo'[k].entry.type = IF status = "completed" THEN "subtask_completed"
                                         ELSE "subtask_failed"
    BY <2>2, RecordedPlaces
  <2>4. /\ n + 1 \in Nat /\ n + 1 < n + 2 /\ "script_completed" \notin OutcomeTypes
        /\ status = Outcome(IF status = "completed" THEN "subtask_completed" ELSE "subtask_failed")
    BY <1>a, <1>b
  <2>5. \A k \in Places(todo', "log") :
           \/ todo'[k].entry.type \notin OutcomeTypes
           \/ n + 1 < k /\ todo'[k].entry.id = cur /\ status = Outcome(todo'[k].entry.type)
    BY <1>a, <2>3, <2>4
  <2> QED BY <1>e, <2>1, <2>3, <2>4, <2>5
<1>11. CASE Resume
  <2>1. Chooses
    BY <1>11, ResumeFacts
  <2> DEFINE sub == NewSubtask("resume_after_input", EffectiveStage(mem), None, FALSE)
  <2>2. todo' = <<Enqueue(sub), Log("task_resumed", 0), Save>>
    BY <1>11, ResumeFacts
  <2> HIDE DEF sub
  <2>3. \A k \in Places(todo', "log") : todo'[k].entry.type = "task_resumed"
    BY <2>2, ResumePlaces
  <2> QED BY <1>a, <1>c, <1>d, <2>1, <2>3
<1>12. CASE CheckTimeouts
  <2>1. Chooses /\ \A k \in Places(todo', "log") : todo'[k].entry.type \in PlainTypes
    BY <1>12, ExpireFacts, ExpirePlaces
  <2> QED BY <1>a, <1>c, <1>d, <2>1
<1>13. CASE RunTaskThrows \/ Crash
  <2>1. journal' = journal /\ since' = since /\ mem' = disk /\ todo' = <<>>
    BY <1>13, DropFacts
  <2>2. mem'.subtasks = mem.subtasks
    BY <2>1 DEF TypeInv, RecordInv, Synced
  <2> QED BY <1>d, <1>f, <2>1, <2>2
<1>14. CASE Restart
  <2>1. todo = <<>> /\ journal' = journal /\ since' = since /\ mem' = mem /\ mem \in Tasks
    BY <1>14, RestartFacts DEF StatusInv, RunningPlaces, TypeInv, RecordInv, TypeOK
  <2>2. CASE todo' = RebuildQueue(mem)
    <3>1. \A k \in Places(todo', "settle") : todo'[k].id = mem.active /\ todo'[k].status = "failed"
      BY <2>1, <2>2, RebuildPlaces
    <3>2. \A k \in Places(todo', "log") :
             \/ todo'[k].entry.type \in PlainTypes
             \/ /\ 1 \in Places(todo', "settle") /\ k = 2
                /\ todo'[k].entry.id = mem.active /\ todo'[k].entry.type = "subtask_failed"
      BY <2>1, <2>2, RebuildPlaces
    <3>3. \A k \in Places(todo', "log") :
             todo'[k].entry.type \in OutcomeTypes =>
               \E j \in Places(todo', "settle") :
                 /\ j < k /\ todo'[j].id = todo'[k].entry.id
                 /\ todo'[j].status = Outcome(todo'[k].entry.type)
      BY <1>a, <1>b, <3>1, <3>2
    <3> QED BY <2>1, <3>3, OutcomeChooses
  <2>3. CASE todo' = todo
    BY <1>d, <1>f, <2>1, <2>3
  <2> QED BY <1>14, <2>2, <2>3, RestartFacts
<1> QED BY <1>1, <1>2, <1>3, <1>4, <1>5, <1>6, <1>7, <1>8, <1>9, <1>10, <1>11, <1>12, <1>13, <1>14,
           <1>15, StepCases

(***************************************************************************)
(* A task at rest                                                          *)
(***************************************************************************)
\* The journal says that the task is paused: no resume was logged since.
PausedLogged == \E i \in Logged("task_paused") : \A j \in Logged("task_resumed") : j < i

\* An entry of this type is written before the record is saved again.
LoggedFirst(type) == \E k \in LogPlaces(todo, type) : OnlyLogsBefore(todo, k)

\* The status in memory is in the journal or will be before it is on the disk.
StatusIsLogged ==
    /\ mem.status = "completed" => Logged("task_completed") # {} \/ LoggedFirst("task_completed")
    /\ mem.status = "paused" => PausedLogged \/ LoggedFirst("task_paused")
    /\ mem.status = "waiting" => PausedLogged

\* A resume is logged only when the record says so, in memory and on the disk.
ResumedSaved ==
    \A k \in LogPlaces(todo, "task_resumed") :
        /\ mem.status \notin {"paused", "waiting"}
        /\ disk.status \in {"paused", "waiting"} => ~OnlyLogsBefore(todo, k)

\* The inductive invariant of RestIsLogged.
RestInv == RestIsLogged /\ StatusIsLogged /\ ResumedSaved

\* The initial states satisfy the invariant.
LEMMA RestInit == Init => RestInv
<1> SUFFICES ASSUME Init PROVE RestInv
  OBVIOUS
<1>1. todo = <<>> /\ disk.status = "unsaved" /\ mem.status = "unsaved"
  BY DEF Init, NewTask
<1> QED BY <1>1 DEF RestInv, RestIsLogged, StatusIsLogged, ResumedSaved, LogPlaces, Places

\* An entry is logged: the record does not change.
LEMMA RestLogs ==
  ASSUME TypeInv, RestInv, DoStep, todo[1].op = "log"
  PROVE  RestInv'
<1> DEFINE n == Len(journal) + 1
<1>1. /\ mem' = mem /\ disk' = disk /\ since' = since /\ since < n
      /\ n \notin DOMAIN journal /\ DOMAIN journal' = DOMAIN journal \cup {n}
      /\ \A i \in DOMAIN journal : journal'[i] = journal[i] /\ i < n
      /\ journal'[n] = todo[1].entry
  BY DoStepKeeps, DoStepLogs DEF TypeInv, RecordInv, TypeOK
<1> HIDE DEF n
<1>2. \A type : /\ Logged(type) \subseteq Logged(type)'
                /\ \A i \in Logged(type)' \ Logged(type) : i = n /\ todo[1].entry.type = type
                /\ todo[1].entry.type = type => n \in Logged(type)'
                /\ \A i \in Logged(type) : i < n
  BY <1>1 DEF Logged, EverLogged
<1>3. /\ \A type : \A k \in LogPlaces(todo', type) :
            k \in DOMAIN todo' /\ k + 1 \in LogPlaces(todo, type) /\ k + 1 \in DOMAIN todo
      /\ \A type : \A k \in LogPlaces(todo, type) :
            k \in DOMAIN todo /\ (k # 1 => k - 1 \in LogPlaces(todo', type))
      /\ \A type : 1 \in LogPlaces(todo, type) <=> todo[1].entry.type = type
  <2>1. 1 \in DOMAIN todo
    BY Shifted
  <2> QED BY <2>1, ShiftedPlaces DEF LogPlaces, Places
<1>4. OnlyLogsBefore(todo, 1)
  BY Shifted DEF OnlyLogsBefore
<1>5. \A type : LoggedFirst(type) => todo[1].entry.type = type \/ LoggedFirst(type)'
  <2> SUFFICES ASSUME NEW type, todo[1].entry.type # type,
                      NEW k \in LogPlaces(todo, type), OnlyLogsBefore(todo, k)
               PROVE  \E l \in LogPlaces(todo', type) : OnlyLogsBefore(todo', l)
    BY DEF LoggedFirst
  <2>1. k # 1
    BY <1>3
  <2> QED BY <1>3, <2>1, ShiftedFirst
<1>6. ASSUME todo[1].entry.type # "task_resumed", PausedLogged PROVE PausedLogged'
  BY <1>2, <1>6 DEF PausedLogged
<1>7. ASSUME todo[1].entry.type = "task_paused" PROVE PausedLogged'
  BY <1>2, <1>7 DEF PausedLogged
<1>8. todo[1].entry.type = "task_resumed" =>
        mem.status \notin {"paused", "waiting"} /\ disk.status \notin {"paused", "waiting"}
  BY <1>3, <1>4 DEF RestInv, ResumedSaved
<1>9. RestIsLogged'
  <2>1. disk.status = "completed" => Logged("task_completed")' # {}
    BY <1>2 DEF RestInv, RestIsLogged
  <2>2. disk.status \in {"paused", "waiting"} => PausedLogged'
    BY <1>6, <1>8 DEF RestInv, RestIsLogged, PausedLogged
  <2> QED BY <1>1, <2>1, <2>2 DEF RestIsLogged, PausedLogged
<1>10. StatusIsLogged'
  <2>1. mem.status = "completed" => Logged("task_completed")' # {} \/ LoggedFirst("task_completed")'
    BY <1>2, <1>5 DEF RestInv, StatusIsLogged
  <2>2. mem.status = "paused" => PausedLogged' \/ LoggedFirst("task_paused")'
    BY <1>5, <1>6, <1>7, <1>8 DEF RestInv, StatusIsLogged
  <2>3. mem.status = "waiting" => PausedLogged'
    BY <1>6, <1>8 DEF RestInv, StatusIsLogged
  <2> QED BY <1>1, <2>1, <2>2, <2>3 DEF StatusIsLogged
<1>11. ResumedSaved'
  BY <1>1, <1>3, ShiftedFirst DEF RestInv, ResumedSaved
<1> QED BY <1>9, <1>10, <1>11 DEF RestInv

\* The record is saved: nothing was to be logged before, so what the record says
\* is in the journal.
LEMMA RestSaves ==
  ASSUME TypeInv, RestInv, DoStep, todo[1].op # "log"
  PROVE  RestInv'
<1>1. journal' = journal /\ since' = since /\ disk' = mem' /\ mem'.status = mem.status
  BY DoStepKeeps DEF Rest
<1>2. \A type : Logged(type)' = Logged(type)
  BY <1>1 DEF Logged, EverLogged
<1>3. PausedLogged' = PausedLogged
  BY <1>2 DEF PausedLogged
<1>4. \A type : ~LoggedFirst(type)
  BY ShiftedFirst DEF LoggedFirst, LogPlaces, Places
<1>5. /\ mem.status = "completed" => Logged("task_completed") # {}
      /\ mem.status \in {"paused", "waiting"} => PausedLogged
  BY <1>4 DEF RestInv, StatusIsLogged
<1>6. RestIsLogged'
  <2>1. /\ disk'.status = "completed" => Logged("task_completed")' # {}
        /\ disk'.status \in {"paused", "waiting"} => PausedLogged'
    BY <1>1, <1>2, <1>3, <1>5
  <2> QED BY <2>1 DEF RestIsLogged, PausedLogged
<1>7. StatusIsLogged'
  BY <1>1, <1>2, <1>3, <1>5 DEF StatusIsLogged
<1>8. ResumedSaved'
  <2>1. \A k \in LogPlaces(todo', "task_resumed") : k + 1 \in LogPlaces(todo, "task_resumed")
    BY ShiftedPlaces DEF LogPlaces
  <2> QED BY <1>1, <2>1 DEF RestInv, ResumedSaved
<1> QED BY <1>6, <1>7, <1>8 DEF RestInv

\* A step that keeps the journal and the disk, with nothing left to write, keeps the
\* invariant if the status it chooses and what it chooses to write do.
LEMMA RestChooses ==
  ASSUME RestInv, todo = <<>>, journal' = journal, since' = since, disk' = disk,
         \/ mem'.status \in {mem.status, "queued", "active", "failed"}
         \/ mem'.status = "completed" /\ LoggedFirst("task_completed")'
         \/ mem'.status = "paused" /\ LoggedFirst("task_paused")'
         \/ mem'.status = "waiting" /\ mem.status = "paused",
         ResumedSaved'
  PROVE  RestInv'
<1>1. \A type : Logged(type)' = Logged(type)
  BY DEF Logged, EverLogged
<1>2. PausedLogged' = PausedLogged
  BY <1>1 DEF PausedLogged
<1>3. \A type : ~LoggedFirst(type)
  BY DEF LoggedFirst, LogPlaces, Places
<1>4. /\ mem.status = "completed" => Logged("task_completed") # {}
      /\ mem.status \in {"paused", "waiting"} => PausedLogged
  BY <1>3 DEF RestInv, StatusIsLogged
<1>5. RestIsLogged'
  BY <1>1 DEF RestInv, RestIsLogged
<1>6. StatusIsLogged'
  BY <1>1, <1>2, <1>4 DEF StatusIsLogged
<1> QED BY <1>5, <1>6 DEF RestInv

\* Every step keeps the invariant.
LEMMA RestStep == TypeInv /\ StatusInv /\ RestInv /\ [Next]_vars => RestInv'
<1> SUFFICES ASSUME TypeInv, StatusInv, RestInv, [Next]_vars PROVE RestInv'
  OBVIOUS
<1>a. ASSUME \A k \in Places(todo', "log") : todo'[k].entry.type # "task_resumed"
      PROVE  ResumedSaved'
  BY <1>a DEF ResumedSaved, LogPlaces
<1>b. /\ "task_resumed" \notin PlainTypes
      /\ \A type : LogPlaces(<<>>, type) = {}
  BY DEF PlainTypes, LogPlaces, Places
<1>c. ASSUME Chooses PROVE todo = <<>> /\ journal' = journal /\ since' = since /\ disk' = disk
  BY <1>c DEF Chooses
<1>d. ASSUME Chooses, mem'.status \in {mem.status, "queued", "active", "failed"},
             \A k \in Places(todo', "log") : todo'[k].entry.type # "task_resumed"
      PROVE  RestInv'
  BY <1>a, <1>c, <1>d, RestChooses
<1>e. ASSUME todo = <<>>, todo' = <<>>, mem'.status = mem.status,
             disk'.status \in {disk.status, mem.status},
             Logged("task_paused")' = Logged("task_paused"),
             Logged("task_resumed")' = Logged("task_resumed"),
             Logged("task_completed")' = Logged("task_completed")
      PROVE  RestInv'
  <2>1. PausedLogged' = PausedLogged
    BY <1>e DEF PausedLogged
  <2>2. /\ mem.status = "completed" => Logged("task_completed") # {}
        /\ mem.status \in {"paused", "waiting"} => PausedLogged
        /\ disk.status = "completed" => Logged("task_completed") # {}
        /\ disk.status \in {"paused", "waiting"} => PausedLogged
    BY <1>b, <1>e DEF RestInv, StatusIsLogged, RestIsLogged, LoggedFirst, PausedLogged
  <2>3. /\ disk'.status = "completed" => Logged("task_completed")' # {}
        /\ disk'.status \in {"paused", "waiting"} => PausedLogged'
    BY <1>e, <2>1, <2>2
  <2>4. RestIsLogged'
    BY <2>3 DEF RestIsLogged, PausedLogged
  <2>5. StatusIsLogged'
    BY <1>e, <2>1, <2>2 DEF StatusIsLogged
  <2>6. ResumedSaved'
    BY <1>b, <1>e DEF ResumedSaved
  <2> QED BY <2>4, <2>5, <2>6 DEF RestInv
<1>1. CASE Deliver \/ JobEnds \/ LeaveLoop \/ UNCHANGED vars
  <2>1. UNCHANGED <<todo, mem, disk, journal, since>>
    BY <1>1, PlaceFacts DEF vars, delivery
  <2> QED BY <2>1 DEF RestInv, RestIsLogged, StatusIsLogged, ResumedSaved, PausedLogged,
                      LoggedFirst, Logged, EverLogged
<1>14. CASE BeginRun
  <2>1. /\ disk' = mem' /\ mem'.status \in {"queued", "active"}
        /\ DOMAIN todo' = {1} /\ todo'[1].entry.type = "subtask_queued"
    BY <1>14, BeginRunFacts
  <2>2. ResumedSaved'
    BY <1>a, <2>1 DEF Places
  <2> QED BY <2>1, <2>2 DEF RestInv, RestIsLogged, StatusIsLogged
<1>2. CASE EnterRunTask
  <2>1. Chooses /\ mem'.status = mem.status
    BY <1>2, EnterFacts
  <2>2. CASE todo' = <<>>
    BY <1>d, <2>1, <2>2 DEF Places
  <2>3. CASE \E q \in Nat :
                 todo' = <<Enqueue(NewSubtask("orchestrator_eval", EffectiveStage(mem), None, FALSE)),
                           Log("subtask_queued", q)>>
    <3> DEFINE sub == NewSubtask("orchestrator_eval", EffectiveStage(mem), None, FALSE)
    <3>1. PICK q \in Nat : todo' = <<Enqueue(sub), Log("subtask_queued", q)>>
      BY <2>3
    <3> HIDE DEF sub
    <3>2. \A k \in Places(todo', "log") : todo'[k].entry.type \in PlainTypes
      BY <3>1, EvalPlaces
    <3> QED BY <1>b, <1>d, <2>1, <3>2
  <2> QED BY <1>2, <2>2, <2>3, EnterFacts
<1>3. CASE Dequeue \/ Activate
  <2>1. /\ todo = <<>> /\ todo' = <<>> /\ journal' = journal /\ since' = since /\ disk' = mem'
        /\ mem'.status = mem.status
    BY <1>3, DequeueFacts, ActivateFacts DEF Rest
  <2>2. \A type : Logged(type)' = Logged(type)
    BY <2>1 DEF Logged, EverLogged
  <2> QED BY <1>e, <2>1, <2>2
<1>4. CASE LogStarted
  <2>1. todo = <<>> /\ todo' = <<>> /\ mem' = mem /\ disk' = disk
    BY <1>4, StartedFacts
  <2>2. \A type : type # "subtask_started" => Logged(type)' = Logged(type)
    BY <1>4, StartedFacts DEF Logged, EverLogged
  <2> QED BY <1>e, <2>1, <2>2
<1>5. CASE DoStep
  BY <1>5, RestLogs, RestSaves
<1>6. CASE EvalUnparsable \/ \E d \in Replies : EvalRejected(d)
  <2>1. Chooses /\ mem' = mem /\ \A k \in Places(todo', "log") : todo'[k].entry.type \in PlainTypes
    BY <1>6, RejectFacts, RejectPlaces
  <2> QED BY <1>b, <1>d, <2>1
<1>7. ASSUME NEW d \in Replies, EvalApplied(d) PROVE RestInv'
  <2>1. Chooses
    BY <1>7, AppliedFacts
  <2>2. ASSUME NEW sub, RunWrites(todo', cur, sub), mem'.status = mem.status PROVE RestInv'
    <3>1. \A k \in Places(todo', "log") : todo'[k].entry.type \in PlainTypes \cup {"subtask_completed"}
      BY <2>2, RunPlaces
    <3> QED BY <1>b, <1>d, <2>1, <2>2, <3>1
  <2>3. ASSUME NEW a \in DOMAIN EndStatus, mem'.status = EndStatus[a],
               EndWrites(todo', cur, EndEntry[a])
        PROVE  RestInv'
    <3>1. \/ EndStatus[a] = "completed" /\ EndEntry[a] = "task_completed"
          \/ EndStatus[a] = "paused" /\ EndEntry[a] = "task_paused"
          \/ EndStatus[a] = "failed" /\ EndEntry[a] = "task_failed"
      BY DEF EndStatus, EndEntry
    <3>2. /\ 2 \in LogPlaces(todo', EndEntry[a]) /\ OnlyLogsBefore(todo', 2)
          /\ \A k \in Places(todo', "log") :
               todo'[k].entry.type \in PlainTypes \cup {EndEntry[a], "subtask_completed"}
      BY <2>3, EndPlaces
    <3>3. LoggedFirst(EndEntry[a])'
      BY <3>2 DEF LoggedFirst
    <3>4. ResumedSaved'
      BY <1>a, <1>b, <3>1, <3>2
    <3> QED BY <1>c, <2>1, <2>3, <3>1, <3>3, <3>4, RestChooses
  <2>4. ASSUME UnknownWrites(todo', cur), mem' = mem PROVE RestInv'
    <3>1. \A k \in Places(todo', "log") : todo'[k].entry.type \in PlainTypes \cup {"subtask_completed"}
      BY <2>4, UnknownPlaces
    <3> QED BY <1>b, <1>d, <2>1, <2>4, <3>1
  <2> QED BY <1>7, <2>2, <2>3, <2>4, AppliedFacts
<1>8. CASE EvalExhausted
  <2>1. /\ Chooses /\ mem'.status = "failed"
        /\ \A k \in Places(todo', "log") : todo'[k].entry.type \in PlainTypes \cup {"subtask_failed"}
    BY <1>8, ExhaustedFacts, ExhaustedPlaces
  <2> QED BY <1>b, <1>d, <2>1
<1>9. CASE Stage \/ RunScript \/ HandleResume
  <2>1. Chooses /\ mem' \in {mem, [mem EXCEPT !.status = "active"]}
    BY <1>9, HandledFacts
  <2>2. mem'.status \in {mem.status, "active"}
    BY <2>1 DEF TypeInv, RecordInv, TypeOK, Tasks
  <2>3. PICK n \in Nat, status \in {"completed", "failed"}, input \in BOOLEAN :
               Recorded(todo', n, cur, status, NextEval(input))
    BY <1>9, HandledFacts
  <2>4. \A k \in Places(todo', "log") :
           todo'[k].entry.type \in PlainTypes \cup {"script_completed", "subtask_completed", "subtask_failed"}
    BY <2>3, RecordedPlaces
  <2> QED BY <1>b, <1>d, <2>1, <2>2, <2>4
<1>10. CASE Resume
  <2>1. Chooses /\ mem'.status = "active"
    BY <1>10, ResumeFacts
  <2> DEFINE sub == NewSubtask("resume_after_input", EffectiveStage(mem), None, FALSE)
  <2>2. todo' = <<Enqueue(sub), Log("task_resumed", 0), Save>>
    BY <1>10, ResumeFacts
  <2> HIDE DEF sub
  <2>3. /\ 1 \in Places(todo', "enqueue") /\ 1 \in DOMAIN todo'
        /\ \A k \in Places(todo', "log") : k = 2
    BY <2>2, ResumePlaces
  <2>4. ~OnlyLogsBefore(todo', 2)
    BY <2>3 DEF OnlyLogsBefore, Places
  <2>5. ResumedSaved'
    BY <2>1, <2>3, <2>4 DEF ResumedSaved, LogPlaces
  <2> QED BY <1>c, <2>1, <2>5, RestChooses
<1>11. CASE CheckTimeouts
  <2>1. /\ Chooses /\ mem.status = "paused" /\ mem'.status = "waiting"
        /\ \A k \in Places(todo', "log") : todo'[k].entry.type \in PlainTypes
    BY <1>11, ExpireFacts, ExpirePlaces
  <2>2. ResumedSaved'
    BY <1>a, <1>b, <2>1
  <2> QED BY <1>c, <2>1, <2>2, RestChooses
<1>12. CASE RunTaskThrows \/ Crash
  <2>1. /\ todo' = <<>> /\ mem' = disk /\ disk' = disk
        /\ journal' = journal /\ since' = since
    BY <1>12, DropFacts
  <2>2. \A type : Logged(type)' = Logged(type)
    BY <2>1 DEF Logged, EverLogged
  <2>3. RestIsLogged' /\ StatusIsLogged'
    BY <2>1, <2>2 DEF RestInv, RestIsLogged, StatusIsLogged, PausedLogged
  <2>4. ResumedSaved'
    BY <1>b, <2>1 DEF ResumedSaved
  <2> QED BY <2>3, <2>4 DEF RestInv
<1>13. CASE Restart
  <2>1. /\ todo = <<>> /\ UNCHANGED <<mem, disk, journal, since>> /\ mem \in Tasks
    BY <1>13, RestartFacts DEF StatusInv, RunningPlaces, TypeInv, RecordInv, TypeOK
  <2>2. CASE todo' = RebuildQueue(mem)
    <3>1. \A k \in Places(todo', "log") : todo'[k].entry.type \in PlainTypes \cup {"subtask_failed"}
      BY <2>1, <2>2, RebuildPlaces
    <3>2. ResumedSaved'
      BY <1>a, <1>b, <3>1
    <3> QED BY <2>1, <3>2, RestChooses
  <2>3. CASE todo' = todo
    BY <1>b, <2>1, <2>3, RestChooses DEF ResumedSaved
  <2> QED BY <1>13, <2>2, <2>3, RestartFacts
<1> QED BY <1>1, <1>2, <1>3, <1>4, <1>5, <1>6, <1>7, <1>8, <1>9, <1>10, <1>11, <1>12, <1>13,
           <1>14, StepCases

\* For every recipe, and whatever crashes, exceptions, replies and expiries come, the
\* outcome the journal reports for a subtask since the record began is the one
\* task.json holds: none is reported before it is durable and none is overwritten
\* afterwards, by recovery least of all.  A task that task.json says is completed,
\* paused or waiting is so in those lines of the journal, which is written before the
\* record is saved (worker.ts, head comment).  The lines before are about records
\* that a redelivered job replaced; nothing is claimed of them here.
THEOREM JournalAgreesWithTask == Spec => []OutcomesAgree
<1>1. TypeInv /\ OutcomeInv /\ RestInv => OutcomesAgree
  <2> SUFFICES ASSUME TypeInv, OutcomeInv, RestInv PROVE OutcomesAgree
    OBVIOUS
  <2>1. mem.subtasks = disk.subtasks
    BY DEF TypeInv, RecordInv, Synced
  <2>2. "subtask_completed" \in OutcomeTypes /\ "subtask_failed" \in OutcomeTypes
    BY DEF OutcomeTypes
  <2>3. SettledAsLogged
    BY <2>1, <2>2 DEF SettledAsLogged, OutcomeInv, OutcomesKept, HasStatus, Outcome
  <2> QED BY <2>3 DEF OutcomesAgree, RestInv
<1> QED BY <1>1, TypeInit, TypeStep, StatusInit, StatusStep, FlowInit, FlowStep, OutcomeInit, OutcomeStep,
           RestInit, RestStep, PTL DEF Spec
=============================================================================
