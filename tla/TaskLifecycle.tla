--------------------------- MODULE TaskLifecycle ---------------------------
(***************************************************************************)
(* What the runtime promises about a task, whatever crashes.  Its durable  *)
(* record is started a bounded number of times: each delivery of its job   *)
(* may put a new record in the place of the old one, in whatever state     *)
(* that was.  Within one record the status moves only as Stop, Resume and  *)
(* Expire say, and the budget of stage and script runs is spent one at a   *)
(* time, only while the task runs, and never past the limit.  So a task    *)
(* may cost MaxStarts times its budget, and no more.                       *)
(* TaskRuntime implements it with status <- disk.status,                   *)
(* spent <- disk.total and MaxStarts <- MaxStalled + 1.                    *)
(***************************************************************************)
EXTENDS Naturals

CONSTANTS InitialStatuses,  \* statuses a new record may have
          Budget,           \* runs one record may spend
          MaxStarts         \* records a task may have

VARIABLES status, spent, starts

Running == status \in {"queued", "active"}

Init == status = "unsaved" /\ spent = 0 /\ starts = 0

\* A new record, over none or over an old one.
Start ==
    /\ starts < MaxStarts
    /\ starts' = starts + 1
    /\ status' \in InitialStatuses
    /\ spent' = 0

Spend == Running /\ spent < Budget /\ spent' = spent + 1 /\ UNCHANGED <<status, starts>>

\* A running task ends or pauses by a decision.
Stop == Running /\ status' \in {"paused", "completed", "failed"} /\ UNCHANGED <<spent, starts>>

Resume == status = "paused" /\ status' = "active" /\ UNCHANGED <<spent, starts>>

Expire == status = "paused" /\ status' = "waiting" /\ UNCHANGED <<spent, starts>>

Next == Start \/ Spend \/ Stop \/ Resume \/ Expire

Spec == Init /\ [][Next]_<<status, spent, starts>>
=============================================================================
