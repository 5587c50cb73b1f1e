---------------------------- MODULE StepMachine ----------------------------
(***************************************************************************)
(* What a gate task promises: its steps are done in order, each tried at   *)
(* most as often as its retry policy allows, and the task is completed     *)
(* exactly when all of them are done.  GateTask implements it.             *)
(***************************************************************************)
EXTENDS Integers

CONSTANT Steps       \* number of steps

VARIABLES tries,     \* how often each step may be tried; fixed
          status,    \* "queued", "active", "completed" or "failed"
          done,      \* steps done
          failures   \* failed tries of the next step

Init == tries \in [1 .. Steps -> Nat] /\ status = "queued" /\ done = 0 /\ failures = 0

Start ==
    /\ status = "queued"
    /\ status' = IF Steps = 0 THEN "completed" ELSE "active"
    /\ UNCHANGED <<tries, done, failures>>

Succeed ==
    /\ status = "active"
    /\ failures < tries[done + 1]
    /\ done' = done + 1
    /\ failures' = 0
    /\ status' = IF done' = Steps THEN "completed" ELSE "active"
    /\ UNCHANGED tries

Fail ==
    /\ status = "active"
    /\ failures < tries[done + 1]
    /\ failures' = failures + 1
    /\ status' = IF failures' = tries[done + 1] THEN "failed" ELSE "active"
    /\ UNCHANGED <<tries, done>>

\* A step that may not be tried at all.
Refuse ==
    /\ status = "active"
    /\ tries[done + 1] = 0
    /\ status' = "failed"
    /\ UNCHANGED <<tries, done, failures>>

Next == Start \/ Succeed \/ Fail \/ Refuse

Spec == Init /\ [][Next]_<<tries, status, done, failures>>
=============================================================================
