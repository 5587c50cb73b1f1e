----------------------------- MODULE MCGateTask -----------------------------
(***************************************************************************)
(* A small gate for TLC: a tool, a script that occurs twice and an agent,  *)
(* whose retry policy may be a negative number.                            *)
(***************************************************************************)
EXTENDS GateTaskProps

CONSTANTS fetch, build, review

SmallWorkflow == <<fetch, build, build, review>>
SmallType == [s \in StepIds |->
                 CASE s = fetch -> "tool" [] s = build -> "script" [] s = review -> "agent"]
\* One retry of each step but the agent, which gets none or a bad policy.
SmallPolicies == {[s \in StepIds |-> IF s = review THEN n ELSE 1] : n \in {0 - 1, 0}}
=============================================================================
