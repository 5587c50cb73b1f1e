--------------------------- MODULE MCTaskRuntime ---------------------------
(***************************************************************************)
(* Small recipes for TLC: the constants of TaskRuntime that a cfg cannot   *)
(* write down.                                                             *)
(***************************************************************************)
EXTENDS TaskRuntimeProps

CONSTANTS s1, s2, l1, build

\* s1 may hand over to s2; only s1 declares an output and calls a script.
OneWay == [s \in Stages |-> IF s = s1 THEN Stages \ {s1} ELSE {}]
OneOutput == [s \in Stages |-> IF s = s1 THEN <<l1>> ELSE <<>>]
BuildOnly == [s \in Stages |-> IF s = s1 THEN {build} ELSE {}]

AllActions == KnownActions \cup {"unknown"}
StageActions == {"run_stage_agent", "pause_for_input", "finish_run", "unknown"}
=============================================================================
