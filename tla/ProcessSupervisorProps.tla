----------------------- MODULE ProcessSupervisorProps -----------------------
(***************************************************************************)
(* The properties of the runners' child processes.                         *)
(***************************************************************************)
EXTENDS ProcessSupervisor

TypeOK ==
    /\ kind \in Kinds /\ up \in BOOLEAN /\ attempt \in 0 .. MaxAttempts
    /\ call \in [Attempts -> Calls]
    /\ setup \in [Attempts -> Setups]
    /\ chain \in [Attempts -> Chains]
    /\ flags \in [Attempts -> SUBSET FlagStates]
    /\ faults \in 0 .. MaxFaults

\* A call succeeds only if its own child, or tool, ended well before its own
\* timeout (or the tool threw without a message), and is reported as timed out
\* only if its timer fired: also when the exit, the timer, an error event and a
\* late answer of an earlier call come in any order.
ResultFits ==
    \A n \in Attempts :
        /\ call[n].result = "ok" => call[n].child \in {"ok", "blank"} /\ ~call[n].timedOut
        /\ call[n].result = "timeout" => call[n].timedOut

\* Once the promise of a CLI agent is settled the flags of that run are exactly
\* the one its result says, unless a file operation failed (cli-backend.ts,
\* "state flag management (pending/completed/failed)").
FlagsTell ==
    \A n \in Attempts :
        kind = "cli" /\ faults = 0 /\ call[n].result \in {"ok", "error", "timeout"} =>
            flags[n] = {IF call[n].result = "ok" THEN "completed" ELSE "failed"}

\* A settled call leaves no timer and no child behind, so a retry never runs
\* next to the process it replaces.  A tool cannot be stopped and may run on.
NothingLeft ==
    \A n \in Attempts :
        call[n].result # "pending" =>
            /\ call[n].timer \in {"off", "spent"}
            /\ kind # "tool" => call[n].child # "alive"

\* A script or CLI agent that timed out is killed, also if it ignores SIGTERM.
TimeoutKills ==
    \A n \in Attempts :
        (kind # "tool" /\ call[n].timedOut) ~> (call[n].child # "alive" \/ ~up)

\* A call that started is answered, if no descendant of the child keeps its
\* pipes for ever, however long the child itself would run.
AnswerComes ==
    \A n \in Attempts :
        (<>[]~call[n].held) => (call[n].timer = "armed" ~> call[n].result # "pending" \/ ~up)
=============================================================================
