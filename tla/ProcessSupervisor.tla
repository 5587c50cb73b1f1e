-------------------------- MODULE ProcessSupervisor --------------------------
(***************************************************************************)
(* One step run by a script (src/src/executor/script-runner.ts), a CLI     *)
(* agent (src/src/runners/cli-backend.ts) or a tool (tool-runner.ts), with *)
(* its retries: the child process and its pipes, the timeout and the kill  *)
(* escalation, the state flags, and the promise the caller waits for.      *)
(* The operating system and the child are modelled from how the code uses  *)
(* them: a child exits, its "close" event comes once nobody holds its      *)
(* pipes, SIGTERM may be ignored and SIGKILL may not.                      *)
(***************************************************************************)
EXTENDS Naturals

CONSTANTS
    MaxAttempts,  \* calls the caller makes for the step
    MaxFaults     \* bound: file operations that fail

ASSUME SupervisorAssumption == MaxAttempts \in Nat \ {0} /\ MaxFaults \in Nat

VARIABLES
    kind,     \* of the step
    up,       \* the orchestrator runs
    attempt,  \* the latest call, 0 before the first
    call,     \* per call: its child, its timers and its promise
    setup,    \* per call of a CLI agent: the files that are being written
    chain,    \* per call of a CLI agent: what its event handlers are waiting for
    flags,    \* per call of a CLI agent: the state flags on disk
    faults

cli == <<setup, chain, flags>>
vars == <<kind, up, attempt, call, cli, faults>>

Attempts == 1 .. MaxAttempts
Kinds == {"script", "cli", "tool"}
Failures == {"error", "timeout", "throws"}
\* "ok" is what the caller takes for it: an output without an error text.
Results == Failures \cup {"pending", "ok"}
Events == {"error", "close"}
\* "unspawned": the spawn failed, Node emits "error" and then "close".
\* "blank": a tool threw an error whose message is empty.
Children == {"none", "unspawned", "alive", "ok", "failed", "blank"}
\* "grace" is the timer of the SIGKILL, "spent" both timers fired.
Timers == {"off", "armed", "grace", "spent"}
Calls == [child: Children, held: BOOLEAN, timer: Timers, timedOut: BOOLEAN,
          seen: SUBSET Events, result: Results]
Written == {"none", "going", "ok", "err"}
Setups == [dir: Written, prompt: Written, flag: Written]
Chains == [Events -> {"none", "waiting", "unlinked", "done"}]
FlagStates == {"pending", "completed", "failed"}

NoCall == [child |-> "none", held |-> FALSE, timer |-> "off", timedOut |-> FALSE,
           seen |-> {}, result |-> "pending"]
NoSetup == [dir |-> "none", prompt |-> "none", flag |-> "none"]

Init ==
    /\ kind \in Kinds /\ up = TRUE /\ attempt = 0
    /\ call = [n \in Attempts |-> NoCall]
    /\ setup = [n \in Attempts |-> NoSetup]
    /\ chain = [n \in Attempts |-> [e \in Events |-> "none"]]
    /\ flags = [n \in Attempts |-> {}]
    /\ faults = 0

(***************************************************************************)
(* The call.                                                               *)
(***************************************************************************)
NextCall(n) ==
    /\ up /\ n \in Attempts /\ n = attempt + 1
    /\ attempt # 0 => call[attempt].result \in Failures
    /\ attempt' = n

\* The child, or the tool function, runs, and the timer is set.  The CLI
\* backend writes its prompt and its pending flag only now.
Starts(n) ==
    /\ NextCall(n)
    /\ \E child \in IF kind = "tool" THEN {"alive"} ELSE {"alive", "unspawned"} :
          call' = [call EXCEPT ![n].child = child, ![n].timer = "armed"]
    /\ setup' = IF kind = "cli" THEN [setup EXCEPT ![n].dir = "going"] ELSE setup
    /\ UNCHANGED <<kind, up, chain, flags, faults>>

\* spawn throws, or the module of the tool cannot be imported or lacks the
\* function: there is no child and no timer.
StartFails(n) ==
    /\ NextCall(n)
    /\ call' = [call EXCEPT ![n].result = IF kind = "tool" THEN "error" ELSE "throws"]
    /\ UNCHANGED <<kind, up, cli, faults>>

(***************************************************************************)
(* The child.                                                              *)
(***************************************************************************)
Exits(n, code) ==
    /\ kind # "tool" /\ call[n].child = "alive"
    /\ call' = [call EXCEPT ![n].child = code]
    /\ UNCHANGED <<kind, up, attempt, cli, faults>>

\* A process started by the child inherits its pipes.
Forks(n) ==
    /\ kind # "tool" /\ call[n].child = "alive" /\ ~call[n].held
    /\ call' = [call EXCEPT ![n].held = TRUE]
    /\ UNCHANGED <<kind, up, attempt, cli, faults>>

Releases(n) ==
    /\ call[n].held
    /\ call' = [call EXCEPT ![n].held = FALSE]
    /\ UNCHANGED <<kind, up, attempt, cli, faults>>

(***************************************************************************)
(* Timers.                                                                 *)
(***************************************************************************)
\* Mutants of Expired: the promise is settled when the timeout fires, and the
\* SIGKILL is not scheduled.
ExpiredAnswers(c) == [c EXCEPT !.timedOut = TRUE, !.timer = "grace", !.result = "timeout"]
ExpiredTermOnly(c) == [c EXCEPT !.timedOut = TRUE, !.timer = "spent"]

\* The timeout of a script or CLI agent sends SIGTERM and schedules SIGKILL.
Expired(c) == [c EXCEPT !.timedOut = TRUE, !.timer = "grace"]

\* The timeout of a tool wins the race; the tool goes on.
RaceLost(c) == [c EXCEPT !.timedOut = TRUE, !.timer = "spent", !.result = "timeout"]

TimeoutFires(n) ==
    /\ up /\ call[n].timer = "armed"
    /\ call' = [call EXCEPT ![n] = IF kind = "tool" THEN RaceLost(@) ELSE Expired(@)]
    /\ UNCHANGED <<kind, up, attempt, cli, faults>>

\* SIGKILL; a signal to a child that has exited does nothing.
GraceFires(n) ==
    /\ up /\ call[n].timer = "grace"
    /\ call' = [call EXCEPT ![n].timer = "spent",
                            ![n].child = IF @ = "alive" THEN "failed" ELSE @]
    /\ UNCHANGED <<kind, up, attempt, cli, faults>>

(***************************************************************************)
(* Events.                                                                 *)
(***************************************************************************)
\* Mutants of Outcomes: the exit code alone counts, and the branch of the
\* timeout returns without resolving.
OutcomesByCode(c, e) == IF e = "close" /\ c.child = "ok" THEN {"ok"} ELSE {"error"}
OutcomesForgotten(c, e) ==
    CASE e = "close" /\ c.timedOut -> {}
      [] e = "close" /\ ~c.timedOut /\ c.child = "ok" -> {"ok"}
      [] OTHER -> {"error"}

\* What a handler resolves with: buildStepOutput, mapExitCodeToOutput and the
\* spawn error; the output of a script that exits with 0 may not be JSON.
Outcomes(c, e) ==
    CASE e = "error" -> {"error"}
      [] e = "close" /\ c.timedOut -> {"timeout"}
      [] e = "close" /\ ~c.timedOut /\ c.child = "ok" ->
           IF kind = "script" THEN {"ok", "error"} ELSE {"ok"}
      [] OTHER -> {"error"}

\* Only the first resolve counts.
Resolved(c, outcome) == IF c.result = "pending" THEN [c EXCEPT !.result = outcome] ELSE c

\* The timers are cleared.  A script's promise is resolved at once, that of a
\* CLI agent after the flags are written.
Handled(c, e) == [c EXCEPT !.seen = @ \cup {e}, !.timer = IF @ = "spent" THEN @ ELSE "off"]

Event(n, e) ==
    /\ up /\ e \notin call[n].seen
    /\ IF kind = "script"
       THEN /\ \E outcome \in Outcomes(call[n], e) :
                 call' = [call EXCEPT ![n] = Resolved(Handled(@, e), outcome)]
            /\ UNCHANGED chain
       ELSE /\ call' = [call EXCEPT ![n] = Handled(@, e)]
            /\ chain' = [chain EXCEPT ![n][e] = "waiting"]
    /\ UNCHANGED <<kind, up, attempt, setup, flags, faults>>

ErrorFires(n) == call[n].child = "unspawned" /\ Event(n, "error")

CloseFires(n) ==
    /\ kind # "tool"
    /\ \/ call[n].child = "unspawned" /\ "error" \in call[n].seen
       \/ call[n].child \in {"ok", "failed"} /\ ~call[n].held
    /\ Event(n, "close")

\* A tool may return an output that carries an error.  One that throws is
\* reported by its message, and an empty message reads as no error.
ToolOutcomes(end) ==
    CASE end = "ok" -> {"ok", "error"} [] end = "failed" -> {"error"} [] end = "blank" -> {"ok"}

\* A tool returns or throws: it settles the race unless that is over, and the
\* timer is cleared with it.
ToolEnds(n, end) ==
    /\ up /\ kind = "tool" /\ call[n].child = "alive"
    /\ IF call[n].result = "pending"
       THEN \E outcome \in ToolOutcomes(end) :
              call' = [call EXCEPT ![n].child = end, ![n].timer = "off", ![n].result = outcome]
       ELSE call' = [call EXCEPT ![n].child = end]
    /\ UNCHANGED <<kind, up, attempt, cli, faults>>

(***************************************************************************)
(* The files of a CLI agent.                                               *)
(***************************************************************************)
\* Mutant of Ready: the handlers wait for the directory only.
ReadyEarly(s) == s.dir = "ok"

Ready(s) == s.prompt = "ok" /\ s.flag = "ok"
Rejected(s) == "err" \in {s.dir, s.prompt, s.flag}

MayFail == faults < MaxFaults /\ faults' = faults + 1

\* writePromptAndPendingFlag; its promise has no handler before the first
\* event, and an unhandled rejection ends the process.
SetsUp(n, s) ==
    /\ setup' = [setup EXCEPT ![n] = s]
    /\ up' = (up /\ (Rejected(s) => call[n].seen # {}))
    /\ UNCHANGED <<kind, attempt, call, chain>>

MakesDir(n) ==
    /\ up /\ setup[n].dir = "going"
    /\ UNCHANGED flags
    /\ \/ /\ SetsUp(n, [dir |-> "ok", prompt |-> "going", flag |-> "going"])
          /\ UNCHANGED faults
       \/ SetsUp(n, [NoSetup EXCEPT !.dir = "err"]) /\ MayFail

WritesPrompt(n) ==
    /\ up /\ setup[n].prompt = "going"
    /\ UNCHANGED flags
    /\ \/ SetsUp(n, [setup[n] EXCEPT !.prompt = "ok"]) /\ UNCHANGED faults
       \/ SetsUp(n, [setup[n] EXCEPT !.prompt = "err"]) /\ MayFail

WritesFlag(n) ==
    /\ up /\ setup[n].flag = "going"
    /\ \/ /\ SetsUp(n, [setup[n] EXCEPT !.flag = "ok"])
          /\ flags' = [flags EXCEPT ![n] = @ \cup {"pending"}]
          /\ UNCHANGED faults
       \/ SetsUp(n, [setup[n] EXCEPT !.flag = "err"]) /\ MayFail /\ UNCHANGED flags

\* transitionStateFlag: removing the pending flag may fail unnoticed.
Unlinks(n, e) ==
    /\ up /\ chain[n][e] = "waiting"
    /\ Ready(setup[n])
    /\ chain' = [chain EXCEPT ![n][e] = "unlinked"]
    /\ \/ flags' = [flags EXCEPT ![n] = @ \ {"pending"}] /\ UNCHANGED faults
       \/ UNCHANGED flags /\ MayFail
    /\ UNCHANGED <<kind, up, attempt, call, setup>>

\* Mutant of Target: a flag of its own for a timeout.
TargetByOutcome(c, e) ==
    IF c.timedOut THEN "timeout" ELSE IF c.child = "ok" THEN "completed" ELSE "failed"

Target(c, e) ==
    IF e = "close" /\ ~c.timedOut /\ c.child = "ok" THEN "completed" ELSE "failed"

\* The end of a handler's chain: the flag is written, or writing it failed, or
\* the setup had failed; the promise is resolved in any case.
Answers(n, e) ==
    /\ up
    /\ \/ /\ chain[n][e] = "waiting" /\ Rejected(setup[n])
          /\ UNCHANGED <<flags, faults>>
       \/ /\ chain[n][e] = "unlinked"
          /\ \/ /\ flags' = [flags EXCEPT ![n] = @ \cup {Target(call[n], e)}]
                /\ UNCHANGED faults
             \/ MayFail /\ UNCHANGED flags
    /\ chain' = [chain EXCEPT ![n][e] = "done"]
    /\ \E outcome \in Outcomes(call[n], e) :
          call' = [call EXCEPT ![n] = Resolved(@, outcome)]
    /\ UNCHANGED <<kind, up, attempt, setup>>

\* What the event loop does by itself.
EventLoop ==
    \E n \in Attempts :
        \/ TimeoutFires(n) \/ GraceFires(n) \/ ErrorFires(n) \/ CloseFires(n)
        \/ MakesDir(n) \/ WritesPrompt(n) \/ WritesFlag(n)
        \/ \E e \in Events : Unlinks(n, e) \/ Answers(n, e)

Next ==
    \/ EventLoop
    \/ \E n \in Attempts :
          \/ Starts(n) \/ StartFails(n) \/ Forks(n) \/ Releases(n)
          \/ \E code \in {"ok", "failed"} : Exits(n, code)
          \/ \E end \in {"ok", "failed", "blank"} : ToolEnds(n, end)

Spec == Init /\ [][Next]_vars

FairSpec == Spec /\ WF_vars(EventLoop)
=============================================================================
