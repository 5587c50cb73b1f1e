----------------------- MODULE ProcessSupervisorProofs -----------------------
(***************************************************************************)
(* What a settled call promises, proved for any number of attempts and of  *)
(* failing file operations.  SupInv is the inductive invariant: it follows *)
(* one call through its events.  FlagInv adds the files of a CLI agent.    *)
(***************************************************************************)
EXTENDS ProcessSupervisorProps, TLAPS

\* Calls that have not been made are untouched.
FreshLater == \A n \in Attempts : n > attempt => call[n] = NoCall

\* The events a call has seen, its timers, its child and its result go together.
EventsFit(n) ==
    /\ call[n].child = "none" => call[n].timer = "off"
    /\ kind = "tool" => call[n].child # "unspawned"
    /\ call[n].seen # {} => /\ kind # "tool"
                            /\ call[n].timer \in {"off", "spent"}
                            /\ call[n].child \in {"unspawned", "ok", "failed"}
    /\ \A e \in Events : chain[n][e] # "none" => e \in call[n].seen
    /\ kind # "tool" /\ call[n].result \in {"ok", "error", "timeout"} => call[n].seen # {}
    /\ call[n].result = "throws" => call[n].child = "none"
    /\ kind = "tool" /\ call[n].result # "pending" => call[n].timer \in {"off", "spent"}
    /\ kind = "tool" /\ call[n].result = "pending" => ~call[n].timedOut

SupInv ==
    /\ TypeOK /\ FreshLater /\ ResultFits
    /\ \A n \in Attempts : EventsFit(n)

\* The initial states satisfy the invariant.
LEMMA SupInit == Init => SupInv
<1> SUFFICES ASSUME Init PROVE SupInv
  OBVIOUS
<1>1. NoCall \in Calls /\ NoSetup \in Setups
  BY DEF NoCall, Calls, Children, Timers, Results, Failures, NoSetup, Setups, Written
<1>2. [e \in Events |-> "none"] \in Chains
  BY DEF Chains
<1>3. TypeOK
  BY <1>1, <1>2, SupervisorAssumption DEF Init, TypeOK
<1>4. \A n \in Attempts : /\ call[n] = NoCall
                          /\ \A e \in Events : chain[n][e] = "none"
  BY DEF Init
<1> QED BY <1>3, <1>4 DEF SupInv, FreshLater, ResultFits, EventsFit, NoCall

\* A step of one call n that gives it the record c, if that record and its
\* chain fit together and a call not made yet stays as it is.
LEMMA OneCall ==
  ASSUME SupInv, NEW n \in Attempts, NEW c \in Calls,
         call' = [call EXCEPT ![n] = c], kind' = kind,
         attempt <= attempt', n <= attempt',
         \A m \in Attempts \ {n} : chain'[m] = chain[m],
         TypeOK', EventsFit(n)',
         c.result = "ok" => c.child \in {"ok", "blank"} /\ ~c.timedOut,
         c.result = "timeout" => c.timedOut
  PROVE  SupInv'
<1> USE DEF SupInv
<1>1. call'[n] = c /\ \A m \in Attempts \ {n} : call'[m] = call[m]
  BY DEF TypeOK
<1>2. FreshLater'
  BY <1>1, SupervisorAssumption DEF FreshLater, TypeOK, Attempts
<1>3. ResultFits'
  BY <1>1 DEF ResultFits
<1>4. \A m \in Attempts \ {n} : EventsFit(m)'
  BY <1>1 DEF EventsFit
<1> QED BY <1>2, <1>3, <1>4

\* A call that does anything has been made.
LEMMA Made ==
  ASSUME SupInv, NEW n \in Attempts, call[n] # NoCall
  PROVE  n <= attempt
BY SupervisorAssumption DEF SupInv, FreshLater, TypeOK, Attempts

\* A new call.
LEMMA StartKeeps ==
  ASSUME SupInv, NEW n \in Attempts, Starts(n) \/ StartFails(n)
  PROVE  SupInv'
<1> USE DEF SupInv, NextCall
<1>1. n = attempt + 1 /\ call[n] = NoCall /\ attempt' = n /\ kind' = kind /\ chain' = chain
  BY SupervisorAssumption DEF Starts, StartFails, FreshLater, TypeOK, Attempts, cli
<1>2. attempt' \in 0 .. MaxAttempts /\ attempt <= attempt' /\ n <= attempt'
  BY <1>1, SupervisorAssumption DEF TypeOK, Attempts
<1>3. \A e \in Events : chain[n][e] = "none"
  BY <1>1 DEF EventsFit, NoCall
<1>4. CASE Starts(n)
  <2>1. PICK child \in {"alive", "unspawned"} :
          /\ call' = [call EXCEPT ![n].child = child, ![n].timer = "armed"]
          /\ kind = "tool" => child = "alive"
    BY <1>4 DEF Starts
  <2> DEFINE c == [NoCall EXCEPT !.child = child, !.timer = "armed"]
  <2>2. c \in Calls /\ c.result = "pending"
    BY DEF NoCall, Calls, Children, Timers, Results, Failures
  <2>3. call' = [call EXCEPT ![n] = c]
    BY <1>1, <2>1 DEF TypeOK
  <2>4. /\ call'[n] = c /\ c.child = child /\ c.timer = "armed" /\ c.seen = {}
        /\ c.result = "pending" /\ ~c.timedOut /\ (kind = "tool" => child # "unspawned")
    BY <2>1, <2>3 DEF TypeOK, NoCall
  <2>5. setup' \in [Attempts -> Setups]
    <3>1. [setup[n] EXCEPT !.dir = "going"] \in Setups
      BY DEF TypeOK, Setups, Written
    <3>2. setup' = setup \/ setup' = [setup EXCEPT ![n] = [setup[n] EXCEPT !.dir = "going"]]
      BY <1>4 DEF Starts
    <3> QED BY <3>1, <3>2 DEF TypeOK
  <2>6. TypeOK'
    BY <1>1, <1>2, <1>4, <2>2, <2>3, <2>5 DEF Starts, TypeOK
  <2>7. EventsFit(n)'
    <3> HIDE DEF c
    <3> QED BY <1>1, <1>3, <2>4 DEF EventsFit
  <2> QED BY <1>1, <1>2, <2>2, <2>3, <2>6, <2>7, OneCall
<1>5. CASE StartFails(n)
  <2> DEFINE c == [NoCall EXCEPT !.result = IF kind = "tool" THEN "error" ELSE "throws"]
  <2>1. c \in Calls /\ c.result \notin {"ok", "timeout"}
    BY DEF NoCall, Calls, Children, Timers, Results, Failures
  <2>2. call' = [call EXCEPT ![n] = c]
    BY <1>1, <1>5 DEF StartFails, TypeOK
  <2>3. call'[n] = c
    BY <2>2 DEF TypeOK
  <2>4. TypeOK'
    BY <1>1, <1>2, <1>5, <2>1, <2>2 DEF StartFails, TypeOK, cli
  <2>5. EventsFit(n)'
    BY <1>1, <1>3, <2>3 DEF EventsFit, NoCall
  <2> QED BY <1>1, <1>2, <2>1, <2>2, <2>4, <2>5, OneCall
<1> QED BY <1>4, <1>5

\* The child, the timers and a tool.
LEMMA ChildKeeps ==
  ASSUME SupInv, NEW n \in Attempts,
         \/ Forks(n) \/ Releases(n) \/ TimeoutFires(n) \/ GraceFires(n)
         \/ \E code \in {"ok", "failed"} : Exits(n, code)
         \/ \E end \in {"ok", "failed", "blank"} : ToolEnds(n, end)
  PROVE  SupInv'
<1> USE DEF SupInv
<1>1. UNCHANGED <<kind, up, attempt, setup, chain, flags, faults>>
  BY DEF Forks, Releases, TimeoutFires, GraceFires, Exits, ToolEnds, cli
<1>2. call[n] \in Calls /\ EventsFit(n) /\ attempt \in Nat
  BY DEF TypeOK
<1>3. /\ call[n].result = "ok" => call[n].child \in {"ok", "blank"} /\ ~call[n].timedOut
      /\ call[n].result = "timeout" => call[n].timedOut
  BY DEF ResultFits
<1>4. n <= attempt
  <2>1. call[n] # NoCall
    BY DEF Forks, Releases, TimeoutFires, GraceFires, Exits, ToolEnds, NoCall
  <2> QED BY <2>1, Made
<1>5. ASSUME NEW c \in Calls, call' = [call EXCEPT ![n] = c], EventsFit(n)',
             c.result = "ok" => c.child \in {"ok", "blank"} /\ ~c.timedOut,
             c.result = "timeout" => c.timedOut
      PROVE  SupInv'
  <2>1. TypeOK'
    BY <1>1, <1>5 DEF TypeOK
  <2>2. /\ attempt <= attempt' /\ n <= attempt' /\ kind' = kind
        /\ \A m \in Attempts \ {n} : chain'[m] = chain[m]
    BY <1>1, <1>2, <1>4
  <2> HIDE DEF SupInv
  <2> QED BY <1>5, <2>1, <2>2, OneCall
<1>6. CASE Forks(n) \/ Releases(n)
  <2>1. PICK held \in BOOLEAN : call' = [call EXCEPT ![n].held = held]
    BY <1>6 DEF Forks, Releases
  <2> DEFINE c == [call[n] EXCEPT !.held = held]
  <2>2. c \in Calls /\ call' = [call EXCEPT ![n] = c] /\ call'[n] = c
    BY <1>2, <2>1 DEF Calls, TypeOK
  <2>3. EventsFit(n)'
    BY <1>1, <1>2, <2>2 DEF EventsFit, Calls
  <2> QED BY <1>2, <1>3, <1>5, <2>2, <2>3 DEF Calls
<1>7. ASSUME NEW code \in {"ok", "failed"}, Exits(n, code) PROVE SupInv'
  <2> DEFINE c == [call[n] EXCEPT !.child = code]
  <2>1. c \in Calls /\ call' = [call EXCEPT ![n] = c] /\ call'[n] = c
    BY <1>2, <1>7 DEF Exits, Calls, Children, TypeOK
  <2>2. kind # "tool" /\ call[n].child = "alive"
    BY <1>7 DEF Exits
  <2>3. call[n].seen = {} /\ call[n].result = "pending"
    BY <1>2, <2>2 DEF EventsFit, Calls, Results, Failures
  <2>4. EventsFit(n)'
    BY <1>1, <1>2, <2>1, <2>2, <2>3 DEF EventsFit, Calls
  <2> QED BY <1>2, <1>5, <2>1, <2>3, <2>4 DEF Calls
<1>8. CASE TimeoutFires(n)
  <2> DEFINE c == IF kind = "tool" THEN RaceLost(call[n]) ELSE Expired(call[n])
  <2>1. c \in Calls /\ call' = [call EXCEPT ![n] = c] /\ call'[n] = c
    BY <1>2, <1>8
       DEF TimeoutFires, RaceLost, Expired, Calls, Timers, Results, Failures, TypeOK
  <2>2. call[n].timer = "armed" /\ call[n].seen = {} /\ call[n].child # "none"
    BY <1>2, <1>8 DEF TimeoutFires, EventsFit
  <2>3. call[n].result = "pending"
    BY <1>2, <2>2 DEF EventsFit, Calls, Results, Failures
  <2>4. EventsFit(n)'
    BY <1>1, <1>2, <2>1, <2>2, <2>3 DEF EventsFit, RaceLost, Expired, Calls
  <2>5. /\ c.result = "ok" => c.child \in {"ok", "blank"} /\ ~c.timedOut
        /\ c.result = "timeout" => c.timedOut
    BY <1>2, <2>3 DEF RaceLost, Expired, Calls
  <2> QED BY <1>5, <2>1, <2>4, <2>5
<1>9. CASE GraceFires(n)
  <2> DEFINE c == [call[n] EXCEPT !.timer = "spent",
                                  !.child = IF @ = "alive" THEN "failed" ELSE @]
  <2>1. c \in Calls /\ call' = [call EXCEPT ![n] = c] /\ call'[n] = c
    BY <1>2, <1>9 DEF GraceFires, Calls, Timers, Children, TypeOK
  <2>2. call[n].timer = "grace" /\ call[n].seen = {} /\ call[n].child # "none"
    BY <1>2, <1>9 DEF GraceFires, EventsFit
  <2>3. call[n].result = "pending"
    BY <1>2, <2>2 DEF EventsFit, Calls, Results, Failures
  <2>4. EventsFit(n)'
    BY <1>1, <1>2, <2>1, <2>2, <2>3 DEF EventsFit, Calls
  <2> QED BY <1>2, <1>5, <2>1, <2>3, <2>4 DEF Calls
<1>10. ASSUME NEW end \in {"ok", "failed", "blank"}, ToolEnds(n, end) PROVE SupInv'
  <2>1. kind = "tool" /\ call[n].child = "alive" /\ call[n].seen = {}
    BY <1>2, <1>10 DEF ToolEnds, EventsFit
  <2>2. CASE call[n].result = "pending"
    <3>1. PICK outcome \in ToolOutcomes(end) :
            call' = [call EXCEPT ![n].child = end, ![n].timer = "off", ![n].result = outcome]
      BY <1>10, <2>2 DEF ToolEnds
    <3> DEFINE c == [call[n] EXCEPT !.child = end, !.timer = "off", !.result = outcome]
    <3>2. outcome \in {"ok", "error"} /\ (outcome = "ok" => end \in {"ok", "blank"})
      BY DEF ToolOutcomes
    <3>3. c \in Calls /\ call' = [call EXCEPT ![n] = c] /\ call'[n] = c
      BY <1>2, <3>1, <3>2 DEF Calls, Timers, Children, Results, Failures, TypeOK
    <3>4. EventsFit(n)'
      BY <1>1, <1>2, <2>1, <3>2, <3>3 DEF EventsFit, Calls
    <3>5. ~call[n].timedOut
      BY <1>2, <2>1, <2>2 DEF EventsFit
    <3> QED BY <1>2, <1>5, <3>2, <3>3, <3>4, <3>5 DEF Calls
  <2>3. CASE call[n].result # "pending"
    <3> DEFINE c == [call[n] EXCEPT !.child = end]
    <3>1. c \in Calls /\ call' = [call EXCEPT ![n] = c] /\ call'[n] = c
      BY <1>2, <1>10, <2>3 DEF ToolEnds, Calls, Children, TypeOK
    <3>2. call[n].result \notin {"ok", "throws"}
      BY <1>2, <1>3, <2>1 DEF EventsFit
    <3>3. EventsFit(n)'
      BY <1>1, <1>2, <2>1, <3>1, <3>2 DEF EventsFit, Calls
    <3> QED BY <1>2, <1>3, <1>5, <3>1, <3>2, <3>3 DEF Calls
  <2> QED BY <2>2, <2>3
<1> QED BY <1>6, <1>7, <1>8, <1>9, <1>10

\* What a handler may resolve with.
LEMMA OutcomeFits ==
  ASSUME NEW c \in Calls, NEW e \in Events, NEW outcome \in Outcomes(c, e)
  PROVE  /\ outcome \in {"ok", "error", "timeout"}
         /\ outcome = "ok" => c.child = "ok" /\ ~c.timedOut
         /\ outcome = "timeout" => c.timedOut
BY DEF Outcomes, Events, Calls

\* An event of the child that is not of a tool.
LEMMA EventKeeps ==
  ASSUME SupInv, NEW n \in Attempts, ErrorFires(n) \/ CloseFires(n)
  PROVE  SupInv'
<1> USE DEF SupInv
<1>1. PICK e \in Events : Event(n, e)
  BY DEF ErrorFires, CloseFires, Events
<1>2. UNCHANGED <<kind, up, attempt, setup, flags, faults>>
  BY <1>1 DEF Event
<1>3. call[n] \in Calls /\ EventsFit(n)
  BY DEF TypeOK
<1>4. kind # "tool" /\ call[n].child \in {"unspawned", "ok", "failed"}
  <2>1. CASE ErrorFires(n)
    BY <1>3, <2>1 DEF ErrorFires, EventsFit
  <2>2. CASE CloseFires(n)
    BY <2>2 DEF CloseFires
  <2> QED BY <2>1, <2>2
<1>5. /\ attempt <= attempt' /\ n <= attempt'
  BY <1>2, <1>4, Made DEF NoCall, TypeOK
<1> DEFINE h == Handled(call[n], e)
<1>6. /\ h \in Calls /\ h.seen = call[n].seen \cup {e} /\ h.timer \in {"off", "spent"}
      /\ h.child = call[n].child /\ h.result = call[n].result /\ h.timedOut = call[n].timedOut
  BY <1>3 DEF Handled, Calls, Timers
<1>7. /\ h.result = "ok" => h.child = "ok" /\ ~h.timedOut
      /\ h.result = "timeout" => h.timedOut
  BY <1>4, <1>6 DEF ResultFits
<1>8. h.result # "throws"
  BY <1>3, <1>4, <1>6 DEF EventsFit
<1> HIDE DEF h
<1>9. CASE kind = "script"
  <2>1. PICK outcome \in Outcomes(call[n], e) :
          call' = [call EXCEPT ![n] = Resolved(h, outcome)] /\ UNCHANGED chain
    BY <1>1, <1>9 DEF Event, h
  <2>2. /\ outcome \in {"ok", "error", "timeout"}
        /\ outcome = "ok" => call[n].child = "ok" /\ ~call[n].timedOut
        /\ outcome = "timeout" => call[n].timedOut
    BY <1>3, <2>1, OutcomeFits
  <2> DEFINE c == Resolved(h, outcome)
  <2>3. /\ c \in Calls /\ c.seen = h.seen /\ c.timer = h.timer /\ c.child = h.child
        /\ c.result # "throws"
        /\ c.result = "ok" => c.child = "ok" /\ ~c.timedOut
        /\ c.result = "timeout" => c.timedOut
    BY <1>6, <1>7, <1>8, <2>2 DEF Resolved, Calls, Results, Failures
  <2> HIDE DEF c
  <2>4. call' = [call EXCEPT ![n] = c] /\ call'[n] = c
    BY <2>1 DEF c, TypeOK
  <2>5. EventsFit(n)'
    BY <1>2, <1>3, <1>4, <1>6, <2>1, <2>3, <2>4 DEF EventsFit
  <2>6. TypeOK'
    BY <1>2, <2>1, <2>3, <2>4 DEF TypeOK
  <2>7. kind' = kind /\ \A m \in Attempts \ {n} : chain'[m] = chain[m]
    BY <1>2, <2>1
  <2> HIDE DEF SupInv
  <2> QED BY <1>5, <2>3, <2>4, <2>5, <2>6, <2>7, OneCall
<1>10. CASE kind # "script"
  <2>1. call' = [call EXCEPT ![n] = h] /\ chain' = [chain EXCEPT ![n][e] = "waiting"]
    BY <1>1, <1>10 DEF Event, h
  <2>2. call'[n] = h
    BY <2>1 DEF TypeOK
  <2>3. /\ \A m \in Attempts \ {n} : chain'[m] = chain[m]
        /\ \A f \in Events \ {e} : chain'[n][f] = chain[n][f]
        /\ chain' \in [Attempts -> Chains]
    <3>1. chain[n] \in Chains /\ [chain[n] EXCEPT ![e] = "waiting"] \in Chains
      BY DEF TypeOK, Chains
    <3>2. chain' = [chain EXCEPT ![n] = [chain[n] EXCEPT ![e] = "waiting"]]
      BY <2>1
    <3> QED BY <3>1, <3>2 DEF TypeOK, Chains
  <2>4. EventsFit(n)'
    BY <1>2, <1>3, <1>4, <1>6, <1>8, <2>2, <2>3 DEF EventsFit
  <2>5. TypeOK'
    BY <1>2, <1>6, <2>1, <2>3 DEF TypeOK
  <2>6. kind' = kind /\ (h.result = "ok" => h.child \in {"ok", "blank"} /\ ~h.timedOut)
    BY <1>2, <1>7
  <2> HIDE DEF SupInv
  <2> QED BY <1>5, <1>6, <1>7, <2>1, <2>3, <2>4, <2>5, <2>6, OneCall
<1> QED BY <1>9, <1>10

\* The files of a CLI agent: no call changes before its handler's chain ends.
LEMMA FilesKeep ==
  ASSUME SupInv, NEW n \in Attempts,
         \/ MakesDir(n) \/ WritesPrompt(n) \/ WritesFlag(n)
         \/ \E e \in Events : Unlinks(n, e)
  PROVE  SupInv'
<1> USE DEF SupInv
<1>1. UNCHANGED <<kind, attempt, call>>
  BY DEF MakesDir, WritesPrompt, WritesFlag, Unlinks, SetsUp
<1>2. faults' \in 0 .. MaxFaults
  BY SupervisorAssumption DEF MakesDir, WritesPrompt, WritesFlag, Unlinks, MayFail, TypeOK
<1>3. flags' \in [Attempts -> SUBSET FlagStates]
  BY DEF MakesDir, WritesPrompt, WritesFlag, Unlinks, TypeOK, FlagStates
<1>4. CASE MakesDir(n) \/ WritesPrompt(n) \/ WritesFlag(n)
  <2>1. PICK s \in Setups : SetsUp(n, s)
    <3>1. setup[n] \in Setups /\ NoSetup \in Setups
      BY DEF TypeOK, NoSetup, Setups, Written
    <3>2. CASE MakesDir(n)
      BY <3>1, <3>2 DEF MakesDir, Setups, Written
    <3>3. CASE WritesPrompt(n)
      BY <3>1, <3>3 DEF WritesPrompt, Setups, Written
    <3>4. CASE WritesFlag(n)
      BY <3>1, <3>4 DEF WritesFlag, Setups, Written
    <3> QED BY <1>4, <3>2, <3>3, <3>4
  <2>2. up' \in BOOLEAN /\ setup' \in [Attempts -> Setups] /\ chain' = chain
    BY <2>1 DEF SetsUp, TypeOK
  <2>3. TypeOK'
    BY <1>1, <1>2, <1>3, <2>2 DEF TypeOK
  <2> QED BY <1>1, <2>2, <2>3 DEF FreshLater, ResultFits, EventsFit
<1>5. ASSUME NEW e \in Events, Unlinks(n, e) PROVE SupInv'
  <2>1. chain' = [chain EXCEPT ![n][e] = "unlinked"] /\ chain[n][e] # "none"
        /\ UNCHANGED <<up, setup>>
    BY <1>5 DEF Unlinks
  <2>2. chain[n] \in Chains /\ [chain[n] EXCEPT ![e] = "unlinked"] \in Chains
    BY DEF TypeOK, Chains
  <2>3. chain' \in [Attempts -> Chains]
    BY <2>1, <2>2 DEF TypeOK
  <2>4. \A m \in Attempts, f \in Events : chain'[m][f] # "none" => chain[m][f] # "none"
    BY <2>1, <2>2 DEF TypeOK, Chains
  <2>5. TypeOK'
    BY <1>1, <1>2, <1>3, <2>1, <2>3 DEF TypeOK
  <2> QED BY <1>1, <2>4, <2>5 DEF FreshLater, ResultFits, EventsFit
<1> QED BY <1>4, <1>5

\* The end of a handler's chain settles the promise.
LEMMA AnswerKeeps ==
  ASSUME SupInv, NEW n \in Attempts, NEW e \in Events, Answers(n, e)
  PROVE  SupInv'
<1> USE DEF SupInv
<1>1. /\ UNCHANGED <<kind, up, attempt, setup>>
      /\ chain' = [chain EXCEPT ![n][e] = "done"] /\ chain[n][e] # "none"
  BY DEF Answers
<1>2. PICK outcome \in Outcomes(call[n], e) :
        call' = [call EXCEPT ![n] = Resolved(call[n], outcome)]
  BY DEF Answers
<1>3. call[n] \in Calls /\ EventsFit(n) /\ chain[n] \in Chains
  BY DEF TypeOK
<1>4. e \in call[n].seen /\ kind # "tool" /\ call[n].timer \in {"off", "spent"}
      /\ call[n].child \in {"unspawned", "ok", "failed"} /\ call[n].result # "throws"
  BY <1>1, <1>3 DEF EventsFit
<1>5. /\ outcome \in {"ok", "error", "timeout"}
      /\ outcome = "ok" => call[n].child = "ok" /\ ~call[n].timedOut
      /\ outcome = "timeout" => call[n].timedOut
  BY <1>2, <1>3, OutcomeFits
<1> DEFINE c == Resolved(call[n], outcome)
<1>6. /\ c \in Calls /\ c.seen = call[n].seen /\ c.timer = call[n].timer
      /\ c.child = call[n].child /\ c.result # "throws"
      /\ c.result = "ok" => c.child = "ok" /\ ~c.timedOut
      /\ c.result = "timeout" => c.timedOut
  BY <1>3, <1>4, <1>5 DEF Resolved, Calls, Results, Failures, ResultFits
<1> HIDE DEF c
<1>7. call' = [call EXCEPT ![n] = c] /\ call'[n] = c
  BY <1>2 DEF c, TypeOK
<1>8. /\ chain' \in [Attempts -> Chains]
      /\ \A m \in Attempts \ {n} : chain'[m] = chain[m]
      /\ \A f \in Events \ {e} : chain'[n][f] = chain[n][f]
  <2>1. [chain[n] EXCEPT ![e] = "done"] \in Chains
    BY <1>3 DEF Chains
  <2>2. chain' = [chain EXCEPT ![n] = [chain[n] EXCEPT ![e] = "done"]]
    BY <1>1
  <2> QED BY <1>3, <2>1, <2>2 DEF TypeOK, Chains
<1>9. EventsFit(n)'
  BY <1>1, <1>3, <1>4, <1>6, <1>7, <1>8 DEF EventsFit
<1>10. TypeOK'
  <2>1. faults' \in 0 .. MaxFaults
    BY SupervisorAssumption DEF Answers, MayFail, TypeOK
  <2>2. flags' \in [Attempts -> SUBSET FlagStates]
    BY DEF Answers, TypeOK, FlagStates, Target
  <2> QED BY <1>1, <1>6, <1>7, <1>8, <2>1, <2>2 DEF TypeOK
<1>11. attempt <= attempt' /\ n <= attempt' /\ kind' = kind
  BY <1>1, <1>4, Made DEF NoCall, TypeOK
<1> HIDE DEF SupInv
<1> QED BY <1>6, <1>7, <1>8, <1>9, <1>10, <1>11, OneCall

\* Every step keeps the invariant.
LEMMA SupStep == SupInv /\ [Next]_vars => SupInv'
<1> SUFFICES ASSUME SupInv, [Next]_vars PROVE SupInv'
  OBVIOUS
<1>1. CASE UNCHANGED vars
  BY <1>1 DEF vars, cli, SupInv, TypeOK, FreshLater, ResultFits, EventsFit
<1>2. CASE Next
  BY <1>2, StartKeeps, ChildKeeps, EventKeeps, FilesKeep, AnswerKeeps DEF Next, EventLoop
<1> QED BY <1>1, <1>2

\* The inductive invariant.
LEMMA SupInvariant == Spec => []SupInv
<1> QED BY SupInit, SupStep, PTL DEF Spec

\* Calls, timers, promises and flags have their types.
THEOREM SupervisorTypeCorrect == Spec => []TypeOK
<1>1. SupInv => TypeOK
  BY DEF SupInv
<1> QED BY <1>1, SupInvariant, PTL

\* No order of exit, timeout and events makes a call report what its own child
\* did not do.
THEOREM ResultsOfOwnChild == Spec => []ResultFits
<1>1. SupInv => ResultFits
  BY DEF SupInv
<1> QED BY <1>1, SupInvariant, PTL

\* A settled call has no timer armed, and unless it is a tool no child alive.
THEOREM SettledLeavesNothing == Spec => []NothingLeft
<1>1. SupInv => NothingLeft
  <2> SUFFICES ASSUME SupInv, NEW n \in Attempts, call[n].result # "pending"
               PROVE  /\ call[n].timer \in {"off", "spent"}
                      /\ kind # "tool" => call[n].child # "alive"
    BY DEF NothingLeft
  <2>1. EventsFit(n) /\ call[n] \in Calls
    BY DEF SupInv, TypeOK
  <2> QED BY <2>1 DEF EventsFit, Calls, Results, Failures
<1> QED BY <1>1, SupInvariant, PTL
(***************************************************************************)
(* The state flags.                                                        *)
(***************************************************************************)
\* The flag a run must end with, and whether a handler has written it.
Want(c) == IF ~c.timedOut /\ c.child = "ok" THEN "completed" ELSE "failed"
Finished(h) == \E e \in Events : h[e] = "done"

\* The call, the files, the handlers and the flags of one run of a CLI agent
\* whose file operations all succeed.
FilesFit(c, s, h, f) ==
    /\ "error" \in c.seen => c.child = "unspawned"
    /\ c.child = "none" => s = NoSetup
    /\ s.dir # "ok" => s.prompt = "none" /\ s.flag = "none"
    /\ ~Rejected(s)
    /\ \A e \in Events : h[e] \in {"unlinked", "done"} => Ready(s) /\ "pending" \notin f
    /\ IF Finished(h) THEN f = {Want(c)} ELSE f \subseteq {"pending"}
    /\ c.result \in {"ok", "error", "timeout"} =>
           Finished(h) /\ (c.result = "ok" <=> Want(c) = "completed")

FlagFit(n) ==
    kind = "cli" /\ faults = 0 => FilesFit(call[n], setup[n], chain[n], flags[n])

FlagInv == SupInv /\ \A n \in Attempts : FlagFit(n)

\* It holds at the start: there are no flags.
LEMMA FlagInit == Init => FlagInv
<1> SUFFICES ASSUME Init PROVE FlagInv
  OBVIOUS
<1>1. \A n \in Attempts : /\ call[n] = NoCall /\ setup[n] = NoSetup /\ flags[n] = {}
                          /\ \A e \in Events : chain[n][e] = "none"
  BY DEF Init
<1> QED BY <1>1, SupInit
        DEF FlagInv, FlagFit, FilesFit, Finished, Rejected, NoCall, NoSetup

\* No file operation that failed is forgotten.
LEMMA FaultsStay == SupInv /\ Next /\ faults' = 0 => faults = 0
<1> SUFFICES ASSUME SupInv, Next PROVE faults' = faults \/ faults' = faults + 1
  BY DEF SupInv, TypeOK
<1> QED BY DEF Next, EventLoop, Starts, StartFails, Exits, Forks, Releases, ToolEnds,
               TimeoutFires, GraceFires, ErrorFires, CloseFires, Event, MakesDir,
               WritesPrompt, WritesFlag, Unlinks, Answers, MayFail, cli

\* A new call has written nothing yet.
LEMMA StartFiles ==
  ASSUME FlagInv, NEW n \in Attempts, Starts(n) \/ StartFails(n), kind = "cli", faults = 0
  PROVE  FilesFit(call'[n], setup'[n], chain'[n], flags'[n])
<1>1. n = attempt + 1 /\ call[n] = NoCall /\ UNCHANGED <<chain, flags>>
  BY SupervisorAssumption
     DEF Starts, StartFails, NextCall, FlagInv, SupInv, FreshLater, TypeOK, Attempts, cli
<1>2. /\ FilesFit(call[n], setup[n], chain[n], flags[n]) /\ EventsFit(n)
      /\ call \in [Attempts -> Calls] /\ setup \in [Attempts -> Setups]
  BY DEF FlagInv, FlagFit, SupInv, TypeOK
<1>3. setup[n] = NoSetup /\ ~Finished(chain[n]) /\ \A e \in Events : chain[n][e] = "none"
  BY <1>1, <1>2 DEF FilesFit, EventsFit, NoCall, Finished
<1>4. CASE Starts(n)
  <2>1. PICK child \in {"alive", "unspawned"} :
          call' = [call EXCEPT ![n].child = child, ![n].timer = "armed"]
    BY <1>4 DEF Starts
  <2>2. /\ call'[n].child = child /\ call'[n].seen = {} /\ call'[n].result = "pending"
        /\ setup'[n] = [NoSetup EXCEPT !.dir = "going"]
    BY <1>1, <1>2, <1>3, <1>4, <2>1 DEF Starts, NoCall
  <2> QED BY <1>1, <1>2, <1>3, <2>2 DEF FilesFit, NoSetup, Rejected
<1>5. CASE StartFails(n)
  <2>1. /\ call'[n].seen = {} /\ call'[n].result = "throws" /\ setup' = setup
    BY <1>1, <1>2, <1>5 DEF StartFails, NoCall, cli
  <2> QED BY <1>1, <1>2, <1>3, <2>1 DEF FilesFit, NoSetup
<1> QED BY <1>4, <1>5

\* The child and its timers change before any event has been seen.
LEMMA ChildFiles ==
  ASSUME FlagInv, NEW n \in Attempts, kind = "cli", faults = 0,
         \/ Forks(n) \/ Releases(n) \/ TimeoutFires(n) \/ GraceFires(n)
         \/ \E code \in {"ok", "failed"} : Exits(n, code)
  PROVE  FilesFit(call'[n], setup'[n], chain'[n], flags'[n])
<1>1. UNCHANGED <<setup, chain, flags>>
  BY DEF Forks, Releases, TimeoutFires, GraceFires, Exits, cli
<1>2. /\ FilesFit(call[n], setup[n], chain[n], flags[n]) /\ EventsFit(n)
      /\ call \in [Attempts -> Calls]
  BY DEF FlagInv, FlagFit, SupInv, TypeOK
<1>3. CASE Forks(n) \/ Releases(n)
  <2>1. /\ call'[n].child = call[n].child /\ call'[n].seen = call[n].seen
        /\ call'[n].result = call[n].result /\ call'[n].timedOut = call[n].timedOut
    BY <1>2, <1>3 DEF Forks, Releases, Calls
  <2> QED BY <1>1, <1>2, <2>1 DEF FilesFit, Want
<1>4. CASE \/ TimeoutFires(n) \/ GraceFires(n)
           \/ \E code \in {"ok", "failed"} : Exits(n, code)
  <2>1. call[n].seen = {} /\ call[n].child # "none"
    BY <1>2, <1>4 DEF TimeoutFires, GraceFires, Exits, EventsFit
  <2>2. ~Finished(chain[n]) /\ call[n].result \notin {"ok", "error", "timeout"}
    BY <1>2, <2>1 DEF FilesFit, EventsFit, Finished
  <2>3. /\ call'[n].seen = {} /\ call'[n].child # "none"
        /\ call'[n].result = call[n].result
    <3>1. CASE TimeoutFires(n)
      <4>1. call'[n] = Expired(call[n])
        BY <1>2, <3>1 DEF TimeoutFires
      <4> QED BY <1>2, <2>1, <4>1 DEF Expired, Calls
    <3>2. CASE GraceFires(n)
      BY <1>2, <2>1, <3>2 DEF GraceFires, Calls
    <3>3. ASSUME NEW code \in {"ok", "failed"}, Exits(n, code)
          PROVE  /\ call'[n].seen = {} /\ call'[n].child # "none"
                 /\ call'[n].result = call[n].result
      <4>1. call'[n] = [call[n] EXCEPT !.child = code]
        BY <1>2, <3>3 DEF Exits
      <4> QED BY <1>2, <2>1, <4>1 DEF Calls
    <3> QED BY <1>4, <3>1, <3>2, <3>3
  <2> QED BY <1>1, <1>2, <2>2, <2>3 DEF FilesFit
<1> QED BY <1>3, <1>4

\* A handler changes the events seen and the timer only.
LEMMA HandledKeeps ==
  ASSUME NEW c \in Calls, NEW e
  PROVE  LET h == Handled(c, e)
         IN  /\ h.seen = c.seen \cup {e} /\ h.child = c.child
             /\ h.result = c.result /\ h.timedOut = c.timedOut
BY DEF Handled, Calls

\* An event starts a chain; an error event means that there was no child.
LEMMA EventFiles ==
  ASSUME FlagInv, NEW n \in Attempts, kind = "cli", faults = 0, ErrorFires(n) \/ CloseFires(n)
  PROVE  FilesFit(call'[n], setup'[n], chain'[n], flags'[n])
<1>1. PICK e \in Events : /\ Event(n, e)
                          /\ e = "error" => call[n].child = "unspawned"
  BY DEF ErrorFires, CloseFires, Events
<1>2. /\ FilesFit(call[n], setup[n], chain[n], flags[n]) /\ EventsFit(n)
      /\ call \in [Attempts -> Calls] /\ chain \in [Attempts -> Chains]
  BY DEF FlagInv, FlagFit, SupInv, TypeOK
<1>3. /\ call'[n].seen = call[n].seen \cup {e} /\ call'[n].child = call[n].child
      /\ call'[n].result = call[n].result /\ call'[n].timedOut = call[n].timedOut
      /\ UNCHANGED <<setup, flags>>
  <2>1. call' = [call EXCEPT ![n] = Handled(call[n], e)] /\ UNCHANGED <<setup, flags>>
    BY <1>1 DEF Event
  <2>2. call'[n] = Handled(call[n], e) /\ call[n] \in Calls
    BY <1>2, <2>1
  <2> QED BY <2>1, <2>2, HandledKeeps
<1>4. chain[n][e] = "none" /\ e \notin call[n].seen
  BY <1>1, <1>2 DEF EventsFit, Event
<1>5. chain'[n] = [chain[n] EXCEPT ![e] = "waiting"]
  BY <1>1, <1>2 DEF Event
<1>6. /\ \A f \in Events : chain'[n][f] = "waiting" \/ chain'[n][f] = chain[n][f]
      /\ Finished(chain'[n]) <=> Finished(chain[n])
  BY <1>2, <1>4, <1>5 DEF Chains, Finished
<1>7. Want(call'[n]) = Want(call[n])
  BY <1>3 DEF Want
<1>8. call[n].child # "none"
  BY DEF ErrorFires, CloseFires
<1> QED BY <1>1, <1>2, <1>3, <1>6, <1>7, <1>8 DEF FilesFit

\* The directory, the prompt and the pending flag are written before any
\* handler goes on, and a handler removes the pending flag first.
LEMMA SetupFiles ==
  ASSUME FlagInv, NEW n \in Attempts, kind = "cli", faults = 0, faults' = 0,
         \/ MakesDir(n) \/ WritesPrompt(n) \/ WritesFlag(n)
  PROVE  FilesFit(call'[n], setup'[n], chain'[n], flags'[n])
<1> DEFINE s == setup[n]
<1>1. /\ FilesFit(call[n], s, chain[n], flags[n]) /\ setup \in [Attempts -> Setups]
      /\ flags \in [Attempts -> SUBSET FlagStates]
  BY DEF FlagInv, FlagFit, SupInv, TypeOK
<1>2. UNCHANGED <<call, chain>> /\ ~MayFail
  BY DEF MakesDir, WritesPrompt, WritesFlag, SetsUp, MayFail
<1>3. call[n].child # "none" /\ ~Ready(s)
  BY <1>1 DEF MakesDir, WritesPrompt, WritesFlag, FilesFit, NoSetup, Ready
<1>4. \A e \in Events : chain[n][e] \notin {"unlinked", "done"}
  BY <1>1, <1>3 DEF FilesFit
<1>5. /\ ~Finished(chain[n]) /\ flags[n] \subseteq {"pending"}
      /\ call[n].result \notin {"ok", "error", "timeout"}
  BY <1>1, <1>4 DEF FilesFit, Finished
<1>6. flags'[n] \subseteq {"pending"}
  BY <1>1, <1>2, <1>5 DEF MakesDir, WritesPrompt, WritesFlag
<1>7. /\ setup'[n].dir # "ok" => setup'[n].prompt = "none" /\ setup'[n].flag = "none"
      /\ ~Rejected(setup'[n])
  <2>1. CASE MakesDir(n)
    BY <1>1, <1>2, <2>1 DEF MakesDir, SetsUp, Rejected
  <2>2. CASE WritesPrompt(n)
    BY <1>1, <1>2, <2>2 DEF WritesPrompt, SetsUp, Rejected, FilesFit, Setups
  <2>3. CASE WritesFlag(n)
    BY <1>1, <1>2, <2>3 DEF WritesFlag, SetsUp, Rejected, FilesFit, Setups
  <2> QED BY <2>1, <2>2, <2>3
<1> QED BY <1>1, <1>2, <1>3, <1>4, <1>5, <1>6, <1>7 DEF FilesFit

\* A handler that moves the flag keeps what is said of the files of its call.
LEMMA UnlinkFiles ==
  ASSUME FlagInv, NEW n \in Attempts, NEW e \in Events, kind = "cli", faults = 0, faults' = 0,
         Unlinks(n, e)
  PROVE  FilesFit(call'[n], setup'[n], chain'[n], flags'[n])
<1>1. /\ FilesFit(call[n], setup[n], chain[n], flags[n]) /\ chain \in [Attempts -> Chains]
      /\ flags \in [Attempts -> SUBSET FlagStates]
  BY DEF FlagInv, FlagFit, SupInv, TypeOK
<1>2. /\ UNCHANGED <<call, setup>> /\ Ready(setup[n]) /\ chain[n][e] = "waiting"
      /\ chain'[n] = [chain[n] EXCEPT ![e] = "unlinked"]
      /\ flags'[n] = flags[n] \ {"pending"}
  BY <1>1 DEF Unlinks, MayFail
<1>3. Finished(chain'[n]) <=> Finished(chain[n])
  BY <1>1, <1>2 DEF Finished, Chains
<1>4. Want(call[n]) # "pending"
  BY DEF Want
<1> QED BY <1>1, <1>2, <1>3, <1>4 DEF FilesFit

\* A handler that ends has written the flag its result says.
LEMMA AnswerFiles ==
  ASSUME FlagInv, NEW n \in Attempts, NEW e \in Events, kind = "cli", faults = 0, faults' = 0,
         Answers(n, e)
  PROVE  FilesFit(call'[n], setup'[n], chain'[n], flags'[n])
<1>1. /\ FilesFit(call[n], setup[n], chain[n], flags[n]) /\ chain \in [Attempts -> Chains]
      /\ flags \in [Attempts -> SUBSET FlagStates] /\ call \in [Attempts -> Calls]
      /\ EventsFit(n)
  BY DEF FlagInv, FlagFit, SupInv, TypeOK
<1>2. /\ chain[n][e] = "unlinked" /\ UNCHANGED setup
      /\ chain'[n] = [chain[n] EXCEPT ![e] = "done"]
      /\ flags'[n] = flags[n] \cup {Target(call[n], e)}
  BY <1>1 DEF Answers, MayFail, FilesFit
<1>3. e \in call[n].seen
  BY <1>1, <1>2 DEF EventsFit
<1>4. Target(call[n], e) = Want(call[n])
  BY <1>1, <1>3 DEF FilesFit, Target, Want, Events
<1>5. PICK outcome \in Outcomes(call[n], e) : call'[n] = Resolved(call[n], outcome)
  BY <1>1 DEF Answers
<1>6. /\ outcome \in {"ok", "error", "timeout"}
      /\ outcome = "ok" <=> Want(call[n]) = "completed"
  BY <1>1, <1>3 DEF Outcomes, Want, FilesFit, Events
<1>7. /\ call'[n].seen = call[n].seen /\ call'[n].child = call[n].child
      /\ call'[n].timedOut = call[n].timedOut
      /\ call'[n].result \in {call[n].result, outcome}
      /\ Want(call'[n]) = Want(call[n])
  BY <1>1, <1>5 DEF Resolved, Calls, Want
<1>8. Finished(chain'[n]) /\ flags'[n] = {Want(call[n])} /\ Want(call[n]) # "pending"
  BY <1>1, <1>2, <1>4 DEF Finished, Chains, FilesFit, Want
<1>9. Ready(setup[n])
  BY <1>1, <1>2 DEF FilesFit
<1> QED BY <1>1, <1>2, <1>6, <1>7, <1>8, <1>9 DEF FilesFit

\* A step is of one call, and the others keep what they have.
LEMMA FlagStep == FlagInv /\ [Next]_vars => FlagInv'
<1> SUFFICES ASSUME FlagInv, [Next]_vars PROVE FlagInv'
  OBVIOUS
<1>1. SupInv'
  BY SupStep DEF FlagInv
<1>2. CASE UNCHANGED vars
  BY <1>1, <1>2 DEF vars, cli, FlagInv, FlagFit
<1>3. CASE Next
  <2> SUFFICES ASSUME NEW m \in Attempts, kind' = "cli", faults' = 0
               PROVE  FilesFit(call'[m], setup'[m], chain'[m], flags'[m])
    BY <1>1 DEF FlagInv, FlagFit
  <2>1. kind = "cli" /\ faults = 0
    <3>1. kind' = kind
      BY <1>3 DEF Next, EventLoop, Starts, StartFails, Exits, Forks, Releases, ToolEnds,
                  TimeoutFires, GraceFires, ErrorFires, CloseFires, Event, MakesDir,
                  WritesPrompt, WritesFlag, SetsUp, Unlinks, Answers
    <3> QED BY <1>3, <3>1, FaultsStay DEF FlagInv
  <2>2. FilesFit(call[m], setup[m], chain[m], flags[m])
    BY <2>1 DEF FlagInv, FlagFit
  <2>3. PICK n \in Attempts :
          \/ Starts(n) \/ StartFails(n)
          \/ Forks(n) \/ Releases(n) \/ TimeoutFires(n) \/ GraceFires(n)
          \/ \E code \in {"ok", "failed"} : Exits(n, code)
          \/ ErrorFires(n) \/ CloseFires(n)
          \/ MakesDir(n) \/ WritesPrompt(n) \/ WritesFlag(n)
          \/ \E e \in Events : Unlinks(n, e) \/ Answers(n, e)
    BY <1>3, <2>1 DEF Next, EventLoop, ToolEnds
  <2>4. CASE m = n
    BY <2>1, <2>3, <2>4, StartFiles, ChildFiles, EventFiles, SetupFiles, UnlinkFiles, AnswerFiles
  <2>5. CASE m # n
    <3>1. /\ call'[m] = call[m] /\ setup'[m] = setup[m]
          /\ chain'[m] = chain[m] /\ flags'[m] = flags[m]
      <4>1. /\ call \in [Attempts -> Calls] /\ setup \in [Attempts -> Setups]
            /\ chain \in [Attempts -> Chains] /\ flags \in [Attempts -> SUBSET FlagStates]
        BY DEF FlagInv, SupInv, TypeOK
      <4>2. CASE Starts(n) \/ StartFails(n)
        BY <2>5, <4>1, <4>2 DEF Starts, StartFails, cli
      <4>3. CASE \/ Forks(n) \/ Releases(n) \/ TimeoutFires(n) \/ GraceFires(n)
                 \/ \E code \in {"ok", "failed"} : Exits(n, code)
        BY <2>5, <4>1, <4>3 DEF Forks, Releases, TimeoutFires, GraceFires, Exits, cli
      <4>4. CASE ErrorFires(n) \/ CloseFires(n)
        BY <2>5, <4>1, <4>4 DEF ErrorFires, CloseFires, Event
      <4>5. CASE MakesDir(n) \/ WritesPrompt(n) \/ WritesFlag(n)
        BY <2>5, <4>1, <4>5 DEF MakesDir, WritesPrompt, WritesFlag, SetsUp
      <4>6. CASE \E e \in Events : Unlinks(n, e) \/ Answers(n, e)
        BY <2>5, <4>1, <4>6 DEF Unlinks, Answers
      <4> QED BY <2>3, <4>2, <4>3, <4>4, <4>5, <4>6
    <3> QED BY <2>2, <3>1
  <2> QED BY <2>4, <2>5
<1> QED BY <1>2, <1>3

\* Whatever the order of the events, the files and the timers, the flags a
\* settled run of a CLI agent leaves are exactly the one its result says.
THEOREM FlagsTellResult == Spec => []FlagsTell
<1>1. FlagInv => FlagsTell
  BY DEF FlagInv, FlagFit, FlagsTell, FilesFit, Want
<1>2. Spec => []FlagInv
  BY FlagInit, FlagStep, PTL DEF Spec
<1> QED BY <1>1, <1>2, PTL
=============================================================================
