----------------------- MODULE PauseControllerProofs -----------------------
(***************************************************************************)
(* Proofs about the ways out of a pause, for any number of replies, scans, *)
(* failing writes and crashes: type correctness, that task.json is whole   *)
(* while no two calls use one temporary file, and that the guard keeps the *)
(* one reply it accepted.                                                  *)
(***************************************************************************)
EXTENDS PauseControllerProps, TLAPS

Busy == {"changed", "enqueueing", "enqueued", "logged", "saving"}

Persisting == {"enqueueing", "saving"}

\* A call has a temporary file, and may have it open, while it persists.
TypeInv ==
    /\ TypeOK
    /\ \A c \in Callers : at[c] \in Persisting <=> time[c] \in Times
    /\ \A c \in Callers : open[c] # None => at[c] \in Persisting

\* The pause is a record.
LEMMA PausedType == Paused \in Records
BY DEF Paused, Records

\* The types hold at the start.
LEMMA TypeInit == Init => TypeInv
<1> SUFFICES ASSUME Init PROVE TypeInv OBVIOUS
<1>1. object \in [Callers -> Records] /\ disk \in Records
    BY PausedType DEF Init
<1>2. at \in [Callers -> Places \cup Ends]
    BY DEF Init, Places
<1>3. /\ time \in [Callers -> Times \cup {None}]
      /\ open \in [Callers -> Files \cup {None}]
      /\ tmp \in [Times -> Texts \cup {None}]
      /\ disk \in Texts
    BY <1>1 DEF Init, Texts
<1>4. journal \in Seq(Entries)
    <2>1. journal = <<>>
        BY DEF Init
    <2> QED BY <2>1
<1>7. raced \in BOOLEAN /\ shared \in BOOLEAN /\ collided \in BOOLEAN
    BY ZenonT(30) DEF Init
<1>5. faults \in 0 .. MaxFaults /\ crashes \in 0 .. MaxCrashes
    BY PauseAssumption DEF Init
<1>6. \A c \in Callers : at[c] \notin Persisting /\ time[c] \notin Times /\ open[c] = None
    BY PauseAssumption DEF Init, Persisting
<1> QED BY <1>1, <1>2, <1>3, <1>4, <1>5, <1>6, <1>7 DEF TypeInv, TypeOK

\* What resumeTask makes of an object is a record.
LEMMA ResumedType ==
    ASSUME TypeOK, NEW c \in Replies
    PROVE  Resumed(c) \in Records
<1>1. object[c].queue \in Seq(Replies)
    BY DEF TypeOK, Records, Callers
<1> QED BY <1>1 DEF Resumed, Records

\* So is what checkTimeouts makes of it.
LEMMA WaitingType ==
    ASSUME TypeOK, NEW c \in Callers
    PROVE  [object[c] EXCEPT !.status = "waiting"] \in Records
BY DEF TypeOK, Records

\* The journal with one more entry is a journal.
LEMMA LoggedType ==
    ASSUME TypeOK, NEW c \in Callers, NEW type \in {"task_resumed", "task_waiting"}
    PROVE  Append(journal, [type |-> type, by |-> c]) \in Seq(Entries)
<1>1. [type |-> type, by |-> c] \in Entries
    BY DEF Entries
<1> QED BY <1>1 DEF TypeOK

\* The objects stay records when one of them changes.
LEMMA ChangesType ==
    ASSUME TypeOK, NEW c \in Callers, NEW r \in Records, Changes(c, r)
    PROVE  object' \in [Callers -> Records]
BY DEF TypeOK, Changes

\* What a write leaves is a text.
LEMMA WrittenType ==
    ASSUME NEW old, NEW text \in Records
    PROVE  Written(old, text) \subseteq Texts
BY DEF Written, Texts

\* An open file is not none.
LEMMA OpenedIsFile ==
    ASSUME TypeOK, NEW c \in Callers, NEW t \in Times
    PROVE  /\ [where |-> t, text |-> object[c]] \in Files
           /\ [where |-> t, text |-> object[c]] # None
<1>1. [where |-> t, text |-> object[c]] \in Files
    BY DEF TypeOK, Files
<1> QED BY <1>1, PauseAssumption

\* Every step keeps the types.
LEMMA TypeStep == TypeInv /\ [Next]_vars => TypeInv'
<1> SUFFICES ASSUME TypeInv, [Next]_vars PROVE TypeInv' OBVIOUS
<1>0. TypeOK
    BY DEF TypeInv
<1>a. Persisting \subseteq Places /\ Persisting \cap Ends = {}
    BY DEF Persisting, Places, Ends
<1>1. ASSUME NEW c \in Callers, Load(c) PROVE TypeInv'
    <2>1. object' \in [Callers -> Records] /\ raced' \in BOOLEAN
        <3>1. CASE shared \/ disk \notin Records
            BY <1>0, <1>1, <3>1 DEF Load, TypeOK
        <3>2. CASE ~shared /\ disk \in Records
            BY <1>0, <1>1, <3>2, ChangesType DEF Load, TypeOK
        <3> QED BY <3>1, <3>2
    <2>2. PICK place \in {"loaded", "threw"} : Goes(c, place)
        BY <1>1 DEF Load
    <2>3. at[c] = "idle" /\ UNCHANGED <<shared, files, journal, faults, crashes>>
        BY <1>1 DEF Load
    <2> QED BY <2>1, <2>2, <2>3 DEF TypeInv, TypeOK, Goes, Places, Ends, Persisting, files
<1>2. ASSUME NEW c \in Callers, Resume(c) PROVE TypeInv'
    <2>1. object' \in [Callers -> Records]
        BY <1>0, <1>2, ChangesType, ResumedType DEF Resume
    <2> QED BY <1>2, <2>1 DEF TypeInv, TypeOK, Resume, Goes, Places, Persisting, files
<1>3. ASSUME NEW c \in Callers, Refuse(c) \/ Pass(c) PROVE TypeInv'
    BY <1>3 DEF TypeInv, TypeOK, Refuse, Pass, Goes, Ends, Persisting, files
<1>4. ASSUME NEW c \in Callers, LogResumed(c) PROVE TypeInv'
    <2>1. journal' \in Seq(Entries)
        BY <1>0, <1>4, LoggedType DEF LogResumed
    <2> QED BY <1>4, <2>1 DEF TypeInv, TypeOK, LogResumed, Goes, Places, Persisting, files
<1>5. ASSUME NEW c \in Callers, Expire(c) \/ ExpireThrows(c) PROVE TypeInv'
    <2>1. object' \in [Callers -> Records]
        BY <1>0, <1>5, ChangesType, WaitingType DEF Expire, ExpireThrows
    <2>2. journal' \in Seq(Entries)
        BY <1>0, <1>5, LoggedType DEF Expire, ExpireThrows, TypeOK
    <2>3. faults' \in 0 .. MaxFaults
        BY <1>0, <1>5, PauseAssumption DEF Expire, ExpireThrows, TypeOK
    <2>4. at[c] = "loaded" /\ UNCHANGED <<shared, files, raced, crashes>>
        BY <1>5 DEF Expire, ExpireThrows
    <2>5. PICK place \in {"logged", "threw"} : Goes(c, place)
        BY <1>5 DEF Expire, ExpireThrows
    <2> QED BY <2>1, <2>2, <2>3, <2>4, <2>5 DEF TypeInv, TypeOK, Goes, Places, Ends, Persisting, files
<1>6. ASSUME NEW c \in Callers, NEW t \in Times, OpenTmp(c, t) PROVE TypeInv'
    <2>1. PICK place \in Persisting : Goes(c, place)
        BY <1>6 DEF OpenTmp, Persisting
    <2>2. [where |-> t, text |-> object[c]] \in Files
        BY <1>0, OpenedIsFile
    <2>3. open' \in [Callers -> Files \cup {None}]
        BY <1>0, <1>6, <2>2 DEF OpenTmp, TypeOK
    <2>4. tmp' \in [Times -> Texts \cup {None}] /\ time' \in [Callers -> Times \cup {None}]
        BY <1>0, <1>6 DEF OpenTmp, TypeOK, Texts
    <2>5. at' \in [Callers -> Places \cup Ends]
          /\ \A d \in Callers : at'[d] = IF d = c THEN place ELSE at[d]
        BY <1>0, <1>a, <2>1 DEF Goes, TypeOK
    <2>6. \A d \in Callers : /\ time'[d] = IF d = c THEN t ELSE time[d]
                             /\ d # c => open'[d] = open[d]
        BY <1>0, <1>6 DEF OpenTmp, TypeOK
    <2>7. collided' \in BOOLEAN
        BY <1>0, <1>6 DEF OpenTmp, TypeOK
    <2>8. UNCHANGED <<shared, object, disk, journal, raced, faults, crashes>>
        BY <1>6 DEF OpenTmp
    <2>9. TypeOK'
        BY <1>0, <2>3, <2>4, <2>5, <2>7, <2>8 DEF TypeOK
    <2> QED BY <2>1, <2>5, <2>6, <2>9 DEF TypeInv
<1>7. ASSUME NEW c \in Callers, WriteTmp(c) PROVE TypeInv'
    <2>1. open[c] \in Files /\ open[c].text \in Records
        BY <1>0, <1>7 DEF WriteTmp, TypeOK, Files
    <2>2. disk' \in Texts
        <3>1. CASE open[c].where = Json
            BY <1>7, <2>1, <3>1, WrittenType DEF WriteTmp
        <3>2. CASE open[c].where # Json
            BY <1>0, <1>7, <3>2 DEF WriteTmp, TypeOK
        <3> QED BY <3>1, <3>2
    <2>3. tmp' \in [Times -> Texts \cup {None}]
        <3>1. CASE open[c].where \in Times
            <4>1. PICK text \in Written(tmp[open[c].where], open[c].text) :
                      tmp' = [tmp EXCEPT ![open[c].where] = text]
                BY <1>7, <3>1 DEF WriteTmp
            <4>2. text \in Texts
                BY <2>1, WrittenType
            <4> QED BY <1>0, <4>1, <4>2 DEF TypeOK
        <3>2. CASE open[c].where \notin Times
            BY <1>0, <1>7, <3>2 DEF WriteTmp, TypeOK
        <3> QED BY <3>1, <3>2
    <2>4. open' = [open EXCEPT ![c] = None]
          /\ UNCHANGED <<shared, object, at, time, collided, journal, raced, faults, crashes>>
        BY <1>7 DEF WriteTmp
    <2> QED BY <1>0, <2>2, <2>3, <2>4 DEF TypeInv, TypeOK
<1>8. ASSUME NEW c \in Callers, Rename(c) PROVE TypeInv'
    <2>1. /\ at[c] \in Persisting /\ open[c] = None
          /\ time' = [time EXCEPT ![c] = None]
          /\ UNCHANGED <<shared, object, collided, journal, raced, faults, crashes>>
        BY <1>8 DEF Rename, Persisting
    <2>2. time[c] \in Times
        BY <2>1 DEF TypeInv
    <2>3. PICK place \in (Places \cup Ends) \ Persisting : Goes(c, place)
        <3>1. After(c) \in (Places \cup Ends) \ Persisting
            BY <2>1 DEF After, Places, Ends, Persisting
        <3>2. "threw" \in (Places \cup Ends) \ Persisting
            BY DEF Ends, Persisting
        <3> QED BY <1>8, <3>1, <3>2 DEF Rename
    <2>4. disk' \in Texts /\ tmp' \in [Times -> Texts \cup {None}]
        BY <1>0, <1>8, <2>2 DEF Rename, TypeOK
    <2>5. /\ open' \in [Callers -> Files \cup {None}]
          /\ \A d \in Callers : open'[d] # None => open[d] # None
        <3>1. CASE tmp[time[c]] = None
            BY <1>0, <1>8, <3>1 DEF Rename, TypeOK
        <3>2. CASE tmp[time[c]] # None
            <4>1. open' = [d \in Callers |->
                             IF open[d] = None THEN None
                             ELSE [open[d] EXCEPT !.where = Moved(@, time[c])]]
                BY <1>8, <3>2 DEF Rename
            <4>2. ASSUME NEW d \in Callers, open[d] # None
                  PROVE  [open[d] EXCEPT !.where = Moved(@, time[c])]
                           \in Files
                <5>1. open[d] \in Files
                    BY <1>0, <4>2 DEF TypeOK
                <5>2. Moved(open[d].where, time[c]) \in Times \cup {Json, Gone}
                    BY <5>1 DEF Moved, Files
                <5> QED BY <5>1, <5>2 DEF Files
            <4> QED BY <4>1, <4>2
        <3> QED BY <3>1, <3>2
    <2>6. at' \in [Callers -> Places \cup Ends]
          /\ \A d \in Callers : at'[d] = IF d = c THEN place ELSE at[d]
        BY <1>0, <2>3 DEF Goes, TypeOK
    <2>7. time' \in [Callers -> Times \cup {None}]
          /\ \A d \in Callers : time'[d] = IF d = c THEN None ELSE time[d]
        BY <1>0, <2>1 DEF TypeOK
    <2>8. TypeOK'
        BY <1>0, <2>1, <2>4, <2>5, <2>6, <2>7 DEF TypeOK
    <2> QED BY <2>1, <2>3, <2>5, <2>6, <2>7, <2>8, PauseAssumption DEF TypeInv
<1>9. ASSUME NEW c \in Callers, Throw(c) PROVE TypeInv'
    BY <1>9, PauseAssumption DEF TypeInv, TypeOK, Throw, Goes, Ends, Persisting
<1>10. CASE Crash
    <2>1. at' \in [Callers -> Places \cup Ends]
          /\ \A c \in Callers : at'[c] \notin Persisting
        BY <1>0, <1>10 DEF Crash, TypeOK, UnderWay, Ends, Persisting
    <2>2. object' \in [Callers -> Records]
        BY <1>0, <1>10 DEF Crash, TypeOK
    <2> QED BY <1>10, <2>1, <2>2, PauseAssumption DEF TypeInv, TypeOK, Crash
<1>11. CASE UNCHANGED vars
    BY <1>11 DEF TypeInv, TypeOK, vars, files
<1> QED BY <1>1, <1>2, <1>3, <1>4, <1>5, <1>6, <1>7, <1>8, <1>9, <1>10, <1>11 DEF Next, Step

(***************************************************************************)
(* The calls keep their types: in particular an object is always a record, *)
(* whatever task.json holds when it is loaded, and a call that persists    *)
(* knows the name of its temporary file.                                   *)
(***************************************************************************)
THEOREM TypeCorrect == Spec => []TypeOK
<1>1. TypeInv => TypeOK
    BY DEF TypeInv
<1> QED BY <1>1, TypeInit, TypeStep, PTL DEF Spec

(***************************************************************************)
(* The file.  Unless two calls have used one temporary file, each that     *)
(* persists owns the file of its name: it is empty while the call has it   *)
(* open and a record after that, and so is what it renames.                *)
(***************************************************************************)
Owns(c) ==
    /\ \A d \in Callers : time[d] = time[c] => d = c
    /\ open[c] # None => open[c].where = time[c] /\ tmp[time[c]] = Empty
    /\ open[c] = None => tmp[time[c]] \in Records

WholeInv ==
    ~collided =>
        /\ disk \in Records
        /\ \A c \in Callers : time[c] \in Times => Owns(c)

\* It holds at the start: nobody saves.
LEMMA WholeInit == Init => WholeInv
BY PausedType, PauseAssumption DEF Init, WholeInv

\* Nobody else has the file that its owner has open, writes or renames.
LEMMA WholeStep == TypeInv /\ WholeInv /\ [Next]_vars => WholeInv'
<1> SUFFICES ASSUME TypeInv, WholeInv, [Next]_vars, ~collided'
             PROVE  /\ disk' \in Records
                    /\ \A d \in Callers : time'[d] \in Times => Owns(d)'
    BY DEF WholeInv
<1>0. TypeOK
    BY DEF TypeInv
<1>a. ~collided
    BY <1>0 DEF Next, Step, Load, Resume, Refuse, LogResumed, Expire, ExpireThrows,
                Pass, OpenTmp, WriteTmp, Rename, Throw, Crash, vars, files, TypeOK
<1>b. disk \in Records /\ \A d \in Callers : time[d] \in Times => Owns(d)
    BY <1>a DEF WholeInv
<1>c. ASSUME UNCHANGED files
      PROVE  disk' \in Records /\ \A d \in Callers : time'[d] \in Times => Owns(d)'
    BY <1>b, <1>c DEF files, Owns
<1>1. ASSUME NEW c \in Callers,
             \/ Load(c) \/ Resume(c) \/ Refuse(c) \/ LogResumed(c)
             \/ Expire(c) \/ ExpireThrows(c) \/ Pass(c)
      PROVE  disk' \in Records /\ \A d \in Callers : time'[d] \in Times => Owns(d)'
    <2>1. UNCHANGED files
        BY <1>1 DEF Load, Resume, Refuse, LogResumed, Expire, ExpireThrows, Pass
    <2> QED BY <1>c, <2>1
<1>2. ASSUME NEW c \in Callers, NEW t \in Times, OpenTmp(c, t)
      PROVE  disk' \in Records /\ \A d \in Callers : time'[d] \in Times => Owns(d)'
    <2>1. \A d \in Callers : time[d] # t
        BY <1>0, <1>2 DEF OpenTmp, TypeOK
    <2>2. \A d \in Callers : time'[d] = IF d = c THEN t ELSE time[d]
        BY <1>0, <1>2 DEF OpenTmp, TypeOK
    <2>3. \A d \in Callers : open'[d] = IF d = c THEN [where |-> t, text |-> object[c]] ELSE open[d]
        BY <1>0, <1>2 DEF OpenTmp, TypeOK
    <2>4. \A u \in Times : tmp'[u] = IF u = t THEN Empty ELSE tmp[u]
        BY <1>0, <1>2 DEF OpenTmp, TypeOK
    <2>5. Owns(c)'
        <3>1. open'[c] # None /\ open'[c].where = t
            BY <1>0, <2>3, OpenedIsFile
        <3>2. \A d \in Callers : time'[d] = t => d = c
            BY <2>1, <2>2
        <3> QED BY <2>2, <2>4, <3>1, <3>2 DEF Owns
    <2>6. ASSUME NEW d \in Callers, d # c, time'[d] \in Times PROVE Owns(d)'
        <3>1. time'[d] = time[d] /\ time[d] # t /\ open'[d] = open[d] /\ tmp'[time[d]] = tmp[time[d]]
            BY <2>1, <2>2, <2>3, <2>4, <2>6
        <3>2. Owns(d)
            BY <1>b, <2>6, <3>1
        <3> QED BY <2>2, <3>1, <3>2 DEF Owns
    <2>7. disk' = disk
        BY <1>2 DEF OpenTmp
    <2> QED BY <1>b, <2>5, <2>6, <2>7
<1>3. ASSUME NEW c \in Callers, WriteTmp(c)
      PROVE  disk' \in Records /\ \A d \in Callers : time'[d] \in Times => Owns(d)'
    <2>1. time[c] \in Times /\ open[c] # None
        BY <1>3 DEF WriteTmp, TypeInv
    <2>2. Owns(c) /\ open[c].where = time[c] /\ tmp[time[c]] = Empty
        BY <1>b, <2>1 DEF Owns
    <2>3. time[c] # Json
        BY <2>1, PauseAssumption
    <2>4. disk' = disk
        BY <1>3, <2>2, <2>3 DEF WriteTmp
    <2>5. tmp' = [tmp EXCEPT ![time[c]] = open[c].text]
        <3>1. Written(tmp[open[c].where], open[c].text) = {open[c].text}
            BY <2>2 DEF Written
        <3>2. PICK text \in Written(tmp[open[c].where], open[c].text) :
                  tmp' = [tmp EXCEPT ![open[c].where] = text]
            BY <1>3, <2>1, <2>2 DEF WriteTmp
        <3> QED BY <2>2, <3>1, <3>2
    <2>6. open[c].text \in Records
        BY <1>0, <2>1 DEF TypeOK, Files
    <2>7. open' = [open EXCEPT ![c] = None] /\ time' = time
        BY <1>3 DEF WriteTmp
    <2>8. Owns(c)'
        BY <1>0, <2>1, <2>2, <2>5, <2>6, <2>7 DEF Owns, TypeOK
    <2>9. ASSUME NEW d \in Callers, d # c, time'[d] \in Times PROVE Owns(d)'
        <3>1. Owns(d) /\ time[d] # time[c]
            BY <1>b, <2>2, <2>7, <2>9 DEF Owns
        <3>2. open'[d] = open[d] /\ tmp'[time[d]] = tmp[time[d]]
            BY <1>0, <2>5, <2>7, <2>9, <3>1 DEF TypeOK
        <3> QED BY <2>7, <3>1, <3>2 DEF Owns
    <2> QED BY <1>b, <2>4, <2>8, <2>9
<1>4. ASSUME NEW c \in Callers, Rename(c)
      PROVE  disk' \in Records /\ \A d \in Callers : time'[d] \in Times => Owns(d)'
    <2>1. time[c] \in Times /\ open[c] = None
        BY <1>4 DEF Rename, TypeInv, Persisting
    <2>2. Owns(c) /\ tmp[time[c]] \in Records
        BY <1>b, <2>1 DEF Owns
    <2>3. tmp[time[c]] # None
        BY <2>2, PauseAssumption DEF Texts
    <2>4. /\ disk' = tmp[time[c]]
          /\ tmp' = [tmp EXCEPT ![time[c]] = None]
          /\ open' = [d \in Callers |->
                         IF open[d] = None THEN None
                         ELSE [open[d] EXCEPT !.where = Moved(@, time[c])]]
          /\ time' = [time EXCEPT ![c] = None]
        BY <1>4, <2>3 DEF Rename
    <2>5. \A d \in Callers : time'[d] = IF d = c THEN None ELSE time[d]
        BY <1>0, <2>4 DEF TypeOK
    <2>6. ASSUME NEW d \in Callers, time'[d] \in Times PROVE Owns(d)'
        <3>1. d # c /\ time[d] \in Times /\ Owns(d) /\ time[d] # time[c] /\ time'[d] = time[d]
            BY <1>b, <2>2, <2>5, <2>6, PauseAssumption DEF Owns
        <3>2. tmp'[time[d]] = tmp[time[d]]
            BY <1>0, <2>4, <3>1 DEF TypeOK
        <3>3. open'[d] = open[d]
            <4>1. CASE open[d] = None
                BY <2>4, <4>1
            <4>2. CASE open[d] # None
                <5>1. open[d] \in Files
                    BY <1>0, <4>2 DEF TypeOK
                <5>2. Moved(open[d].where, time[c]) = open[d].where
                    BY <3>1, <4>2, PauseAssumption DEF Owns, Moved
                <5> QED BY <2>4, <4>2, <5>1, <5>2 DEF Files
            <4> QED BY <4>1, <4>2
        <3>4. \A e \in Callers : time'[e] = time'[d] => e = d
            BY <2>5, <3>1, PauseAssumption DEF Owns
        <3> QED BY <3>1, <3>2, <3>3, <3>4 DEF Owns
    <2> QED BY <2>2, <2>4, <2>6
<1>5. ASSUME NEW c \in Callers, Throw(c)
      PROVE  disk' \in Records /\ \A d \in Callers : time'[d] \in Times => Owns(d)'
    <2>1. /\ disk' = disk /\ tmp' = tmp
          /\ \A d \in Callers : /\ time'[d] = IF d = c THEN None ELSE time[d]
                                /\ d # c => open'[d] = open[d]
        BY <1>0, <1>5 DEF Throw, TypeOK
    <2>2. ASSUME NEW d \in Callers, time'[d] \in Times PROVE Owns(d)'
        <3>1. d # c /\ time[d] \in Times /\ Owns(d)
            BY <1>b, <2>1, <2>2, PauseAssumption
        <3> QED BY <2>1, <3>1, PauseAssumption DEF Owns
    <2> QED BY <1>b, <2>1, <2>2
<1>6. CASE Crash
    BY <1>b, <1>6, PauseAssumption DEF Crash
<1>7. CASE UNCHANGED vars
    BY <1>c, <1>7 DEF vars
<1> QED BY <1>1, <1>2, <1>3, <1>4, <1>5, <1>6, <1>7 DEF Next, Step

(***************************************************************************)
(* However calls, failures and crashes come, task.json is a whole record   *)
(* as long as no two persistTasks use one temporary file at a time.        *)
(***************************************************************************)
THEOREM FileIsWhole == Spec => []WholeFile
<1>1. WholeInv => WholeFile
    BY DEF WholeInv, WholeFile
<1> QED BY <1>1, TypeInit, TypeStep, WholeInit, WholeStep, PTL DEF Spec

(***************************************************************************)
(* The guard.  Unless a caller loaded its own copy behind another one's    *)
(* back, at most one call is past its guard at a time, all it writes is    *)
(* one record of its own, and that goes over a pause or over itself.       *)
(***************************************************************************)
Mine(c) ==
    IF c \in Replies THEN [status |-> "active", human |-> c, queue |-> <<c>>]
    ELSE [status |-> "waiting", human |-> None, queue |-> <<>>]

\* What the objects are.
ObjectsInv ==
    /\ \A c \in Callers : at[c] \in Busy => object[c] = Mine(c)
    /\ \A c, d \in Callers : at[c] \in Busy /\ at[d] \in Busy => c = d
    /\ shared =>
           /\ \A c, d \in Callers : object[c] = object[d]
           /\ \A c \in Callers : object[c].status = "paused" =>
                  object[c] = Paused /\ disk = Paused
    /\ ~shared =>
           /\ \A c \in Callers : at[c] = "loaded" => object[c] = disk
           /\ \A c, d \in UnderWay : c = d

\* How far a call past its guard has come, on disk.
DiskInv ==
    /\ disk = Paused \/ \E c \in Callers : disk = Mine(c)
    /\ \A c \in Callers :
           /\ at[c] \in {"changed", "enqueueing", "enqueued"} => c \in Replies
           /\ at[c] \in {"changed", "enqueueing"} => disk = Paused
           /\ at[c] \in {"logged", "saving"} /\ c \in Scans => disk = Paused
           /\ at[c] \in {"enqueued", "logged", "saving"} /\ c \in Replies => disk = Mine(c)
           /\ at[c] \in Persisting /\ open[c] # None =>
                  open[c] = [where |-> time[c], text |-> Mine(c)] /\ tmp[time[c]] = Empty
           /\ at[c] \in Persisting /\ open[c] = None => tmp[time[c]] = Mine(c)

\* What was answered and logged.
AnswersInv ==
    /\ \A c \in Callers : at[c] = "accepted" => c \in Replies /\ disk = Mine(c)
    /\ \A c \in Logged("task_resumed") : c \in Replies /\ disk = Mine(c)
    /\ \A c \in Scans : at[c] \in Busy => Logged("task_waiting") # {}
    /\ disk.status = "waiting" => Logged("task_waiting") # {}

GuardInv == ~raced => ObjectsInv /\ DiskInv /\ AnswersInv

\* A caller's own record is a record that is not paused.
LEMMA MineType == \A c \in Callers : Mine(c) \in Records /\ Mine(c) # Paused /\ Mine(c).status # "paused"
<1> TAKE c \in Callers
<1>1. CASE c \in Replies
    <2>1. <<c>> \in Seq(Replies)
        BY <1>1
    <2> QED BY <1>1, <2>1 DEF Mine, Records, Paused
<1>2. CASE c \notin Replies
    <2>1. <<>> \in Seq(Replies)
        OBVIOUS
    <2> QED BY <1>2, <2>1 DEF Mine, Records, Paused
<1> QED BY <1>1, <1>2

\* One reply is one record: two of them never look the same.
LEMMA MineDiffers ==
    /\ \A c \in Replies : Mine(c).status = "active" /\ Mine(c).human = c
    /\ \A c \in Scans : Mine(c).status = "waiting"
BY PauseAssumption DEF Mine

\* A reply that passes the guard makes its own record.
LEMMA ResumedIsMine ==
    ASSUME NEW c \in Replies, object[c] = Paused
    PROVE  Resumed(c) = Mine(c)
<1>1. Append(<<>>, c) = <<c>>
    OBVIOUS
<1> QED BY <1>1 DEF Resumed, Mine, Paused

\* So does a scan.
LEMMA WaitingIsMine ==
    ASSUME NEW c \in Scans, object[c] = Paused
    PROVE  [object[c] EXCEPT !.status = "waiting"] = Mine(c)
BY PauseAssumption DEF Mine, Paused

\* An entry adds its author to those logged.
LEMMA LoggedGrows ==
    ASSUME TypeOK, NEW e \in Entries, journal' = Append(journal, e), NEW type
    PROVE  Logged(type)' = Logged(type) \cup (IF e.type = type THEN {e.by} ELSE {})
<1>1. ToSet(journal') = ToSet(journal) \cup {e}
    <2>1. journal \in Seq(Entries) /\ Len(journal) \in Nat
        BY DEF TypeOK
    <2>2. DOMAIN journal' = 1 .. Len(journal) + 1 /\ DOMAIN journal = 1 .. Len(journal)
        BY <2>1
    <2>3. /\ \A i \in 1 .. Len(journal) : journal'[i] = journal[i]
          /\ journal'[Len(journal) + 1] = e
        BY <2>1
    <2>4. \A i \in 1 .. Len(journal) + 1 : i \in 1 .. Len(journal) \/ i = Len(journal) + 1
        BY <2>1
    <2>5. \A i \in 1 .. Len(journal) : i \in 1 .. Len(journal) + 1
        BY <2>1
    <2>6. Len(journal) + 1 \in 1 .. Len(journal) + 1
        BY <2>1
    <2>7. ASSUME NEW x \in ToSet(journal') PROVE x \in ToSet(journal) \cup {e}
        BY <2>2, <2>3, <2>4 DEF ToSet
    <2>8. ASSUME NEW x \in ToSet(journal) PROVE x \in ToSet(journal')
        BY <2>2, <2>3, <2>5 DEF ToSet
    <2>9. e \in ToSet(journal')
        BY <2>2, <2>3, <2>6 DEF ToSet
    <2> QED BY <2>7, <2>8, <2>9
<1>2. CASE e.type = type
    BY <1>1, <1>2 DEF Logged
<1>3. CASE e.type # type
    BY <1>1, <1>3 DEF Logged
<1> QED BY <1>2, <1>3

\* Without an entry they stay the same.
LEMMA LoggedStays ==
    ASSUME journal' = journal, NEW type
    PROVE  Logged(type)' = Logged(type)
BY DEF Logged

\* It holds at the start: nobody is past the guard.
LEMMA GuardInit == Init => GuardInv
<1> SUFFICES ASSUME Init PROVE GuardInv OBVIOUS
<1>1. Logged("task_resumed") = {}
    <2>1. journal = <<>>
        BY DEF Init
    <2>2. DOMAIN journal = {}
        BY <2>1
    <2> QED BY <2>2 DEF Logged, ToSet
<1>2. ObjectsInv
    BY DEF Init, ObjectsInv, Busy, UnderWay
<1>3. DiskInv
    BY DEF Init, DiskInv, Persisting
<1>4. AnswersInv
    <2>1. \A c \in Callers : at[c] = "idle"
        BY DEF Init
    <2>2. disk.status = "paused"
        BY DEF Init, Paused
    <2> QED BY <1>1, <2>1, <2>2 DEF AnswersInv, Busy, Callers
<1> QED BY <1>2, <1>3, <1>4 DEF GuardInv

\* A caller that passes its guard is alone past it, and nothing was answered.
LEMMA PastGuard ==
    ASSUME ObjectsInv, DiskInv, AnswersInv,
           NEW c \in Callers, at[c] = "loaded", object[c].status = "paused"
    PROVE  /\ object[c] = Paused /\ disk = Paused
           /\ \A d \in Callers : at[d] \notin Busy
           /\ ~shared => \A d \in Callers : d # c => d \notin UnderWay
<1>1. CASE shared
    <2>1. object[c] = Paused /\ disk = Paused
        BY <1>1 DEF ObjectsInv
    <2>2. \A d \in Callers : at[d] \notin Busy
        BY <1>1, <2>1, MineType DEF ObjectsInv
    <2> QED BY <1>1, <2>1, <2>2
<1>2. CASE ~shared
    <2>1. object[c] = disk
        BY <1>2 DEF ObjectsInv
    <2>2. disk = Paused
        BY <2>1, MineType DEF DiskInv
    <2>3. c \in UnderWay
        BY DEF UnderWay, Ends
    <2>4. \A d \in Callers : d # c => d \notin UnderWay
        BY <1>2, <2>3 DEF ObjectsInv
    <2>5. \A d \in Callers : at[d] \notin Busy
        <3> SUFFICES ASSUME NEW d \in Callers, at[d] \in Busy PROVE FALSE OBVIOUS
        <3>1. d \in UnderWay
            BY DEF UnderWay, Busy, Ends
        <3>2. d = c
            BY <3>1, <2>4
        <3> QED BY <3>2 DEF Busy
    <2> QED BY <2>1, <2>2, <2>4, <2>5
<1> QED BY <1>1, <1>2

\* While task.json has the pause, no reply is answered or in the journal.
LEMMA NobodyYet ==
    ASSUME AnswersInv, disk = Paused
    PROVE  /\ \A c \in Callers : at[c] # "accepted"
           /\ Logged("task_resumed") = {}
<1>1. \A c \in Callers : disk # Mine(c)
    BY MineType
<1>2. ASSUME NEW x \in Logged("task_resumed") PROVE FALSE
    BY <1>1, <1>2 DEF AnswersInv, Callers
<1> QED BY <1>1, <1>2 DEF AnswersInv

\* A call changes its object: it is the one past the guard now.
LEMMA ChangesKeeps ==
    ASSUME TypeOK, ObjectsInv, DiskInv, AnswersInv,
           NEW c \in Callers, at[c] = "loaded", object[c].status = "paused",
           Changes(c, Mine(c)), NEW place \in {"changed", "logged", "threw"},
           Goes(c, place), shared' = shared, disk' = disk
    PROVE  ObjectsInv'
<1>1. /\ \A d \in Callers : at[d] \notin Busy
      /\ ~shared => \A d \in Callers : d # c => d \notin UnderWay
    BY PastGuard
<1>2. object'[c] = Mine(c) /\ (shared => \A d \in Callers : object'[d] = Mine(c))
    BY DEF Changes
<1>3. \A d \in Callers : at'[d] = IF d = c THEN place ELSE at[d]
    BY DEF Goes, TypeOK
<1>4. \A d \in Callers : at'[d] \in Busy => d = c
    BY <1>1, <1>3
<1>5. ~shared => \A d \in UnderWay' : d = c
    BY <1>1, <1>3 DEF UnderWay
<1>6. ~shared => \A d \in Callers : at'[d] # "loaded"
    BY <1>1, <1>3 DEF UnderWay, Ends
<1> QED BY <1>2, <1>4, <1>5, <1>6, MineType DEF ObjectsInv

\* A call goes on past its guard, or out of it, with its object as it is.
LEMMA GoesKeeps ==
    ASSUME TypeOK, ObjectsInv,
           NEW c \in Callers, at[c] \in Busy \cup {"loaded"},
           NEW place \in Busy \cup Ends, Goes(c, place),
           at[c] = "loaded" => place \in Ends,
           shared' = shared, object' = object,
           disk' = disk \/ (at[c] \in Busy /\ disk' = Mine(c))
    PROVE  ObjectsInv'
<1>1. \A d \in Callers : at'[d] = IF d = c THEN place ELSE at[d]
    BY DEF Goes, TypeOK
<1>2. \A d \in Callers : at'[d] \in Busy => at[d] \in Busy
    BY <1>1 DEF Busy, Ends
<1>3. \A d \in Callers : at'[d] = "loaded" => at[d] = "loaded" /\ d # c
    BY <1>1 DEF Busy, Ends
<1>4. UnderWay' \subseteq UnderWay /\ c \in UnderWay
    BY <1>1 DEF UnderWay, Busy, Ends
<1>5. \A d \in Callers : at[d] = "loaded" => d \in UnderWay
    BY DEF UnderWay, Ends
<1>6. /\ \A d \in Callers : at'[d] \in Busy => object'[d] = Mine(d)
      /\ \A d, e \in Callers : at'[d] \in Busy /\ at'[e] \in Busy => d = e
    BY <1>2 DEF ObjectsInv
<1>7. shared' => /\ \A d, e \in Callers : object'[d] = object'[e]
                 /\ \A d \in Callers : object'[d].status = "paused" =>
                        object'[d] = Paused /\ disk' = Paused
    <2> SUFFICES ASSUME shared
                 PROVE  /\ \A d, e \in Callers : object'[d] = object'[e]
                        /\ \A d \in Callers : object'[d].status = "paused" =>
                               object'[d] = Paused /\ disk' = Paused
        OBVIOUS
    <2>1. CASE disk' = disk
        BY <2>1 DEF ObjectsInv
    <2>2. CASE at[c] \in Busy
        <3>1. \A d \in Callers : object[d] = Mine(c)
            BY <2>2 DEF ObjectsInv
        <3> QED BY <3>1, MineType
    <2> QED BY <2>1, <2>2
<1>8. ~shared' => /\ \A d \in Callers : at'[d] = "loaded" => object'[d] = disk'
                  /\ \A d, e \in UnderWay' : d = e
    <2> SUFFICES ASSUME ~shared
                 PROVE  /\ \A d \in Callers : at'[d] = "loaded" => object'[d] = disk'
                        /\ \A d, e \in UnderWay' : d = e
        OBVIOUS
    <2>1. \A d, e \in UnderWay : d = e
        BY DEF ObjectsInv
    <2>2. \A d \in Callers : at'[d] # "loaded"
        BY <2>1, <1>3, <1>4, <1>5
    <2> QED BY <2>1, <2>2, <1>4
<1> QED BY <1>6, <1>7, <1>8 DEF ObjectsInv

\* Every step keeps it.
LEMMA GuardStep == TypeInv /\ GuardInv /\ [Next]_vars => GuardInv'
<1> SUFFICES ASSUME TypeInv, GuardInv, [Next]_vars, ~raced' PROVE ObjectsInv' /\ DiskInv' /\ AnswersInv'
    BY DEF GuardInv
<1>0. TypeOK
    BY DEF TypeInv
<1>a. ~raced
    BY <1>0 DEF Next, Step, Load, Resume, Refuse, LogResumed, Expire, ExpireThrows,
                Pass, OpenTmp, WriteTmp, Rename, Throw, Crash, vars, TypeOK
<1>b. ObjectsInv /\ DiskInv /\ AnswersInv
    BY <1>a DEF GuardInv
<1>1. ASSUME NEW c \in Callers, Load(c) PROVE ObjectsInv' /\ DiskInv' /\ AnswersInv'
    <2>0. disk \in Records
        BY <1>b, MineType, PausedType DEF DiskInv
    <2>1. \A d \in Callers : at'[d] = IF d = c THEN "loaded" ELSE at[d]
        BY <1>0, <1>1, <2>0 DEF Load, Goes, TypeOK
    <2>2. at[c] = "idle"
        BY <1>1 DEF Load
    <2>3. \A d \in Callers : at'[d] \in Busy => at[d] \in Busy /\ d # c
        BY <2>1, <2>2 DEF Busy
    <2>4. shared => UNCHANGED object
        BY <1>1 DEF Load
    <2>5. ~shared => UnderWay = {} /\ object' = [object EXCEPT ![c] = disk]
        <3> SUFFICES ASSUME ~shared PROVE UnderWay = {} /\ object' = [object EXCEPT ![c] = disk]
            OBVIOUS
        <3>1. raced' = (raced \/ UnderWay # {})
            BY <1>1, <2>0 DEF Load
        <3>2. Changes(c, disk)
            BY <1>1, <2>0 DEF Load
        <3> QED BY <3>1, <3>2, <1>0 DEF Changes, TypeOK
    <2>6. ObjectsInv'
        <3>1. CASE shared
            BY <1>b, <1>1, <2>1, <2>3, <2>4, <3>1 DEF ObjectsInv, Load, files
        <3>2. CASE ~shared
            <4>1. \A d \in Callers : d # c => at[d] \in {"idle"} \cup Ends
                BY <2>5, <3>2 DEF UnderWay
            <4>2. \A d \in Callers : at'[d] \notin Busy
                BY <4>1, <2>3 DEF Busy, Ends
            <4>3. UnderWay' \subseteq {c}
                BY <4>1, <2>1 DEF UnderWay
            <4>4. \A d \in Callers : at'[d] = "loaded" => object'[d] = disk'
                <5>1. object'[c] = disk /\ disk' = disk
                    BY <1>0, <1>1, <2>5, <3>2 DEF Load, TypeOK, files
                <5>2. \A d \in Callers : at'[d] = "loaded" => d = c
                    BY <2>1, <4>1 DEF Ends
                <5> QED BY <5>1, <5>2
            <4> QED BY <1>1, <3>2, <4>2, <4>3, <4>4 DEF ObjectsInv, Load, files
        <3> QED BY <3>1, <3>2
    <2>7. DiskInv'
        BY <1>b, <1>1, <2>1 DEF DiskInv, Load, Persisting, files
    <2>8. AnswersInv'
        BY <1>b, <1>1, <2>1, <2>3, LoggedStays DEF AnswersInv, Load, files, Callers
    <2> QED BY <2>6, <2>7, <2>8
<1>2. ASSUME NEW c \in Callers, Resume(c) PROVE ObjectsInv' /\ DiskInv' /\ AnswersInv'
    <2>1. /\ object[c] = Paused /\ disk = Paused
          /\ \A d \in Callers : at[d] \notin Busy
        BY <1>b, <1>2, PastGuard DEF Resume
    <2>2. Changes(c, Mine(c))
        BY <1>2, <2>1, ResumedIsMine DEF Resume
    <2>3. ObjectsInv'
        BY <1>0, <1>b, <1>2, <2>2, ChangesKeeps DEF Resume, files
    <2>4. \A d \in Callers : at'[d] = IF d = c THEN "changed" ELSE at[d]
        BY <1>0, <1>2 DEF Resume, Goes, TypeOK
    <2>5. DiskInv'
        BY <1>b, <1>2, <2>1, <2>4, PauseAssumption DEF DiskInv, Resume, Persisting, files
    <2>6. AnswersInv'
        <3>1. c \notin Scans
            BY <1>2, PauseAssumption DEF Resume
        <3> QED BY <1>b, <1>2, <2>4, <3>1, LoggedStays DEF AnswersInv, Resume, files, Callers
    <2> QED BY <2>3, <2>5, <2>6
<1>3. ASSUME NEW c \in Callers, Refuse(c) \/ Pass(c) PROVE ObjectsInv' /\ DiskInv' /\ AnswersInv'
    <2>1. PICK place \in {"refused", "passed"} : Goes(c, place)
        BY <1>3 DEF Refuse, Pass
    <2>2. \A d \in Callers : at'[d] = IF d = c THEN place ELSE at[d]
        BY <1>0, <2>1 DEF Goes, TypeOK
    <2>3. at[c] = "loaded" /\ UNCHANGED <<shared, object, time, open, tmp, disk, journal>>
        BY <1>3 DEF Refuse, Pass, files
    <2>4. ObjectsInv'
        BY <1>0, <1>b, <2>1, <2>3, GoesKeeps DEF Ends
    <2>5. DiskInv'
        BY <1>b, <2>2, <2>3 DEF DiskInv, Persisting, files
    <2>6. AnswersInv'
        BY <1>b, <2>2, <2>3, LoggedStays DEF AnswersInv, Callers, Busy
    <2> QED BY <2>4, <2>5, <2>6
<1>4. ASSUME NEW c \in Callers, LogResumed(c) PROVE ObjectsInv' /\ DiskInv' /\ AnswersInv'
    <2>1. at[c] = "enqueued" /\ UNCHANGED <<shared, object, time, open, tmp, disk>>
        BY <1>4 DEF LogResumed, files
    <2>2. c \in Replies /\ disk = Mine(c)
        BY <1>b, <2>1 DEF DiskInv
    <2>3. \A d \in Callers : at'[d] = IF d = c THEN "logged" ELSE at[d]
        BY <1>0, <1>4 DEF LogResumed, Goes, TypeOK
    <2>4. ObjectsInv'
        BY <1>0, <1>b, <1>4, <2>1, GoesKeeps DEF LogResumed, Busy, files
    <2>5. DiskInv'
        BY <1>b, <2>1, <2>2, <2>3, PauseAssumption DEF DiskInv, Persisting, files
    <2>6. /\ Logged("task_resumed")' = Logged("task_resumed") \cup {c}
          /\ Logged("task_waiting")' = Logged("task_waiting")
        <3> DEFINE e == [type |-> "task_resumed", by |-> c]
        <3>1. e \in Entries /\ e.type = "task_resumed" /\ e.by = c
            BY DEF Entries
        <3>2. journal' = Append(journal, e)
            BY <1>4 DEF LogResumed
        <3> HIDE DEF e
        <3>3. \A type : Logged(type)' = Logged(type) \cup (IF e.type = type THEN {e.by} ELSE {})
            BY <1>0, <3>1, <3>2, LoggedGrows
        <3> QED BY <3>1, <3>3
    <2>7. AnswersInv'
        <3>1. c \notin Scans
            BY <2>2, PauseAssumption
        <3> QED BY <1>b, <2>1, <2>2, <2>3, <2>6, <3>1 DEF AnswersInv, Callers
    <2> QED BY <2>4, <2>5, <2>7
<1>5. ASSUME NEW c \in Callers, Expire(c) PROVE ObjectsInv' /\ DiskInv' /\ AnswersInv'
    <2>1. /\ object[c] = Paused /\ disk = Paused
          /\ \A d \in Callers : at[d] \notin Busy
        BY <1>b, <1>5, PastGuard DEF Expire
    <2>2. Changes(c, Mine(c)) /\ c \in Scans
        BY <1>5, <2>1, WaitingIsMine DEF Expire
    <2>3. ObjectsInv'
        BY <1>0, <1>b, <1>5, <2>2, ChangesKeeps DEF Expire, files
    <2>4. \A d \in Callers : at'[d] = IF d = c THEN "logged" ELSE at[d]
        BY <1>0, <1>5 DEF Expire, Goes, TypeOK
    <2>5. DiskInv'
        BY <1>b, <1>5, <2>1, <2>2, <2>4, PauseAssumption DEF DiskInv, Expire, Persisting, files
    <2>6. /\ Logged("task_resumed")' = Logged("task_resumed")
          /\ Logged("task_waiting")' = Logged("task_waiting") \cup {c}
        <3> DEFINE e == [type |-> "task_waiting", by |-> c]
        <3>1. e \in Entries /\ e.type = "task_waiting" /\ e.by = c
            BY DEF Entries
        <3>2. journal' = Append(journal, e)
            BY <1>5 DEF Expire
        <3> HIDE DEF e
        <3>3. \A type : Logged(type)' = Logged(type) \cup (IF e.type = type THEN {e.by} ELSE {})
            BY <1>0, <3>1, <3>2, LoggedGrows
        <3> QED BY <3>1, <3>3
    <2>7. AnswersInv'
        <3>1. disk' = disk
            BY <1>5 DEF Expire, files
        <3> QED BY <1>b, <2>4, <2>6, <3>1 DEF AnswersInv, Callers
    <2> QED BY <2>3, <2>5, <2>7
<1>6. ASSUME NEW c \in Callers, ExpireThrows(c) PROVE ObjectsInv' /\ DiskInv' /\ AnswersInv'
    <2>1. /\ object[c] = Paused /\ disk = Paused
          /\ \A d \in Callers : at[d] \notin Busy
        BY <1>b, <1>6, PastGuard DEF ExpireThrows
    <2>2. Changes(c, Mine(c)) /\ c \in Scans
        BY <1>6, <2>1, WaitingIsMine DEF ExpireThrows
    <2>3. ObjectsInv'
        BY <1>0, <1>b, <1>6, <2>2, ChangesKeeps DEF ExpireThrows, files
    <2>4. \A d \in Callers : at'[d] = IF d = c THEN "threw" ELSE at[d]
        BY <1>0, <1>6 DEF ExpireThrows, Goes, TypeOK
    <2>5. DiskInv'
        BY <1>b, <1>6, <2>4 DEF DiskInv, ExpireThrows, Persisting, files
    <2>6. AnswersInv'
        BY <1>b, <1>6, <2>4, LoggedStays DEF AnswersInv, ExpireThrows, files, Callers, Busy
    <2> QED BY <2>3, <2>5, <2>6
<1>7. ASSUME NEW c \in Callers, NEW t \in Times, OpenTmp(c, t)
      PROVE ObjectsInv' /\ DiskInv' /\ AnswersInv'
    <2> DEFINE place == IF at[c] = "changed" THEN "enqueueing" ELSE "saving"
    <2>1. /\ at[c] \in {"changed", "logged"}
          /\ Goes(c, place)
          /\ UNCHANGED <<shared, object, disk, journal>>
        BY <1>7 DEF OpenTmp
    <2>2. \A d \in Callers : at'[d] = IF d = c THEN place ELSE at[d]
        BY <1>0, <2>1 DEF Goes, TypeOK
    <2>3. object[c] = Mine(c) /\ at[c] \in Busy
        BY <1>b, <2>1 DEF ObjectsInv, Busy
    <2>4. /\ time'[c] = t /\ tmp'[t] = Empty
          /\ open'[c] = [where |-> t, text |-> Mine(c)] /\ open'[c] # None
        BY <1>0, <1>7, <2>3, OpenedIsFile DEF OpenTmp, TypeOK
    <2>5. \A d \in Callers : d # c => at'[d] \notin Busy
        BY <1>b, <2>2, <2>3 DEF ObjectsInv
    <2>6. ObjectsInv'
        <3>1. place \in Busy
            BY DEF Busy
        <3> QED BY <1>0, <1>b, <2>1, <2>3, <3>1, GoesKeeps DEF Busy
    <2>7. DiskInv'
        <3>1. \A d \in Callers : at'[d] \in Busy => d = c
            BY <2>5
        <3>2. at[c] = "changed" => c \in Replies /\ disk = Paused
            BY <1>b DEF DiskInv
        <3>3. at[c] = "logged" => /\ c \in Replies => disk = Mine(c)
                                  /\ c \in Scans => disk = Paused
            BY <1>b DEF DiskInv
        <3>4. disk' = disk /\ at'[c] = place
            BY <2>1, <2>2
        <3> QED BY <1>b, <2>1, <2>4, <3>1, <3>2, <3>3, <3>4 DEF DiskInv, Busy, Persisting
    <2>8. AnswersInv'
        <3>1. place # "accepted" /\ \A d \in Callers : at'[d] \in Busy => at[d] \in Busy
            BY <2>3, <2>5
        <3> QED BY <1>b, <2>1, <2>2, <3>1, LoggedStays DEF AnswersInv, Callers
    <2> QED BY <2>6, <2>7, <2>8
<1>8. ASSUME NEW c \in Callers, WriteTmp(c) PROVE ObjectsInv' /\ DiskInv' /\ AnswersInv'
    <2>1. /\ open[c] # None /\ at[c] \in Persisting /\ time[c] \in Times
          /\ open' = [open EXCEPT ![c] = None]
          /\ UNCHANGED <<shared, object, at, time, journal>>
        BY <1>8 DEF WriteTmp, TypeInv
    <2>2. open[c] = [where |-> time[c], text |-> Mine(c)] /\ tmp[time[c]] = Empty
        BY <1>b, <2>1 DEF DiskInv
    <2>3. disk' = disk
        BY <1>8, <2>1, <2>2, PauseAssumption DEF WriteTmp
    <2>4. tmp' = [tmp EXCEPT ![time[c]] = Mine(c)]
        <3>1. Written(tmp[open[c].where], open[c].text) = {Mine(c)}
            BY <2>2 DEF Written
        <3>2. PICK text \in Written(tmp[open[c].where], open[c].text) :
                  tmp' = [tmp EXCEPT ![open[c].where] = text]
            BY <1>8, <2>1, <2>2 DEF WriteTmp
        <3>3. text = Mine(c) /\ open[c].where = time[c]
            BY <2>2, <3>1, <3>2
        <3> QED BY <3>2, <3>3
    <2>5. \A d \in Callers : at[d] \in Persisting => d = c
        BY <1>b, <2>1 DEF ObjectsInv, Busy, Persisting
    <2>6. tmp'[time'[c]] = Mine(c) /\ open'[c] = None
        BY <1>0, <2>1, <2>4 DEF TypeOK
    <2>7. ObjectsInv'
        BY <1>b, <2>1, <2>3 DEF ObjectsInv, UnderWay
    <2>8. DiskInv'
        BY <1>b, <2>1, <2>3, <2>5, <2>6 DEF DiskInv
    <2>9. AnswersInv'
        BY <1>b, <2>1, <2>3, LoggedStays DEF AnswersInv
    <2> QED BY <2>7, <2>8, <2>9
<1>9. ASSUME NEW c \in Callers, Rename(c) PROVE ObjectsInv' /\ DiskInv' /\ AnswersInv'
    <2>1. at[c] \in {"enqueueing", "saving"} /\ tmp[time[c]] = Mine(c)
        BY <1>b, <1>9 DEF Rename, DiskInv, Persisting
    <2>2. Mine(c) # None
        BY PauseAssumption, MineType DEF Texts
    <2>3. /\ disk' = Mine(c) /\ Goes(c, After(c))
          /\ UNCHANGED <<shared, object, journal>>
        BY <1>9, <2>1, <2>2 DEF Rename
    <2>4. at[c] \in Busy /\ After(c) \in Busy \cup Ends
        BY <2>1 DEF After, Busy, Ends
    <2>5. \A d \in Callers : at'[d] = IF d = c THEN After(c) ELSE at[d]
        BY <1>0, <2>3 DEF Goes, TypeOK
    <2>6. \A d \in Callers : d # c => at'[d] \notin Busy
        BY <1>b, <2>4, <2>5 DEF ObjectsInv
    <2>7. \/ at[c] = "enqueueing" /\ After(c) = "enqueued" /\ c \in Replies /\ disk = Paused
          \/ at[c] = "saving" /\ After(c) = "accepted" /\ c \in Replies /\ disk = Mine(c)
          \/ at[c] = "saving" /\ After(c) = "expired" /\ c \in Scans /\ disk = Paused
        <3>1. CASE at[c] = "enqueueing"
            BY <1>b, <3>1 DEF DiskInv, After
        <3>2. CASE at[c] = "saving" /\ c \in Replies
            BY <1>b, <3>2 DEF DiskInv, After
        <3>3. CASE at[c] = "saving" /\ c \notin Replies
            BY <1>b, <3>3 DEF DiskInv, After, Callers
        <3> QED BY <2>1, <3>1, <3>2, <3>3
    <2>8. ObjectsInv'
        <3>1. at[c] # "loaded"
            BY <2>1
        <3> QED BY <1>0, <1>b, <2>3, <2>4, <3>1, GoesKeeps
    <2>9. DiskInv'
        <3>1. \A d \in Callers : at'[d] \in Busy => d = c
            BY <2>6
        <3>2. at'[c] = After(c)
            BY <2>5
        <3>3. at'[c] \in Busy => at'[c] = "enqueued" /\ c \in Replies
            BY <2>7, <3>2 DEF Busy
        <3>4. \A d \in Callers : at'[d] \in Busy => at'[d] = "enqueued" /\ d \in Replies /\ disk' = Mine(d)
            BY <2>3, <3>1, <3>3
        <3> QED BY <2>3, <3>4, PauseAssumption DEF DiskInv, Busy, Persisting
    <2>10. ASSUME NEW d \in Callers, at'[d] = "accepted" PROVE d \in Replies /\ disk' = Mine(d)
        <3>1. CASE d = c
            BY <2>3, <2>5, <2>7, <2>10, <3>1
        <3>2. CASE d # c
            <4>1. d \in Replies /\ disk = Mine(d)
                BY <1>b, <2>5, <2>10, <3>2 DEF AnswersInv
            <4>2. disk # Paused
                BY <4>1, MineType
            <4> QED BY <2>3, <2>7, <4>1, <4>2
        <3> QED BY <3>1, <3>2
    <2>11. ASSUME NEW d \in Logged("task_resumed")' PROVE d \in Replies /\ disk' = Mine(d)
        <3>1. d \in Replies /\ disk = Mine(d)
            BY <1>b, <2>3, <2>11, LoggedStays DEF AnswersInv
        <3>2. disk # Paused
            BY <3>1, MineType DEF Callers
        <3> QED BY <2>3, <2>7, <3>1, <3>2
    <2>12. AnswersInv'
        <3>1. Logged("task_waiting")' = Logged("task_waiting")
            BY <2>3, LoggedStays
        <3>2. \A d \in Scans : at'[d] \in Busy => Logged("task_waiting")' # {}
            BY <1>b, <2>4, <2>6, <3>1 DEF AnswersInv, Callers
        <3>3. disk'.status = "waiting" => Logged("task_waiting")' # {}
            <4>1. c \in Scans => Logged("task_waiting") # {}
                BY <1>b, <2>4 DEF AnswersInv
            <4>2. c \in Replies => disk'.status = "active"
                BY <2>3, MineDiffers
            <4> QED BY <3>1, <4>1, <4>2 DEF Callers
        <3> QED BY <2>10, <2>11, <3>2, <3>3 DEF AnswersInv
    <2> QED BY <2>8, <2>9, <2>12
<1>10. ASSUME NEW c \in Callers, Throw(c) PROVE ObjectsInv' /\ DiskInv' /\ AnswersInv'
    <2>1. at[c] \in Busy /\ Goes(c, "threw") /\ UNCHANGED <<shared, object, tmp, disk, journal>>
          /\ time' = [time EXCEPT ![c] = None] /\ open' = [open EXCEPT ![c] = None]
        BY <1>10 DEF Throw, Busy
    <2>2. \A d \in Callers : at'[d] = IF d = c THEN "threw" ELSE at[d]
        BY <1>0, <2>1 DEF Goes, TypeOK
    <2>3. ObjectsInv'
        <3>1. at[c] # "loaded" /\ "threw" \in Busy \cup Ends
            BY <2>1 DEF Busy, Ends
        <3> QED BY <1>0, <1>b, <2>1, <3>1, GoesKeeps
    <2>4. DiskInv'
        BY <1>0, <1>b, <2>1, <2>2 DEF DiskInv, TypeOK, Persisting, files
    <2>5. AnswersInv'
        BY <1>b, <2>1, <2>2, LoggedStays DEF AnswersInv, Callers, Busy
    <2> QED BY <2>3, <2>4, <2>5
<1>11. CASE Crash
    <2>1. \A d \in Callers : at'[d] \notin Busy \cup {"loaded"}
        BY <1>0, <1>11 DEF Crash, TypeOK, UnderWay, Busy, Ends
    <2>2. \A d \in Callers : at'[d] = "accepted" => at[d] = "accepted"
        BY <1>0, <1>11 DEF Crash, TypeOK
    <2>3. UnderWay' = {}
        BY <1>0, <1>11 DEF Crash, TypeOK, UnderWay, Ends
    <2>4. disk' = disk /\ journal' = journal /\ \A d \in Callers : object'[d] = disk
        <3>1. disk \in Records
            BY <1>b, MineType, PausedType DEF DiskInv
        <3> QED BY <1>11, <3>1 DEF Crash
    <2>5. ObjectsInv'
        <3>1. disk.status = "paused" => disk = Paused
            BY <1>b, MineType DEF DiskInv
        <3> QED BY <2>1, <2>3, <2>4, <3>1 DEF ObjectsInv
    <2>6. DiskInv'
        BY <1>b, <2>1, <2>4 DEF DiskInv, Busy, Persisting, files
    <2>7. AnswersInv'
        BY <1>b, <2>1, <2>2, <2>4, LoggedStays DEF AnswersInv, Callers
    <2> QED BY <2>5, <2>6, <2>7
<1>12. CASE UNCHANGED vars
    <2>1. UNCHANGED <<shared, object, at, time, open, tmp, disk, journal>>
        BY <1>12 DEF vars, files
    <2> QED BY <1>b, <2>1, LoggedStays DEF ObjectsInv, DiskInv, AnswersInv, UnderWay
<1> QED BY <1>1, <1>2, <1>3, <1>4, <1>5, <1>6, <1>7, <1>8, <1>9, <1>10, <1>11, <1>12 DEF Next, Step

\* What the guard decides keeps the reply.
LEMMA GuardSaysKept == GuardInv => ReplyKept
<1> SUFFICES ASSUME GuardInv, ~raced
             PROVE  /\ disk \in Records
                    /\ \A c \in Replies : at[c] = "accepted" \/ c \in Logged("task_resumed") =>
                           disk.status = "active" /\ disk.human = c /\ disk.queue = <<c>>
                    /\ disk.status = "waiting" =>
                           /\ Logged("task_waiting") # {} /\ Logged("task_resumed") = {}
                           /\ disk.queue = <<>>
    BY DEF ReplyKept
<1>1. DiskInv /\ AnswersInv
    BY DEF GuardInv
<1>2. ASSUME NEW c \in Replies, at[c] = "accepted" \/ c \in Logged("task_resumed")
      PROVE  disk.status = "active" /\ disk.human = c /\ disk.queue = <<c>>
    <2>1. disk = Mine(c)
        BY <1>1, <1>2 DEF AnswersInv, Callers
    <2> QED BY <2>1 DEF Mine
<1>3. ASSUME disk.status = "waiting"
      PROVE  /\ Logged("task_waiting") # {} /\ Logged("task_resumed") = {}
             /\ disk.queue = <<>>
    <2>1. ASSUME NEW c \in Logged("task_resumed") PROVE FALSE
        BY <1>1, <1>3, <2>1, MineDiffers DEF AnswersInv
    <2>2. PICK c \in Callers : disk = Mine(c)
        BY <1>1, <1>3 DEF DiskInv, Paused
    <2>3. c \notin Replies
        BY <1>3, <2>2, MineDiffers
    <2> QED BY <1>1, <1>3, <2>1, <2>2, <2>3 DEF AnswersInv, Mine
<1>4. disk \in Records
    BY <1>1, MineType, PausedType DEF DiskInv
<1> QED BY <1>2, <1>3, <1>4

(***************************************************************************)
(* The guard that resumeTask and checkTimeouts share decides between any   *)
(* number of them, however they interleave, fail and restart: task.json is *)
(* whole unless a temporary file was used twice, and the accepted reply is *)
(* kept unless a copy was loaded behind another call's back.               *)
(***************************************************************************)
THEOREM RecordIsKept == Spec => []RecordKept
<1>1. TypeInv /\ GuardInv => ReplyKept
    BY GuardSaysKept
<1>2. WholeFile /\ ReplyKept => RecordKept
    BY DEF RecordKept
<1> QED BY <1>1, <1>2, FileIsWhole, TypeInit, TypeStep, GuardInit, GuardStep, PTL DEF Spec
=============================================================================
