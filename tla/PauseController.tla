-------------------------- MODULE PauseController --------------------------
(***************************************************************************)
(* The two ways out of a pause, resumeTask and checkTimeouts               *)
(* (src/src/runtime/pause-controller.ts), called at the same time for one  *)
(* paused task whose deadline has passed.  A call works on the task object *)
(* it is given: the callers share one, or each has loaded its own from     *)
(* task.json.  Between the awaits of a call the other calls run, also      *)
(* between the opening, the write and the renaming of a temporary file; a  *)
(* write may fail and the process may die.  TaskRuntime has the calls one  *)
(* at a time and what the worker makes of the task afterwards.             *)
(***************************************************************************)
EXTENDS Integers, Sequences, SequencesExt

CONSTANTS
    None,
    Empty, Torn, \* texts of a file: nothing yet, and a mixture of two records
    Replies,     \* calls of resumeTask, each with its human input
    Scans,       \* calls of checkTimeouts
    Times,       \* values of Date.now(), which name the temporary files
    MaxFaults,   \* bound: writes that fail
    MaxCrashes   \* bound: ends of the process

Callers == Replies \cup Scans

\* What a resume and an expiry change in the task: capturedHumanContext is
\* the reply it came from, and so is a resume_after_input subtask.
Records == [status: {"paused", "active", "waiting"},
            human: Replies \cup {None},
            queue: Seq(Replies)]

\* What a file may hold; only a record can be read.
Texts == Records \cup {Empty, Torn}

\* Where an open file is, once it was renamed: it is task.json, or has no name.
Json == "task.json"
Gone == "gone"

\* A file that a call has open, and the text it will write.
Files == [where: Times \cup {Json, Gone}, text: Records]

ASSUME PauseAssumption ==
    /\ Replies \cap Scans = {}
    /\ None \notin Callers \cup Times \cup Texts \cup Files
    /\ Empty \notin Records /\ Torn \notin Records
    /\ Json \notin Times /\ Gone \notin Times
    /\ MaxFaults \in Nat /\ MaxCrashes \in Nat

VARIABLES
    shared,    \* the callers have one task object
    object,    \* caller -> the task object it works on
    at,        \* caller -> where it is; see Places
    time,      \* caller -> the name of its temporary file, while it has one
    open,      \* caller -> the file it has open, and the text it will write to it
    tmp,       \* the temporary files
    disk,      \* task.json
    collided,  \* history: a caller opened a temporary file another one was using
    journal,   \* journal.jsonl, about the pause
    raced,     \* history: a caller loaded its own copy while another one was under way
    faults, crashes

files == <<time, open, tmp, disk, collided>>

vars == <<shared, object, at, files, journal, raced, faults, crashes>>

Paused == [status |-> "paused", human |-> None, queue |-> <<>>]

Entries == [type: {"task_resumed", "task_waiting"}, by: Callers]

\* "changed": the object is changed and nothing is written; "enqueued": the
\* persistTask of enqueueSubtask is done; "logged": the entry is in the journal.
\* A persistTask ("enqueueing", "saving") has its file open until it is written.
Places == {"idle", "loaded", "changed", "enqueueing", "enqueued", "logged", "saving"}

Ends == {"accepted", "refused", "expired", "passed", "threw", "died"}

UnderWay == {c \in Callers : at[c] \notin {"idle"} \cup Ends}

Goes(c, place) == at' = [at EXCEPT ![c] = place]

\* Everybody who has this caller's object sees the change.
Changes(c, record) ==
    object' = [x \in Callers |-> IF shared \/ x = c THEN record ELSE object[x]]

\* Mutant of Load: a text that does not parse is taken as it is.
LoadUnchecked(c) ==
    /\ at[c] = "idle"
    /\ Goes(c, "loaded")
    /\ IF shared THEN UNCHANGED <<object, raced>>
       ELSE Changes(c, disk) /\ raced' = (raced \/ UnderWay # {})
    /\ UNCHANGED <<shared, files, journal, faults, crashes>>

\* The caller gets the object of the process, or loads its own: loadTask throws
\* when task.json does not parse.
Load(c) ==
    /\ at[c] = "idle"
    /\ IF shared THEN Goes(c, "loaded") /\ UNCHANGED <<object, raced>>
       ELSE IF disk \in Records
       THEN Goes(c, "loaded") /\ Changes(c, disk) /\ raced' = (raced \/ UnderWay # {})
       ELSE Goes(c, "threw") /\ UNCHANGED <<object, raced>>
    /\ UNCHANGED <<shared, files, journal, faults, crashes>>

(***************************************************************************)
(* resumeTask                                                              *)
(***************************************************************************)
Resumed(c) ==
    [status |-> "active", human |-> c, queue |-> Append(object[c].queue, c)]

\* Mutant of Resume: the status follows when the subtask is queued.
ResumeStatusLater(c) ==
    /\ c \in Replies
    /\ at[c] = "loaded" /\ object[c].status = "paused"
    /\ Changes(c, [Resumed(c) EXCEPT !.status = "paused"])
    /\ Goes(c, "changed")
    /\ UNCHANGED <<shared, files, journal, raced, faults, crashes>>

\* The guard, and all up to the first await, with the push of enqueueSubtask.
Resume(c) ==
    /\ c \in Replies
    /\ at[c] = "loaded" /\ object[c].status = "paused"
    /\ Changes(c, Resumed(c))
    /\ Goes(c, "changed")
    /\ UNCHANGED <<shared, files, journal, raced, faults, crashes>>

Refuse(c) ==
    /\ c \in Replies
    /\ at[c] = "loaded" /\ object[c].status # "paused"
    /\ Goes(c, "refused")
    /\ UNCHANGED <<shared, object, files, journal, raced, faults, crashes>>

LogResumed(c) ==
    /\ at[c] = "enqueued"
    /\ journal' = Append(journal, [type |-> "task_resumed", by |-> c])
    /\ Goes(c, "logged")
    /\ UNCHANGED <<shared, object, files, raced, faults, crashes>>

(***************************************************************************)
(* checkTimeouts                                                           *)
(***************************************************************************)
\* The status and the journal change without an await between them.
Expire(c) ==
    /\ c \in Scans
    /\ at[c] = "loaded" /\ object[c].status = "paused"
    /\ Changes(c, [object[c] EXCEPT !.status = "waiting"])
    /\ journal' = Append(journal, [type |-> "task_waiting", by |-> c])
    /\ Goes(c, "logged")
    /\ UNCHANGED <<shared, files, raced, faults, crashes>>

\* The append to the journal failed after the status was set.
ExpireThrows(c) ==
    /\ c \in Scans
    /\ at[c] = "loaded" /\ object[c].status = "paused"
    /\ faults < MaxFaults /\ faults' = faults + 1
    /\ Changes(c, [object[c] EXCEPT !.status = "waiting"])
    /\ Goes(c, "threw")
    /\ UNCHANGED <<shared, files, journal, raced, crashes>>

Pass(c) ==
    /\ c \in Scans
    /\ at[c] = "loaded" /\ object[c].status # "paused"
    /\ Goes(c, "passed")
    /\ UNCHANGED <<shared, object, files, journal, raced, faults, crashes>>

(***************************************************************************)
(* persistTask                                                             *)
(***************************************************************************)
\* The object as it now is will go to a file named by the time, which is made
\* if it is not there and emptied if it is.
OpenTmp(c, t) ==
    /\ at[c] \in {"changed", "logged"}
    /\ open' = [open EXCEPT ![c] = [where |-> t, text |-> object[c]]]
    /\ tmp' = [tmp EXCEPT ![t] = Empty]
    /\ time' = [time EXCEPT ![c] = t]
    /\ collided' = (collided \/ \E d \in Callers : time[d] = t)
    /\ Goes(c, IF at[c] = "changed" THEN "enqueueing" ELSE "saving")
    /\ UNCHANGED <<shared, object, disk, journal, raced, faults, crashes>>

\* The text goes to the start of the file.  What another caller has written there
\* shows behind it if it is longer.
Written(old, text) == IF old \in {Empty, text} THEN {text} ELSE {text, Torn}

\* The file is written where it now is, and closed.
WriteTmp(c) ==
    /\ open[c] # None
    /\ LET file == open[c] IN
       /\ IF file.where = Json THEN disk' \in Written(disk, file.text)
          ELSE UNCHANGED disk
       /\ IF file.where \in Times
          THEN \E text \in Written(tmp[file.where], file.text) :
                   tmp' = [tmp EXCEPT ![file.where] = text]
          ELSE UNCHANGED tmp
    /\ open' = [open EXCEPT ![c] = None]
    /\ UNCHANGED <<shared, object, at, time, collided, journal, raced, faults, crashes>>

\* What comes after a persistTask.
After(c) ==
    CASE at[c] = "enqueueing" -> "enqueued"
      [] at[c] = "saving" -> IF c \in Replies THEN "accepted" ELSE "expired"

\* The file named t becomes task.json: who has one of the two open keeps it.
Moved(where, t) ==
    CASE where = t -> Json
      [] where = Json -> Gone
      [] OTHER -> where

\* Mutant of Rename: nobody waits for the write.
RenameNotAwaited(c) ==
    /\ at[c] \in {"enqueueing", "saving"}
    /\ IF tmp[time[c]] # None
       THEN /\ disk' = tmp[time[c]]
            /\ tmp' = [tmp EXCEPT ![time[c]] = None]
            /\ open' = [d \in Callers |->
                   IF open[d] = None THEN None
                   ELSE [open[d] EXCEPT !.where = Moved(@, time[c])]]
            /\ Goes(c, After(c))
       ELSE UNCHANGED <<disk, tmp, open>> /\ Goes(c, "threw")
    /\ time' = [time EXCEPT ![c] = None]
    /\ UNCHANGED <<shared, object, collided, journal, raced, faults, crashes>>

\* Mutant of Rename: the temporary file is left where it is.
RenameForgotten(c) ==
    /\ at[c] \in {"enqueueing", "saving"} /\ open[c] = None
    /\ Goes(c, After(c))
    /\ time' = [time EXCEPT ![c] = None]
    /\ UNCHANGED <<shared, object, open, tmp, disk, collided, journal, raced, faults, crashes>>

\* The file is there unless another caller, with the same time, renamed it.
Rename(c) ==
    /\ at[c] \in {"enqueueing", "saving"} /\ open[c] = None
    /\ IF tmp[time[c]] # None
       THEN /\ disk' = tmp[time[c]]
            /\ tmp' = [tmp EXCEPT ![time[c]] = None]
            /\ open' = [d \in Callers |->
                   IF open[d] = None THEN None
                   ELSE [open[d] EXCEPT !.where = Moved(@, time[c])]]
            /\ Goes(c, After(c))
       ELSE UNCHANGED <<disk, tmp, open>> /\ Goes(c, "threw")
    /\ time' = [time EXCEPT ![c] = None]
    /\ UNCHANGED <<shared, object, collided, journal, raced, faults, crashes>>

(***************************************************************************)
(* Failures                                                                *)
(***************************************************************************)
\* A write fails and the exception leaves the call; the object stays changed, and
\* a file that was opened stays as it is (a part of a text reads no better).
Throw(c) ==
    /\ at[c] \in {"changed", "enqueueing", "enqueued", "logged", "saving"}
    /\ faults < MaxFaults /\ faults' = faults + 1
    /\ Goes(c, "threw")
    /\ time' = [time EXCEPT ![c] = None] /\ open' = [open EXCEPT ![c] = None]
    /\ UNCHANGED <<shared, object, tmp, disk, collided, journal, raced, crashes>>

\* The process dies and a new one loads the task, if it can be read; temporary
\* files of the old one are never looked at again.
Crash ==
    /\ crashes < MaxCrashes /\ crashes' = crashes + 1
    /\ at' = [c \in Callers |-> IF c \in UnderWay THEN "died" ELSE at[c]]
    /\ object' = IF disk \in Records THEN [c \in Callers |-> disk] ELSE object
    /\ time' = [c \in Callers |-> None] /\ open' = [c \in Callers |-> None]
    /\ tmp' = [t \in Times |-> None]
    /\ UNCHANGED <<shared, disk, collided, journal, raced, faults>>

Init ==
    /\ shared \in BOOLEAN
    /\ object = [c \in Callers |-> Paused] /\ disk = Paused
    /\ at = [c \in Callers |-> "idle"]
    /\ time = [c \in Callers |-> None] /\ open = [c \in Callers |-> None]
    /\ tmp = [t \in Times |-> None] /\ collided = FALSE
    /\ journal = <<>> /\ raced = FALSE /\ faults = 0 /\ crashes = 0

\* What a call does once it was made.
Step(c) ==
    \/ Resume(c) \/ Refuse(c) \/ LogResumed(c)
    \/ Expire(c) \/ Pass(c)
    \/ \E t \in Times : OpenTmp(c, t)
    \/ WriteTmp(c) \/ Rename(c)

Next ==
    \/ \E c \in Callers : Load(c) \/ Step(c) \/ Throw(c) \/ ExpireThrows(c)
    \/ Crash

Spec == Init /\ [][Next]_vars

\* A call that was made goes on: file operations return.
FairSpec == Spec /\ \A c \in Callers : WF_vars(Step(c))
=============================================================================
