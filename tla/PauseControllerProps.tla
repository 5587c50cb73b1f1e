----------------------- MODULE PauseControllerProps -----------------------
(***************************************************************************)
(* The properties of the ways out of a pause.                              *)
(***************************************************************************)
EXTENDS PauseController, FiniteSets

TypeOK ==
    /\ shared \in BOOLEAN
    /\ object \in [Callers -> Records]
    /\ at \in [Callers -> Places \cup Ends]
    /\ time \in [Callers -> Times \cup {None}]
    /\ open \in [Callers -> Files \cup {None}]
    /\ tmp \in [Times -> Texts \cup {None}]
    /\ disk \in Texts
    /\ collided \in BOOLEAN
    /\ journal \in Seq(Entries)
    /\ raced \in BOOLEAN
    /\ faults \in 0 .. MaxFaults
    /\ crashes \in 0 .. MaxCrashes

Logged(type) == {e.by : e \in {e \in ToSet(journal) : e.type = type}}

\* A persistTask writes its own file and then renames it, so that a reader of
\* task.json, a crash and a failed write never meet half a record.  It needs the
\* name, a time in milliseconds, for itself: when a second persistTask opens the
\* file of a first, the first may publish what the second has only begun.
WholeFile == disk \in Records \/ collided

\* The guard of resumeTask and checkTimeouts decides between their callers
\* when these share one object, or load their own one after the other:
\* whatever fails or crashes, task.json is whole, a reply that was accepted, and
\* so the only one, is in it for good with one subtask to take it up, the journal
\* knows of no other, and a task that waits has lost none and was not resumed.
ReplyKept ==
    ~raced =>
        /\ disk \in Records
        /\ \A c \in Replies : at[c] = "accepted" \/ c \in Logged("task_resumed") =>
               disk.status = "active" /\ disk.human = c /\ disk.queue = <<c>>
        /\ disk.status = "waiting" =>
               Logged("task_waiting") # {} /\ Logged("task_resumed") = {} /\ disk.queue = <<>>

\* What task.json keeps through all that calls, failures and crashes do: both.
RecordKept == WholeFile /\ ReplyKept

\* A refused reply was one too many: the task does leave its pause on disk,
\* unless a write failed or the process died, or two calls have mixed their
\* texts in one temporary file.  (After a failed write the object is active and
\* the record is not, and a retry is refused as well.)
RefusedIsMoot ==
    \A c \in Replies :
        at[c] = "refused" ~>
            \/ disk \in Records /\ disk.status # "paused"
            \/ disk = Torn
            \/ faults > 0 \/ crashes > 0
=============================================================================
