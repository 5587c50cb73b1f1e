--------------------------- MODULE DeliveryJournal ---------------------------
(***************************************************************************)
(* The journal file of a task (src/src/runtime/journal.ts) and the state   *)
(* of a delivery that is read back from it (delivery/delivery-state.ts).   *)
(* A journal is the sequence of its lines; it is open when its last line   *)
(* lacks the newline, because the append that wrote it was cut off.        *)
(***************************************************************************)
EXTENDS Naturals, Sequences

CONSTANT Files   \* what the implementation changed and delivery is to commit

Steps == {"stage", "commit", "push", "pr"}
Order == <<"stage", "commit", "push", "pr">>
Statuses == {"completed", "failed"}

\* ref: the commit, or the number of the pull request; files: stagedFiles.
Entries == [step: Steps \cup {"workspace"}, status: Statuses, ref: Nat, files: SUBSET Files]

\* A line JSON.parse rejects.
Garbled == [step |-> "garbled", status |-> "failed", ref |-> 0, files |-> {}]
Journals == [lines: Seq(Entries \cup {Garbled}), open: BOOLEAN]
EmptyJournal == [lines |-> <<>>, open |-> FALSE]

\* appendJournalEntry.  On an open journal the entry continues the last line.
Appended(j, e) ==
    IF j.open
    THEN [lines |-> [j.lines EXCEPT ![Len(j.lines)] = Garbled], open |-> FALSE]
    ELSE [j EXCEPT !.lines = Append(@, e)]

\* What is left of an append that was cut off: part of the line, or all of it
\* but the newline.
CutOff(j, e) ==
    IF j.open
    THEN {[j EXCEPT !.lines[Len(j.lines)] = Garbled]}
    ELSE {[lines |-> Append(j.lines, line), open |-> TRUE] : line \in {e, Garbled}}

\* Mutant of Readable: a malformed line ends the journal.
ReadableToGarbled(j) == {i \in DOMAIN j.lines : \A k \in 1 .. i : j.lines[k] # Garbled}

\* readJournal: the lines that parse.
Readable(j) == {i \in DOMAIN j.lines : j.lines[i] # Garbled}

About(j, s) == {i \in Readable(j) : j.lines[i].step = s}

\* Mutant of StepStatus: a failure stays.
StepStatusSticky(j, s) ==
    CASE About(j, s) = {} -> "pending"
      [] \E i \in About(j, s) : j.lines[i].status = "failed" -> "failed"
      [] OTHER -> "completed"

\* queryDeliveryState: the last entry about a step decides.
StepStatus(j, s) ==
    IF About(j, s) = {} THEN "pending"
    ELSE j.lines[CHOOSE i \in About(j, s) : \A k \in About(j, s) : k <= i].status

IsDeliveryComplete(j) == \A s \in Steps : StepStatus(j, s) = "completed"

\* getFailedSteps and getPendingSteps: what is left, the first of which is next.
Remaining(j) == {i \in DOMAIN Order : StepStatus(j, Order[i]) \in {"failed", "pending"}}
IsNextStep(j, s) ==
    \E i \in Remaining(j) : Order[i] = s /\ \A k \in Remaining(j) : i <= k
=============================================================================
