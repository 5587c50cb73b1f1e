------------------------------ MODULE Delivery ------------------------------
(***************************************************************************)
(* From a task's worktree to its pull request: the workspace runTask       *)
(* creates (utils/workspace.ts, worker.ts), the four delivery actions      *)
(* (src/src/delivery), each a sequence of git and gh calls, and the        *)
(* journal the state of the delivery is read back from.  A call that is    *)
(* reported as failed may have had its effect: the call was killed at its  *)
(* timeout.  git, GitHub and the coordinator, which runs the first step    *)
(* that is not completed and journals its result, are modelled from how    *)
(* the code and its tests use them.                                        *)
(***************************************************************************)
EXTENDS DeliveryJournal, FiniteSets

CONSTANTS
    Excluded,    \* files the staging policy refuses
    MaxTries,    \* bound: delivery steps the coordinator starts
    MaxFaults,   \* bound: calls, saves and appends that fail
    MaxCrashes   \* bound: crashes between two calls

ASSUME DeliveryAssumption ==
    /\ IsFiniteSet(Files) /\ Excluded \subseteq Files
    /\ MaxTries \in Nat /\ MaxFaults \in Nat /\ MaxCrashes \in Nat

VARIABLES
    missing,   \* files that were deleted: nothing is there to be staged
    afresh,    \* history: a job was run again from its data, over task.json
    saved,     \* task.json has the branch name and the workspace path
    git,       \* the worktree of the task, its index and branch, and the remote
    prs,       \* the pull requests of the branch, in the order of their numbers
    journal,   \* the journal file
    at,        \* the call that comes next, "out" when no run is under way
    work,      \* the delivery step under way
    tries, faults, crashes,
    written,   \* appends that returned
    tears      \* appends that were cut off

budget == <<tries, faults, crashes>>
logged == <<journal, written, tears>>
vars == <<missing, afresh, saved, git, prs, logged, at, work, budget>>

Calls == {"out", "worktree", "identity", "persist", "created", "idle", "add", "diff",
          "config", "commit", "sha", "push", "list", "edit", "create", "report"}
Gits == [worktree: BOOLEAN, index: SUBSET Files, commits: Seq(SUBSET Files), remote: Nat]
Works == [todo: SUBSET Files, slips: BOOLEAN, entry: Entries]

Committed == UNION {git.commits[i] : i \in DOMAIN git.commits}
NoWork(s) ==
    [todo |-> IF s = "stage" THEN Files ELSE {}, slips |-> FALSE,
     entry |-> [step |-> s, status |-> "failed", ref |-> 0, files |-> {}]]

Init ==
    /\ missing \in SUBSET Files
    /\ saved = FALSE /\ afresh = FALSE
    /\ git = [worktree |-> FALSE, index |-> {}, commits |-> <<>>, remote |-> 0]
    /\ prs = <<>> /\ journal = EmptyJournal
    /\ at = "out" /\ work = NoWork("stage")
    /\ tries = 0 /\ faults = 0 /\ crashes = 0 /\ written = 0 /\ tears = 0

\* Something fails: a call exits with an error or is killed at its timeout, a
\* token is missing, a file cannot be written.
Fault == faults < MaxFaults /\ faults' = faults + 1 /\ UNCHANGED <<tries, crashes>>
NoFault == UNCHANGED budget

(***************************************************************************)
(* The workspace.                                                          *)
(***************************************************************************)
\* A task that is run, or handed back by recovery, has what task.json has.  A
\* job that the queue delivers again after a crash has no workspace yet, and the
\* first save of its run is over task.json.
EnterRun ==
    /\ at = "out"
    /\ \/ at' = (IF saved THEN "idle" ELSE "worktree") /\ UNCHANGED <<saved, afresh>>
       \/ crashes > 0 /\ at' = "worktree" /\ saved' = FALSE /\ afresh' = TRUE
    /\ UNCHANGED <<missing, git, prs, logged, work, budget>>

\* git worktree add -b: refused when the branch exists.  The run goes on
\* without a workspace whenever createWorkspace reports an error.
AddWorktree ==
    /\ at = "worktree"
    /\ \/ git.worktree /\ at' = "idle" /\ UNCHANGED git /\ NoFault
       \/ /\ ~git.worktree /\ at' = "identity"
          /\ git' = [git EXCEPT !.worktree = TRUE] /\ NoFault
       \/ /\ ~git.worktree /\ at' = "idle"
          /\ git' \in {git, [git EXCEPT !.worktree = TRUE]} /\ Fault
    /\ UNCHANGED <<missing, afresh, saved, prs, logged, work>>

SetIdentity ==
    /\ at = "identity"
    /\ \/ at' = "persist" /\ NoFault
       \/ at' = "idle" /\ Fault
    /\ UNCHANGED <<missing, afresh, saved, git, prs, logged, work>>

\* An exception of persistTask or of the append ends the run.
PersistWorkspace ==
    /\ at = "persist"
    /\ \/ saved' = TRUE /\ at' = "created" /\ NoFault
       \/ UNCHANGED saved /\ at' = "out" /\ Fault
    /\ UNCHANGED <<missing, afresh, git, prs, logged, work>>

Logs(e) ==
    \/ /\ journal' = Appended(journal, e) /\ written' = written + 1 /\ UNCHANGED tears
       /\ at' = "idle" /\ NoFault
    \/ UNCHANGED logged /\ at' = "out" /\ Fault
    \/ /\ journal' \in CutOff(journal, e) /\ tears' = tears + 1 /\ UNCHANGED written
       /\ at' = "out" /\ Fault

LogWorkspace ==
    /\ at = "created"
    /\ Logs([step |-> "workspace", status |-> "completed", ref |-> 0, files |-> {}])
    /\ UNCHANGED <<missing, afresh, saved, git, prs, work>>

(***************************************************************************)
(* The coordinator.                                                        *)
(***************************************************************************)
FirstCall(s) ==
    CASE s = "stage" -> "add" [] s = "commit" -> "diff"
      [] s = "push" -> "push" [] s = "pr" -> "list"

\* Every action returns an error at once when it is given no workspace.
StartStep(s) ==
    /\ at = "idle" /\ tries < MaxTries
    /\ IsNextStep(journal, s)
    /\ at' = IF saved THEN FirstCall(s) ELSE "report"
    /\ work' = NoWork(s)
    /\ tries' = tries + 1
    /\ UNCHANGED <<missing, afresh, saved, git, prs, logged, faults, crashes>>

Returns(status, ref) ==
    /\ at' = "report"
    /\ work' = [work EXCEPT !.entry.status = status, !.entry.ref = ref]

Fails == Returns("failed", 0) /\ Fault

Report ==
    /\ at = "report"
    /\ Logs(work.entry)
    /\ UNCHANGED <<missing, afresh, saved, git, prs, work>>

(***************************************************************************)
(* stageExplicit.                                                          *)
(***************************************************************************)
\* git add: nothing is staged of a file that is already committed.
Staged(f) == [git EXCEPT !.index = @ \cup ({f} \ Committed)]

\* Mutants of Refused and SkipsFile: the policy does not look at the file, and
\* the loop over the files ends at a refused one.
RefusedMissing(f) == f \in missing
SkipsFileReturning(f) == work' = [work EXCEPT !.todo = {}]

\* processFile: isExcludedPath and existsSync; git add; a file whose git add
\* fails goes to the excluded ones.
Refused(f) == f \in Excluded \cup missing
SkipsFile(f) == work' = [work EXCEPT !.todo = @ \ {f}]
FileFails(f) ==
    /\ work' = [work EXCEPT !.todo = @ \ {f}, !.slips = TRUE]
    /\ git' \in {git, Staged(f)}

ProcessFile(f) ==
    /\ at = "add" /\ f \in work.todo
    /\ \/ Refused(f) /\ SkipsFile(f) /\ UNCHANGED git /\ NoFault
       \/ /\ ~Refused(f) /\ git' = Staged(f) /\ NoFault
          /\ work' = [work EXCEPT !.todo = @ \ {f}, !.entry.files = @ \cup {f}]
       \/ ~Refused(f) /\ FileFails(f) /\ Fault
    /\ UNCHANGED <<missing, afresh, saved, prs, logged, at>>

\* The result has no status.  The coordinator goes on only with something
\* staged, and may reject a result in which a git add failed.
StageReturns ==
    /\ at = "add" /\ work.todo = {}
    /\ \/ work.entry.files # {} /\ Returns("completed", 0)
       \/ (work.slips \/ work.entry.files = {}) /\ Returns("failed", 0)
    /\ NoFault
    /\ UNCHANGED <<missing, afresh, saved, git, prs, logged>>

(***************************************************************************)
(* commitWithTrailers.                                                     *)
(***************************************************************************)
CheckStaged ==
    /\ at = "diff"
    /\ \/ git.index # {} /\ at' = "config" /\ UNCHANGED work /\ NoFault
       \/ git.index = {} /\ Returns("failed", 0) /\ NoFault
       \/ Fails
    /\ UNCHANGED <<missing, afresh, saved, git, prs, logged>>

ConfigureIdentity ==
    /\ at = "config"
    /\ \/ at' = "commit" /\ UNCHANGED work /\ NoFault
       \/ Fails
    /\ UNCHANGED <<missing, afresh, saved, git, prs, logged>>

WithCommit == [git EXCEPT !.commits = Append(@, git.index), !.index = {}]

\* Mutant of CommitFails: the error is logged, and the id of HEAD is read.
CommitFailsUnseen == at' = "sha" /\ UNCHANGED <<work, git>> /\ Fault

CommitFails == Fails /\ git' \in {git, WithCommit}

Commit ==
    /\ at = "commit"
    /\ \/ at' = "sha" /\ git' = WithCommit /\ UNCHANGED work /\ NoFault
       \/ CommitFails
    /\ UNCHANGED <<missing, afresh, saved, prs, logged>>

ReadSha ==
    /\ at = "sha"
    /\ \/ Returns("completed", Len(git.commits)) /\ NoFault
       \/ Fails
    /\ UNCHANGED <<missing, afresh, saved, git, prs, logged>>

(***************************************************************************)
(* pushBranch and upsertDraftPr.                                           *)
(***************************************************************************)
Pushed == [git EXCEPT !.remote = Len(git.commits)]

Push ==
    /\ at = "push"
    /\ \/ Returns("completed", 0) /\ git' = Pushed /\ NoFault
       \/ Fails /\ git' \in {git, Pushed}
    /\ UNCHANGED <<missing, afresh, saved, prs, logged>>

\* Mutant of OpenPrs: the search looks for pull requests in another state.
OpenPrsClosed == {p \in DOMAIN prs : prs[p] = "closed"}

\* findExistingPr.
OpenPrs == {p \in DOMAIN prs : prs[p] = "open"}

ListPrs ==
    /\ at = "list"
    /\ \/ \E p \in OpenPrs :
            at' = "edit" /\ work' = [work EXCEPT !.entry.ref = p] /\ NoFault
       \/ OpenPrs = {} /\ at' = "create" /\ UNCHANGED work /\ NoFault
       \/ Fails
    /\ UNCHANGED <<missing, afresh, saved, git, prs, logged>>

EditPr ==
    /\ at = "edit"
    /\ \/ Returns("completed", work.entry.ref) /\ NoFault
       \/ Fails
    /\ UNCHANGED <<missing, afresh, saved, git, prs, logged>>

\* It is also reported as failed when the number cannot be read from the URL.
CreatePr ==
    /\ at = "create"
    /\ \/ Returns("completed", Len(prs) + 1) /\ prs' = Append(prs, "open") /\ NoFault
       \/ Fails /\ prs' \in {prs, Append(prs, "open")}
    /\ UNCHANGED <<missing, afresh, saved, git, logged>>

\* Somebody closes or merges a pull request.
ClosePr(p) ==
    /\ p \in DOMAIN prs /\ prs[p] = "open"
    /\ prs' = [prs EXCEPT ![p] = "closed"]
    /\ UNCHANGED <<missing, afresh, saved, git, logged, at, work, budget>>

Crash ==
    /\ at # "out" /\ crashes < MaxCrashes
    /\ at' = "out" /\ crashes' = crashes + 1
    /\ UNCHANGED <<missing, afresh, saved, git, prs, logged, work, tries, faults>>

Workspace ==
    EnterRun \/ AddWorktree \/ SetIdentity \/ PersistWorkspace \/ LogWorkspace

Next ==
    \/ Workspace \/ Report \/ StageReturns
    \/ \E s \in Steps : StartStep(s)
    \/ \E f \in Files : ProcessFile(f)
    \/ CheckStaged \/ ConfigureIdentity \/ Commit \/ ReadSha
    \/ Push \/ ListPrs \/ EditPr \/ CreatePr
    \/ \E p \in DOMAIN prs : ClosePr(p)
    \/ Crash

Spec == Init /\ [][Next]_vars

\* A call ends, a run is entered again and a failed step is tried again.
Undisturbed == Next /\ faults' = faults /\ crashes' = crashes
FairSpec == Spec /\ WF_vars(Undisturbed)
=============================================================================
