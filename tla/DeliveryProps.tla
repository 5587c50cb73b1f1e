--------------------------- MODULE DeliveryProps ---------------------------
(***************************************************************************)
(* The properties of the delivery and of the journal it relies on.         *)
(***************************************************************************)
EXTENDS Delivery

\* Types; no commit is empty, and no excluded file gets into the index.
TypeOK ==
    /\ missing \subseteq Files /\ saved \in BOOLEAN /\ afresh \in BOOLEAN
    /\ git \in Gits /\ git.index \subseteq Files \ Excluded
    /\ \A i \in DOMAIN git.commits : git.commits[i] # {}
    /\ prs \in Seq({"open", "closed"}) /\ journal \in Journals
    /\ at \in Calls /\ work \in Works
    /\ tries \in 0 .. MaxTries /\ faults \in 0 .. MaxFaults /\ crashes \in 0 .. MaxCrashes
    /\ written \in Nat /\ tears \in Nat

Said(i, s) == journal.lines[i].step = s /\ journal.lines[i].status = "completed"

JournalTrue ==
    \A i \in Readable(journal) :
        LET e == journal.lines[i] IN
        /\ Said(i, "workspace") => git.worktree /\ (saved \/ afresh)
        /\ Said(i, "commit") =>
             /\ e.ref \in DOMAIN git.commits
             /\ \A k \in Readable(journal) :
                  /\ k < i /\ Said(k, "stage") => journal.lines[k].files \subseteq Committed
                  /\ k > i /\ Said(k, "push") => e.ref <= git.remote
        /\ Said(i, "pr") => e.ref \in DOMAIN prs

\* The changes that are on the remote.
Delivered == UNION {git.commits[i] : i \in 1 .. git.remote}

\* A delivery that reads as complete delivered every file it reported as staged
\* and nothing the policy refuses; without a fault that is every file that is
\* there and not refused.
DeliveredFits ==
    IsDeliveryComplete(journal) =>
        /\ \A i \in Readable(journal) : Said(i, "stage") => journal.lines[i].files \subseteq Delivered
        /\ Delivered \cap (Excluded \cup missing) = {}
        /\ faults = 0 => Delivered = Files \ (Excluded \cup missing)

\* However often the step is repeated, the branch has one open pull request
\* (upsertDraftPr, "calling twice for the same branch creates only one PR").
OnePullRequest == Cardinality(OpenPrs) <= 1

LossBounded == Cardinality(Readable(journal)) + tears >= written

\* What the journal reports as completed is so, whatever failed, timed out or
\* crashed: the workspace is on disk, and in task.json unless a job delivered
\* again has overwritten it; a commit is in the branch and holds the staged
\* files, it is on the remote once a push is reported after it, and the pull
\* request exists.  And an append that was cut off costs at most one of the
\* entries whose append returned, the next one, which continues its line.
JournalSound == JournalTrue /\ LossBounded

\* The delivery cannot go on: the run has gone on without a workspace (as a job
\* delivered again does when the worktree of its first run is there), nothing can
\* be staged, or a commit was made and the journal does not say so.
Stuck ==
    \/ at = "idle" /\ ~saved
    \/ Files \subseteq Excluded \cup missing
    \/ StepStatus(journal, "commit") # "completed" /\ git.commits # <<>>

\* A delivery that is repeated completes, unless it is stuck.
DeliveryEnds == <>(IsDeliveryComplete(journal) \/ Stuck)
=============================================================================
