--------------------------- MODULE DeliveryProofs ---------------------------
(***************************************************************************)
(* What the journal of a delivery may be believed, proved for any files,   *)
(* faults and crashes.  DelInv is the inductive invariant; FitInv adds to  *)
(* it in which order the entries were written.                             *)
(***************************************************************************)
EXTENDS DeliveryProps, FiniteSetTheorems, WellFoundedInduction, TLAPS

\* Where a run stands, what has been done by then and what it works on.
WorkFits ==
    /\ git.remote <= Len(git.commits)
    /\ saved => git.worktree
    /\ at \in {"identity", "persist"} => git.worktree
    /\ at = "created" => saved
    /\ at = "add" => work.entry.step = "stage"
    /\ at \in {"diff", "config", "commit", "sha"} => work.entry.step = "commit"
    /\ at \in {"config", "commit"} => git.index # {}
    /\ at = "sha" => git.commits # <<>> /\ git.index = {}
    /\ at = "push" => work.entry.step = "push"
    /\ at \in {"list", "edit", "create"} => work.entry.step = "pr"
    /\ at = "edit" => work.entry.ref \in DOMAIN prs
    /\ at = "create" => OpenPrs = {}
    /\ work.entry.files \subseteq Committed \cup git.index

\* What it takes for an entry to be true at the moment it is journalled.
EntryTrue(e) ==
    e.status = "completed" =>
        /\ e.step = "workspace" => saved /\ git.worktree
        /\ e.step = "stage" => e.files \subseteq Committed \cup git.index
        /\ e.step = "commit" => git.index = {} /\ e.ref \in DOMAIN git.commits
        /\ e.step = "push" => git.remote = Len(git.commits)
        /\ e.step = "pr" => e.ref \in DOMAIN prs

\* A result that is about to be journalled is true.
ReportTrue == at = "report" => EntryTrue(work.entry)

\* What was reported as staged is in the index until it is committed.
StagedKept ==
    \A k \in Readable(journal) :
        Said(k, "stage") => journal.lines[k].files \subseteq Committed \cup git.index

OneOpen == \A p, q \in OpenPrs : p = q

\* The entries an open journal has still to lose, or to win back.
Slack(j) == IF ~j.open THEN 0 ELSE IF Len(j.lines) \in Readable(j) THEN 2 ELSE 1

TearsCover ==
    /\ journal.open => journal.lines # <<>>
    /\ written + Slack(journal) <= Cardinality(Readable(journal)) + tears

DelInv ==
    /\ TypeOK /\ WorkFits /\ ReportTrue
    /\ StagedKept /\ JournalTrue /\ OneOpen /\ TearsCover

(***************************************************************************)
(* The journal file.                                                       *)
(***************************************************************************)
\* The journal k tells what j tells, and e at most besides.
Tells(j, k, e) ==
    \A i \in Readable(k) :
        \/ i \in Readable(j) /\ k.lines[i] = j.lines[i]
        \/ i = Len(j.lines) + 1 /\ k.lines[i] = e

\* The readable lines are finitely many.
LEMMA ReadableFinite ==
  ASSUME NEW j \in Journals
  PROVE  /\ Readable(j) \subseteq 1 .. Len(j.lines)
         /\ IsFiniteSet(Readable(j)) /\ Cardinality(Readable(j)) \in Nat
<1>1. Len(j.lines) \in Nat /\ Readable(j) \subseteq 1 .. Len(j.lines)
  BY DEF Journals, Readable
<1>2. IsFiniteSet(1 .. Len(j.lines))
  BY <1>1, FS_Interval
<1> QED BY <1>1, <1>2, FS_Subset, FS_CardinalityType

\* An entry is not a garbled line.
LEMMA EntryReadable == \A e \in Entries : e # Garbled
BY DEF Entries, Garbled, Steps

\* On an open journal the last line is lost.
LEMMA LosesLast ==
  ASSUME NEW j \in Journals, j.open, j.lines # <<>>, NEW e \in Entries,
         NEW k \in [lines : {[j.lines EXCEPT ![Len(j.lines)] = Garbled]}, open : BOOLEAN]
  PROVE  /\ k \in Journals /\ k.lines # <<>> /\ Tells(j, k, e)
         /\ Len(k.lines) \notin Readable(k)
         /\ Readable(k) = Readable(j) \ {Len(j.lines)}
<1>1. /\ j.lines \in Seq(Entries \cup {Garbled}) /\ Len(j.lines) \in Nat
      /\ DOMAIN j.lines = 1 .. Len(j.lines) /\ Len(j.lines) \in DOMAIN j.lines
  BY DEF Journals
<1>2. /\ k.lines \in Seq(Entries \cup {Garbled}) /\ DOMAIN k.lines = DOMAIN j.lines
      /\ Len(k.lines) = Len(j.lines)
      /\ \A i \in DOMAIN j.lines :
           k.lines[i] = IF i = Len(j.lines) THEN Garbled ELSE j.lines[i]
  BY <1>1
<1>3. k \in Journals
  BY <1>2 DEF Journals
<1>4. k.lines # <<>>
  BY <1>1, <1>2
<1> QED BY <1>1, <1>2, <1>3, <1>4 DEF Readable, Tells

\* On a journal that is not open a line is added.
LEMMA AddsLine ==
  ASSUME NEW j \in Journals, NEW e \in Entries \cup {Garbled}, NEW b \in BOOLEAN,
         NEW k, k = [lines |-> Append(j.lines, e), open |-> b]
  PROVE  /\ k \in Journals /\ k.lines # <<>> /\ Tells(j, k, e)
         /\ Len(k.lines) = Len(j.lines) + 1
         /\ Readable(k) = Readable(j) \cup (IF e = Garbled THEN {} ELSE {Len(j.lines) + 1})
<1>1. /\ j.lines \in Seq(Entries \cup {Garbled}) /\ Len(j.lines) \in Nat
      /\ DOMAIN j.lines = 1 .. Len(j.lines)
  BY DEF Journals
<1>2. /\ k.lines \in Seq(Entries \cup {Garbled}) /\ Len(k.lines) = Len(j.lines) + 1
      /\ DOMAIN k.lines = 1 .. (Len(j.lines) + 1)
      /\ \A i \in DOMAIN j.lines : k.lines[i] = j.lines[i]
      /\ k.lines[Len(j.lines) + 1] = e
  BY <1>1
<1>3. k \in Journals /\ k.lines # <<>>
  BY <1>1, <1>2 DEF Journals
<1> QED BY <1>1, <1>2, <1>3 DEF Readable, Tells

\* An append that returned leaves a closed journal and costs what Slack allows.
LEMMA AppendTells ==
  ASSUME NEW j \in Journals, j.open => j.lines # <<>>, NEW e \in Entries,
         NEW k, k = Appended(j, e)
  PROVE  /\ k \in Journals /\ Tells(j, k, e) /\ ~k.open
         /\ 1 + Cardinality(Readable(j)) <= Cardinality(Readable(k)) + Slack(j)
<1>1. e # Garbled
  BY EntryReadable
<1>2. Len(j.lines) + 1 \notin Readable(j)
  <2>1. Readable(j) \subseteq 1 .. Len(j.lines) /\ Len(j.lines) \in Nat
    BY ReadableFinite DEF Journals
  <2> QED BY <2>1
<1>3. IsFiniteSet(Readable(j)) /\ Cardinality(Readable(j)) \in Nat
  BY ReadableFinite
<1>4. CASE j.open
  <2>1. k = [lines |-> [j.lines EXCEPT ![Len(j.lines)] = Garbled], open |-> FALSE]
    BY <1>4 DEF Appended
  <2>2. k \in Journals /\ Tells(j, k, e) /\ Readable(k) = Readable(j) \ {Len(j.lines)}
    <3>1. k \in [lines : {[j.lines EXCEPT ![Len(j.lines)] = Garbled]}, open : BOOLEAN]
      BY <2>1
    <3> QED BY <1>4, <3>1, LosesLast
  <2>3. Cardinality(Readable(k)) = IF Len(j.lines) \in Readable(j)
                                   THEN Cardinality(Readable(j)) - 1
                                   ELSE Cardinality(Readable(j))
    BY <1>3, <2>2, FS_RemoveElement
  <2> QED BY <1>3, <1>4, <2>1, <2>2, <2>3 DEF Slack
<1>5. CASE ~j.open
  <2>1. k = [lines |-> Append(j.lines, e), open |-> FALSE]
    BY <1>5 DEF Appended, Journals
  <2>2. k \in Journals /\ Tells(j, k, e) /\ Readable(k) = Readable(j) \cup {Len(j.lines) + 1}
    BY <1>1, <2>1, AddsLine
  <2>3. Cardinality(Readable(k)) = Cardinality(Readable(j)) + 1
    BY <1>2, <1>3, <2>2, FS_AddElement
  <2> QED BY <1>3, <1>5, <2>1, <2>2, <2>3 DEF Slack
<1> QED BY <1>4, <1>5

\* An append that was cut off leaves an open journal.
LEMMA CutOffTells ==
  ASSUME NEW j \in Journals, j.open => j.lines # <<>>, NEW e \in Entries,
         NEW k, k \in CutOff(j, e)
  PROVE  /\ k \in Journals /\ Tells(j, k, e) /\ k.open /\ k.lines # <<>>
         /\ Slack(k) + Cardinality(Readable(j)) <= Cardinality(Readable(k)) + Slack(j) + 1
<1>1. e # Garbled
  BY EntryReadable
<1>2. Len(j.lines) + 1 \notin Readable(j)
  <2>1. Readable(j) \subseteq 1 .. Len(j.lines) /\ Len(j.lines) \in Nat
    BY ReadableFinite DEF Journals
  <2> QED BY <2>1
<1>3. IsFiniteSet(Readable(j)) /\ Cardinality(Readable(j)) \in Nat
  BY ReadableFinite
<1>4. CASE j.open
  <2>1. k = [lines |-> [j.lines EXCEPT ![Len(j.lines)] = Garbled], open |-> TRUE]
    <3>1. k = [j EXCEPT !.lines[Len(j.lines)] = Garbled] /\ j.open = TRUE
      BY <1>4 DEF CutOff, Journals
    <3> QED BY <3>1 DEF Journals
  <2>2. /\ k \in Journals /\ Tells(j, k, e) /\ k.lines # <<>>
        /\ Len(k.lines) \notin Readable(k)
        /\ Readable(k) = Readable(j) \ {Len(j.lines)}
    <3>1. k \in [lines : {[j.lines EXCEPT ![Len(j.lines)] = Garbled]}, open : BOOLEAN]
      BY <2>1
    <3> QED BY <1>4, <3>1, LosesLast
  <2>3. Cardinality(Readable(k)) = IF Len(j.lines) \in Readable(j)
                                   THEN Cardinality(Readable(j)) - 1
                                   ELSE Cardinality(Readable(j))
    BY <1>3, <2>2, FS_RemoveElement
  <2> QED BY <1>3, <1>4, <2>1, <2>2, <2>3 DEF Slack
<1>5. CASE ~j.open
  <2>1. PICK line \in {e, Garbled} : k = [lines |-> Append(j.lines, line), open |-> TRUE]
    BY <1>5 DEF CutOff
  <2>2. /\ k \in Journals /\ Tells(j, k, line) /\ k.lines # <<>>
        /\ Len(k.lines) = Len(j.lines) + 1
        /\ Readable(k) = Readable(j) \cup (IF line = Garbled THEN {} ELSE {Len(j.lines) + 1})
    <3>1. TRUE \in BOOLEAN /\ line \in Entries \cup {Garbled}
      OBVIOUS
    <3> QED BY <2>1, <3>1, AddsLine, Zenon
  <2>3. Tells(j, k, e)
    BY <2>2 DEF Tells, Readable
  <2>4. CASE line = Garbled
    <3>1. Readable(k) = Readable(j)
      BY <2>2, <2>4
    <3>2. Len(k.lines) \notin Readable(k)
      BY <1>2, <2>2, <3>1
    <3> QED BY <1>3, <1>5, <2>1, <2>2, <2>3, <3>1, <3>2 DEF Slack
  <2>5. CASE line = e
    <3>1. Cardinality(Readable(k)) = Cardinality(Readable(j)) + 1
      BY <1>1, <1>2, <1>3, <2>2, <2>5, FS_AddElement
    <3> QED BY <1>3, <1>5, <2>1, <2>2, <2>3, <3>1 DEF Slack
  <2> QED BY <2>4, <2>5
<1> QED BY <1>4, <1>5

(***************************************************************************)
(* The steps preserve the invariant.                                       *)
(***************************************************************************)
\* The record a delivery step starts with is well formed.
LEMMA NoWorkTyped == \A s \in Steps : NoWork(s) \in Works
<1> SUFFICES ASSUME NEW s \in Steps PROVE NoWork(s) \in Works
  OBVIOUS
<1>1. [step |-> s, status |-> "failed", ref |-> 0, files |-> {}] \in Entries
  BY DEF Entries, Statuses
<1> QED BY <1>1 DEF NoWork, Works

\* The initial states satisfy the invariant.
LEMMA DelInit == Init => DelInv
<1> SUFFICES ASSUME Init PROVE DelInv
  OBVIOUS
<1>1. /\ Readable(journal) = {} /\ journal \in Journals /\ ~journal.open
      /\ Committed = {} /\ OpenPrs = {}
  BY DEF Init, Readable, EmptyJournal, Journals, Committed, OpenPrs
<1>2. work \in Works /\ work.entry.files = {}
  BY NoWorkTyped DEF Init, Steps, NoWork
<1>3. /\ git \in Gits /\ git.index = {} /\ DOMAIN git.commits = {}
      /\ git.remote <= Len(git.commits)
  BY DEF Init, Gits
<1>4. prs \in Seq({"open", "closed"}) /\ at = "out" /\ at \in Calls /\ ~saved
  BY DEF Init, Calls
<1>5. TypeOK
  <2>1. /\ missing \subseteq Files /\ saved \in BOOLEAN /\ afresh \in BOOLEAN /\ git.index \subseteq Files \ Excluded
        /\ \A i \in DOMAIN git.commits : git.commits[i] # {}
    BY <1>3 DEF Init
  <2>2. /\ tries \in 0 .. MaxTries /\ faults \in 0 .. MaxFaults /\ crashes \in 0 .. MaxCrashes
        /\ written \in Nat /\ tears \in Nat
    BY DeliveryAssumption DEF Init
  <2> QED BY <1>1, <1>2, <1>3, <1>4, <2>1, <2>2 DEF TypeOK
<1>6. TearsCover
  BY <1>1, FS_EmptySet DEF Init, TearsCover, Slack
<1> QED BY <1>1, <1>2, <1>3, <1>4, <1>5, <1>6
        DEF DelInv, WorkFits, ReportTrue, StagedKept, JournalTrue, OneOpen

\* What the journal may tell of only ever grows.
Grows ==
    /\ saved \/ afresh => saved' \/ afresh'
    /\ git.worktree => git'.worktree
    /\ DOMAIN git.commits \subseteq DOMAIN git'.commits
    /\ Committed \subseteq Committed'
    /\ Committed \cup git.index \subseteq Committed' \cup git'.index
    /\ git.remote <= git'.remote
    /\ DOMAIN prs \subseteq DOMAIN prs'

\* A step that leaves the journal alone leaves it true.
LEMMA JournalKept ==
  ASSUME DelInv, Grows, UNCHANGED logged, git' \in Gits
  PROVE  JournalTrue' /\ StagedKept' /\ TearsCover'
<1>1. Readable(journal') = Readable(journal) /\ journal' = journal
  BY DEF logged, Readable
<1>2. TearsCover'
  BY DEF DelInv, TearsCover, logged, Slack, Readable
<1>3. StagedKept'
  BY <1>1 DEF DelInv, StagedKept, Said, Grows
<1>4. ASSUME NEW i \in Readable(journal), Said(i, "workspace")
      PROVE  git'.worktree /\ (saved' \/ afresh')
  BY <1>4 DEF DelInv, JournalTrue, Grows
<1>5. ASSUME NEW i \in Readable(journal), Said(i, "pr")
      PROVE  journal.lines[i].ref \in DOMAIN prs'
  BY <1>5 DEF DelInv, JournalTrue, Grows
<1>6. ASSUME NEW i \in Readable(journal), Said(i, "commit")
      PROVE  /\ journal.lines[i].ref \in DOMAIN git'.commits
             /\ \A k \in Readable(journal) :
                  /\ k < i /\ Said(k, "stage") => journal.lines[k].files \subseteq Committed'
                  /\ k > i /\ Said(k, "push") => journal.lines[i].ref <= git'.remote
  <2>1. /\ journal.lines[i].ref \in DOMAIN git.commits
        /\ \A k \in Readable(journal) :
             /\ k < i /\ Said(k, "stage") => journal.lines[k].files \subseteq Committed
             /\ k > i /\ Said(k, "push") => journal.lines[i].ref <= git.remote
    BY <1>6 DEF DelInv, JournalTrue
  <2>2. git.remote \in Nat /\ git'.remote \in Nat /\ DOMAIN git.commits \subseteq Nat
    BY DEF DelInv, TypeOK, Gits
  <2> QED BY <2>1, <2>2 DEF Grows
<1>7. JournalTrue'
  BY <1>1, <1>4, <1>5, <1>6 DEF JournalTrue, Said
<1> QED BY <1>2, <1>3, <1>7

\* A step that journals an entry which is true leaves the journal true.
LEMMA JournalTold ==
  ASSUME DelInv, NEW e, EntryTrue(e), Tells(journal, journal', e), journal' \in Journals,
         UNCHANGED <<afresh, saved, git, prs>>
  PROVE  JournalTrue' /\ StagedKept'
<1>1. /\ \A i \in Readable(journal') :
           \/ i \in Readable(journal) /\ journal'.lines[i] = journal.lines[i]
           \/ i = Len(journal.lines) + 1 /\ journal'.lines[i] = e
      /\ \A i \in Readable(journal) : i \in Nat /\ i < Len(journal.lines) + 1
      /\ Committed' = Committed
  BY ReadableFinite DEF Tells, Committed, DelInv, TypeOK, Journals
<1>2. StagedKept'
  BY <1>1 DEF DelInv, StagedKept, EntryTrue, Said
<1>3. ASSUME NEW i \in Readable(journal'), Said(i, "workspace")'
      PROVE  git'.worktree /\ (saved' \/ afresh')
  BY <1>1, <1>3 DEF DelInv, JournalTrue, Said, EntryTrue
<1>4. ASSUME NEW i \in Readable(journal'), Said(i, "pr")'
      PROVE  journal'.lines[i].ref \in DOMAIN prs'
  BY <1>1, <1>4 DEF DelInv, JournalTrue, Said, EntryTrue
<1>5. ASSUME NEW i \in Readable(journal'), Said(i, "commit")'
      PROVE  /\ journal'.lines[i].ref \in DOMAIN git'.commits
             /\ \A k \in Readable(journal') :
                  /\ k < i /\ Said(k, "stage")' => journal'.lines[k].files \subseteq Committed'
                  /\ k > i /\ Said(k, "push")' => journal'.lines[i].ref <= git'.remote
  <2>1. CASE i \in Readable(journal) /\ journal'.lines[i] = journal.lines[i]
    <3>1. /\ journal.lines[i].ref \in DOMAIN git.commits
          /\ \A k \in Readable(journal) :
               /\ k < i /\ Said(k, "stage") => journal.lines[k].files \subseteq Committed
               /\ k > i /\ Said(k, "push") => journal.lines[i].ref <= git.remote
      BY <1>5, <2>1 DEF DelInv, JournalTrue, Said
    <3>2. e.status = "completed" /\ e.step = "push" => journal.lines[i].ref <= git.remote
      BY <3>1 DEF EntryTrue, DelInv, TypeOK, Gits
    <3> QED BY <1>1, <2>1, <3>1, <3>2 DEF Said
  <2>2. CASE i = Len(journal.lines) + 1 /\ journal'.lines[i] = e
    <3>1. e.status = "completed" /\ e.step = "commit"
      BY <1>5, <2>2 DEF Said
    <3>2. e.ref \in DOMAIN git.commits /\ git.index = {}
      BY <3>1 DEF EntryTrue
    <3>3. \A k \in Readable(journal') : ~(k > i)
      BY <1>1, <2>2 DEF DelInv, TypeOK, Journals
    <3>4. \A k \in Readable(journal') :
            Said(k, "stage")' => journal'.lines[k].files \subseteq Committed'
      BY <1>1, <1>2, <3>2 DEF StagedKept
    <3> QED BY <2>2, <3>2, <3>3, <3>4
  <2> QED BY <1>1, <2>1, <2>2
<1>6. JournalTrue'
  BY <1>3, <1>4, <1>5 DEF JournalTrue, Said
<1> QED BY <1>2, <1>6

\* The budget keeps its type.
LEMMA BudgetTyped ==
  ASSUME TypeOK, NoFault \/ Fault
  PROVE  /\ tries' \in 0 .. MaxTries /\ faults' \in 0 .. MaxFaults
         /\ crashes' \in 0 .. MaxCrashes
BY DeliveryAssumption DEF TypeOK, NoFault, Fault, budget

\* A step that neither journals nor touches git and the pull requests.
LEMMA QuietKeeps ==
  ASSUME DelInv, UNCHANGED <<logged, git, prs>>, saved \/ afresh => saved' \/ afresh',
         TypeOK', WorkFits', ReportTrue'
  PROVE  DelInv'
<1>1. Grows /\ git' \in Gits /\ OneOpen'
  BY DEF Grows, Committed, DelInv, TypeOK, Gits, OneOpen, OpenPrs
<1> QED BY <1>1, JournalKept DEF DelInv

\* The workspace.
LEMMA WorkspaceKeeps ==
  ASSUME DelInv, EnterRun \/ AddWorktree \/ SetIdentity \/ PersistWorkspace
  PROVE  DelInv'
<1> USE DEF DelInv
<1>1. /\ UNCHANGED <<missing, prs, logged, work>> /\ at' \in Calls \ {"report"}
      /\ saved' \in BOOLEAN /\ afresh' \in BOOLEAN
      /\ (saved \/ afresh => saved' \/ afresh')
      /\ git' \in {git, [git EXCEPT !.worktree = TRUE]}
      /\ NoFault \/ Fault
  BY DEF EnterRun, AddWorktree, SetIdentity, PersistWorkspace, NoFault, Calls, TypeOK
<1>2. /\ git' \in Gits /\ git'.index = git.index /\ git'.commits = git.commits
      /\ git'.remote = git.remote /\ (git.worktree => git'.worktree)
  BY <1>1 DEF TypeOK, Gits
<1>3. Committed' = Committed /\ OpenPrs' = OpenPrs
  BY <1>1, <1>2 DEF Committed, OpenPrs
<1>4. Grows
  BY <1>1, <1>2, <1>3 DEF Grows, TypeOK, Gits
<1>5. TypeOK'
  BY <1>1, <1>2, BudgetTyped DEF TypeOK, logged
<1>6. WorkFits'
  <2>1. /\ saved' => git'.worktree
        /\ at' \in {"identity", "persist"} => git'.worktree
        /\ at' = "created" => saved'
        /\ at' \in {"out", "worktree", "identity", "persist", "created", "idle"}
    BY <1>2 DEF EnterRun, AddWorktree, SetIdentity, PersistWorkspace, WorkFits, TypeOK, Gits
  <2> QED BY <1>1, <1>2, <1>3, <2>1 DEF WorkFits
<1>7. ReportTrue' /\ OneOpen'
  BY <1>1, <1>3 DEF ReportTrue, OneOpen
<1> QED BY <1>1, <1>2, <1>4, <1>5, <1>6, <1>7, JournalKept

\* The journal is written.
LEMMA LogsKeeps ==
  ASSUME DelInv, NEW e \in Entries, EntryTrue(e), Logs(e),
         UNCHANGED <<missing, afresh, saved, git, prs, work>>
  PROVE  DelInv'
<1> USE DEF DelInv
<1>1. at' \in {"idle", "out"} /\ (NoFault \/ Fault)
  BY DEF Logs
<1>2. Committed' = Committed /\ OpenPrs' = OpenPrs
  BY DEF Committed, OpenPrs
<1>3. WorkFits' /\ ReportTrue' /\ OneOpen'
  BY <1>1, <1>2 DEF WorkFits, ReportTrue, OneOpen
<1>4. journal \in Journals /\ (journal.open => journal.lines # <<>>)
  BY DEF TypeOK, TearsCover
<1>5. /\ Cardinality(Readable(journal)) \in Nat /\ Slack(journal) \in 0 .. 2
      /\ written \in Nat /\ tears \in Nat
      /\ written + Slack(journal) <= Cardinality(Readable(journal)) + tears
  BY <1>4, ReadableFinite DEF Slack, TypeOK, TearsCover
<1>6. CASE UNCHANGED logged
  <2>1. Grows /\ git' \in Gits
    BY <1>2 DEF Grows, TypeOK, Gits
  <2>2. TypeOK'
    BY <1>1, <1>6, BudgetTyped DEF TypeOK, logged, Calls
  <2> QED BY <1>3, <1>6, <2>1, <2>2, JournalKept
<1>7. CASE /\ journal' = Appended(journal, e) /\ written' = written + 1 /\ tears' = tears
  <2>1. /\ journal' \in Journals /\ Tells(journal, journal', e) /\ ~journal'.open
        /\ 1 + Cardinality(Readable(journal)) <= Cardinality(Readable(journal')) + Slack(journal)
    BY <1>4, <1>7, AppendTells
  <2>2. TypeOK'
    BY <1>1, <1>7, <2>1, BudgetTyped DEF TypeOK, Calls
  <2>3. Cardinality(Readable(journal')) \in Nat
    BY <2>1, ReadableFinite
  <2>4. TearsCover'
    BY <1>5, <1>7, <2>1, <2>3 DEF TearsCover, Slack
  <2> QED BY <1>3, <2>1, <2>2, <2>4, JournalTold
<1>8. CASE journal' \in CutOff(journal, e) /\ tears' = tears + 1 /\ written' = written
  <2>1. /\ journal' \in Journals /\ Tells(journal, journal', e) /\ journal'.lines # <<>>
        /\ Slack(journal') + Cardinality(Readable(journal))
             <= Cardinality(Readable(journal')) + Slack(journal) + 1
    BY <1>4, <1>8, CutOffTells
  <2>2. TypeOK'
    BY <1>1, <1>8, <2>1, BudgetTyped DEF TypeOK, Calls
  <2>3. Cardinality(Readable(journal')) \in Nat /\ Slack(journal') \in 0 .. 2
    BY <2>1, ReadableFinite DEF Slack
  <2>4. TearsCover'
    BY <1>5, <1>8, <2>1, <2>3 DEF TearsCover
  <2> QED BY <1>3, <2>1, <2>2, <2>4, JournalTold
<1> QED BY <1>6, <1>7, <1>8 DEF Logs

\* The coordinator starts a step.
LEMMA StartKeeps ==
  ASSUME DelInv, NEW s \in Steps, StartStep(s)
  PROVE  DelInv'
<1> USE DEF DelInv
<1>1. /\ UNCHANGED <<missing, afresh, saved, git, prs, logged, faults, crashes>>
      /\ work' = NoWork(s) /\ tries < MaxTries /\ tries' = tries + 1
      /\ at' = IF saved THEN FirstCall(s) ELSE "report"
  BY DEF StartStep
<1>2. /\ work' \in Works /\ work'.entry.step = s
      /\ work'.entry.status = "failed" /\ work'.entry.files = {}
  BY <1>1, NoWorkTyped DEF NoWork
<1>3. /\ at' = "add" => s = "stage"
      /\ at' = "diff" => s = "commit"
      /\ at' = "push" => s = "push"
      /\ at' = "list" => s = "pr"
      /\ at' \in {"add", "diff", "push", "list", "report"}
  BY <1>1 DEF FirstCall, Steps
<1>4. TypeOK'
  BY <1>1, <1>2, <1>3, DeliveryAssumption DEF TypeOK, Calls, logged
<1>5. WorkFits'
  <2>1. git' = git /\ saved' = saved /\ Committed' = Committed
    BY <1>1 DEF Committed
  <2> QED BY <1>2, <1>3, <2>1 DEF WorkFits
<1>6. ReportTrue'
  BY <1>2 DEF ReportTrue, EntryTrue
<1> QED BY <1>1, <1>4, <1>5, <1>6, QuietKeeps

\* The result of an action keeps the type of the step under way.
LEMMA ReturnsTyped ==
  ASSUME TypeOK, NEW status \in Statuses, NEW ref \in Nat, Returns(status, ref)
  PROVE  /\ at' = "report" /\ at' \in Calls /\ work' \in Works
         /\ work'.entry.status = status /\ work'.entry.ref = ref
         /\ work'.entry.step = work.entry.step /\ work'.entry.files = work.entry.files
BY DEF TypeOK, Works, Entries, Returns, Calls

\* A step that fails reports nothing that could be false.
LEMMA FailsTyped ==
  ASSUME TypeOK, Fails
  PROVE  /\ at' = "report" /\ at' \in Calls /\ work' \in Works
         /\ work'.entry.status = "failed" /\ work'.entry.files = work.entry.files
         /\ ReportTrue'
<1>1. "failed" \in Statuses /\ 0 \in Nat
  BY DEF Statuses
<1>2. /\ at' = "report" /\ at' \in Calls /\ work' \in Works
      /\ work'.entry.status = "failed" /\ work'.entry.files = work.entry.files
  BY <1>1, ReturnsTyped DEF Fails
<1> QED BY <1>2 DEF ReportTrue, EntryTrue

\* stageExplicit.
LEMMA StageKeeps ==
  ASSUME DelInv, (\E f \in Files : ProcessFile(f)) \/ StageReturns
  PROVE  DelInv'
<1> USE DEF DelInv
<1>1. ASSUME NEW f \in Files, ProcessFile(f)
      PROVE  DelInv'
  <2>1. /\ UNCHANGED <<missing, afresh, saved, prs, logged, at>> /\ at = "add"
        /\ NoFault \/ Fault
    BY <1>1 DEF ProcessFile
  <2>2. /\ git \in Gits /\ git.index \subseteq Files \ Excluded
        /\ work \in Works /\ work.entry \in Entries
    BY DEF TypeOK, Works
  <2>3. /\ Staged(f) \in Gits /\ Staged(f).worktree = git.worktree
        /\ Staged(f).commits = git.commits /\ Staged(f).remote = git.remote
        /\ Staged(f).index = git.index \cup ({f} \ Committed)
    BY <2>2 DEF Staged, Gits
  <2>4. git' = git \/ (git' = Staged(f) /\ f \notin Excluded)
    BY <1>1 DEF ProcessFile, FileFails, Refused
  <2>5. /\ git' \in Gits /\ git'.worktree = git.worktree /\ git'.commits = git.commits
        /\ git'.remote = git.remote /\ git.index \subseteq git'.index
        /\ git'.index \subseteq Files \ Excluded
    BY <2>2, <2>3, <2>4
  <2>6. Committed' = Committed /\ OpenPrs' = OpenPrs
    BY <2>1, <2>5 DEF Committed, OpenPrs
  <2>7. /\ work' \in Works /\ work'.entry.step = work.entry.step
        /\ work'.entry.files \subseteq Committed' \cup git'.index
    <3>1. work.entry.files \subseteq Committed \cup git.index
      BY DEF WorkFits
    <3>2. CASE \/ work' = [work EXCEPT !.todo = @ \ {f}]
               \/ work' = [work EXCEPT !.todo = @ \ {f}, !.slips = TRUE]
      <4>1. work' \in Works /\ work'.entry = work.entry
        BY <2>2, <3>2 DEF Works
      <4> QED BY <2>5, <2>6, <3>1, <4>1
    <3>3. CASE /\ git' = Staged(f)
               /\ work' = [work EXCEPT !.todo = @ \ {f}, !.entry.files = @ \cup {f}]
      <4>1. [work.entry EXCEPT !.files = @ \cup {f}] \in Entries
        BY <2>2 DEF Entries
      <4>2. /\ work' \in Works /\ work'.entry.step = work.entry.step
            /\ work'.entry.files = work.entry.files \cup {f}
        BY <2>2, <3>3, <4>1 DEF Works, Entries
      <4>3. f \in Committed' \cup git'.index
        BY <2>3, <2>6, <3>3
      <4> QED BY <2>5, <2>6, <3>1, <4>2, <4>3
    <3> QED BY <1>1, <3>2, <3>3 DEF ProcessFile, SkipsFile, FileFails
  <2>8. Grows
    BY <2>1, <2>5, <2>6 DEF Grows, TypeOK, Gits
  <2>9. TypeOK'
    BY <2>1, <2>5, <2>7, BudgetTyped DEF TypeOK, logged
  <2>10. WorkFits' /\ ReportTrue' /\ OneOpen'
    BY <2>1, <2>5, <2>6, <2>7 DEF WorkFits, ReportTrue, OneOpen
  <2> QED BY <2>1, <2>5, <2>8, <2>9, <2>10, JournalKept
<1>2. CASE StageReturns
  <2>1. UNCHANGED <<missing, afresh, saved, git, prs, logged>> /\ NoFault
    BY <1>2 DEF StageReturns
  <2>2. \E status \in Statuses : Returns(status, 0)
    BY <1>2 DEF StageReturns, Statuses
  <2>3. /\ at' = "report" /\ at' \in Calls /\ work' \in Works
        /\ work'.entry.step = work.entry.step /\ work'.entry.files = work.entry.files
    BY <2>2, ReturnsTyped
  <2>4. TypeOK'
    BY <2>1, <2>3, BudgetTyped DEF TypeOK, logged
  <2>5. WorkFits'
    BY <2>1, <2>3 DEF WorkFits, Committed, OpenPrs
  <2>6. ReportTrue'
    BY <1>2, <2>1, <2>3 DEF StageReturns, WorkFits, ReportTrue, EntryTrue, Committed
  <2> QED BY <2>1, <2>4, <2>5, <2>6, QuietKeeps
<1> QED BY <1>1, <1>2

\* A commit takes the index.
LEMMA CommitTakesIndex ==
  ASSUME TypeOK, git.index # {}, git' = WithCommit
  PROVE  /\ git' \in Gits /\ git'.worktree = git.worktree /\ git'.remote = git.remote
         /\ git'.index = {} /\ Len(git'.commits) = Len(git.commits) + 1
         /\ git'.commits # <<>> /\ DOMAIN git.commits \subseteq DOMAIN git'.commits
         /\ \A i \in DOMAIN git'.commits : git'.commits[i] # {}
         /\ Committed' = Committed \cup git.index
<1>1. git.commits \in Seq(SUBSET Files) /\ git.index \in SUBSET Files /\ git \in Gits
  BY DEF TypeOK, Gits
<1> DEFINE c == Append(git.commits, git.index)
<1>2. /\ c \in Seq(SUBSET Files) /\ Len(c) = Len(git.commits) + 1 /\ Len(git.commits) \in Nat
      /\ DOMAIN git.commits = 1 .. Len(git.commits) /\ DOMAIN c = 1 .. Len(c)
      /\ \A i \in DOMAIN git.commits : c[i] = git.commits[i]
      /\ c[Len(git.commits) + 1] = git.index
  BY <1>1
<1>3. /\ git' \in Gits /\ git'.worktree = git.worktree /\ git'.remote = git.remote
      /\ git'.index = {} /\ git'.commits = c
  BY <1>1, <1>2 DEF WithCommit, Gits
<1> HIDE DEF c
<1>4. /\ Len(git'.commits) = Len(git.commits) + 1 /\ git'.commits # <<>>
      /\ DOMAIN git'.commits = DOMAIN git.commits \cup {Len(git.commits) + 1}
  BY <1>2, <1>3
<1>5. \A i \in DOMAIN git'.commits : git'.commits[i] # {}
  BY <1>2, <1>3, <1>4 DEF TypeOK
<1>6. Committed' = Committed \cup git.index
  BY <1>2, <1>3, <1>4 DEF Committed
<1> QED BY <1>3, <1>4, <1>5, <1>6

\* commitWithTrailers.
LEMMA CommitKeeps ==
  ASSUME DelInv, CheckStaged \/ ConfigureIdentity \/ Commit \/ ReadSha
  PROVE  DelInv'
<1> USE DEF DelInv
<1>1. /\ UNCHANGED <<missing, afresh, saved, prs, logged>> /\ (NoFault \/ Fault)
      /\ at \in {"diff", "config", "commit", "sha"} /\ work.entry.step = "commit"
      /\ OpenPrs' = OpenPrs
  BY DEF CheckStaged, ConfigureIdentity, Commit, CommitFails, ReadSha, Fails, WorkFits, OpenPrs
<1>2. CASE Fails /\ git' = git
  <2>1. /\ at' = "report" /\ at' \in Calls /\ work' \in Works
        /\ work'.entry.files = work.entry.files /\ ReportTrue'
    BY <1>2, FailsTyped
  <2>2. TypeOK' /\ WorkFits'
    BY <1>1, <1>2, <2>1, BudgetTyped DEF TypeOK, WorkFits, logged, Committed
  <2> QED BY <1>1, <1>2, <2>1, <2>2, QuietKeeps
<1>3. CASE UNCHANGED <<git, work>> /\ at' \in {"config", "commit"}
  <2>1. TypeOK' /\ ReportTrue'
    BY <1>1, <1>3, BudgetTyped DEF TypeOK, logged, Calls, ReportTrue
  <2>2. git.index # {}
    BY <1>3 DEF CheckStaged, ConfigureIdentity, Commit, CommitFails, ReadSha, Fails, Returns, WorkFits
  <2>3. WorkFits'
    BY <1>1, <1>3, <2>2 DEF WorkFits, Committed
  <2> QED BY <1>1, <1>3, <2>1, <2>3, QuietKeeps
<1>4. CASE CheckStaged /\ Returns("failed", 0) /\ git.index = {}
  <2>1. git' = git /\ "failed" \in Statuses /\ 0 \in Nat
    BY <1>4 DEF CheckStaged, Statuses
  <2>2. /\ at' = "report" /\ at' \in Calls /\ work' \in Works
        /\ work'.entry.status = "failed" /\ work'.entry.files = work.entry.files
    BY <1>4, <2>1, ReturnsTyped
  <2>3. TypeOK' /\ WorkFits' /\ ReportTrue'
    BY <1>1, <2>1, <2>2, BudgetTyped
       DEF TypeOK, WorkFits, logged, Committed, ReportTrue, EntryTrue
  <2> QED BY <1>1, <2>1, <2>3, QuietKeeps
<1>5. CASE at = "commit" /\ git' = WithCommit /\ (Fails \/ (at' = "sha" /\ work' = work))
  <2>1. /\ git' \in Gits /\ git'.worktree = git.worktree /\ git'.remote = git.remote
        /\ git'.index = {} /\ Len(git'.commits) = Len(git.commits) + 1
        /\ git'.commits # <<>> /\ DOMAIN git.commits \subseteq DOMAIN git'.commits
        /\ \A i \in DOMAIN git'.commits : git'.commits[i] # {}
        /\ Committed' = Committed \cup git.index
    BY <1>5, CommitTakesIndex DEF WorkFits
  <2>2. git.remote \in Nat /\ Len(git.commits) \in Nat /\ git.remote <= Len(git.commits)
    BY DEF TypeOK, Gits, WorkFits
  <2>3. /\ at' \in {"report", "sha"} /\ at' \in Calls /\ work' \in Works
        /\ work'.entry.files = work.entry.files /\ ReportTrue'
        /\ at' = "sha" => work' = work
    BY <1>5, FailsTyped DEF TypeOK, Calls, ReportTrue
  <2>4. Grows
    BY <1>1, <2>1, <2>2 DEF Grows
  <2>5. TypeOK'
    BY <1>1, <2>1, <2>3, BudgetTyped DEF TypeOK, logged
  <2>6. WorkFits' /\ OneOpen'
    BY <1>1, <2>1, <2>2, <2>3 DEF WorkFits, OneOpen
  <2> QED BY <1>1, <2>1, <2>3, <2>4, <2>5, <2>6, JournalKept
<1>6. CASE ReadSha /\ Returns("completed", Len(git.commits))
  <2>1. /\ git' = git /\ git.index = {} /\ git.commits # <<>> /\ "completed" \in Statuses
        /\ git.commits \in Seq(SUBSET Files) /\ Len(git.commits) \in Nat
    BY <1>6 DEF ReadSha, WorkFits, Statuses, TypeOK, Gits
  <2>2. /\ at' = "report" /\ at' \in Calls /\ work' \in Works
        /\ work'.entry.step = "commit" /\ work'.entry.files = work.entry.files
        /\ work'.entry.ref = Len(git.commits)
    BY <1>1, <1>6, <2>1, ReturnsTyped
  <2>3. Len(git.commits) \in DOMAIN git.commits
    BY <2>1
  <2>4. TypeOK' /\ WorkFits' /\ ReportTrue'
    BY <1>1, <2>1, <2>2, <2>3, BudgetTyped
       DEF TypeOK, WorkFits, logged, Committed, ReportTrue, EntryTrue
  <2> QED BY <1>1, <2>1, <2>4, QuietKeeps
<1> QED BY <1>2, <1>3, <1>4, <1>5, <1>6
        DEF CheckStaged, ConfigureIdentity, Commit, CommitFails, ReadSha

\* pushBranch.
LEMMA PushKeeps ==
  ASSUME DelInv, Push
  PROVE  DelInv'
<1> USE DEF DelInv
<1>1. /\ UNCHANGED <<missing, afresh, saved, prs, logged>> /\ (NoFault \/ Fault)
      /\ at = "push" /\ git' \in {git, Pushed} /\ OpenPrs' = OpenPrs
  BY DEF Push, Fails, OpenPrs
<1>2. /\ git.remote \in Nat /\ Len(git.commits) \in Nat /\ git.remote <= Len(git.commits)
      /\ git \in Gits /\ git.commits \in Seq(SUBSET Files)
  BY DEF TypeOK, Gits, WorkFits
<1>3. /\ Pushed \in Gits /\ Pushed.worktree = git.worktree /\ Pushed.index = git.index
      /\ Pushed.commits = git.commits /\ Pushed.remote = Len(git.commits)
  BY <1>2 DEF Pushed, Gits
<1>4. /\ git' \in Gits /\ git'.worktree = git.worktree /\ git'.index = git.index
      /\ git'.commits = git.commits /\ Committed' = Committed
      /\ git.remote <= git'.remote /\ git'.remote <= Len(git.commits)
  BY <1>1, <1>2, <1>3 DEF Committed
<1>5. /\ at' = "report" /\ at' \in Calls /\ work' \in Works
      /\ work'.entry.files = work.entry.files /\ ReportTrue'
  <2>1. CASE Fails
    BY <2>1, FailsTyped
  <2>2. CASE Returns("completed", 0) /\ git' = Pushed
    <3>1. "completed" \in Statuses /\ 0 \in Nat /\ work.entry.step = "push"
      BY <1>1 DEF Statuses, WorkFits
    <3>2. /\ at' = "report" /\ at' \in Calls /\ work' \in Works
          /\ work'.entry.step = "push" /\ work'.entry.files = work.entry.files
      BY <2>2, <3>1, ReturnsTyped
    <3> QED BY <1>3, <2>2, <3>2 DEF ReportTrue, EntryTrue
  <2> QED BY <2>1, <2>2 DEF Push
<1>6. Grows
  BY <1>1, <1>4 DEF Grows
<1>7. TypeOK'
  BY <1>1, <1>4, <1>5, BudgetTyped DEF TypeOK, logged
<1>8. WorkFits' /\ OneOpen'
  BY <1>1, <1>4, <1>5 DEF WorkFits, OneOpen
<1> QED BY <1>1, <1>4, <1>5, <1>6, <1>7, <1>8, JournalKept

\* A step that changes the pull requests, or the call that is next.
LEMMA PrsKeep ==
  ASSUME DelInv, UNCHANGED <<missing, afresh, saved, git, logged>>, NoFault \/ Fault,
         at \in {"list", "edit", "create"},
         prs' \in Seq({"open", "closed"}), DOMAIN prs \subseteq DOMAIN prs', OneOpen',
         at' \in Calls, work' \in Works, work'.entry.files = work.entry.files,
         at' = "edit" => work'.entry.step = "pr" /\ work'.entry.ref \in DOMAIN prs',
         at' = "create" => work'.entry.step = "pr" /\ OpenPrs' = {},
         at' \in {"edit", "create", "report"}, ReportTrue'
  PROVE  DelInv'
<1> USE DEF DelInv
<1>1. Committed' = Committed
  BY DEF Committed
<1>2. Grows /\ git' \in Gits
  BY <1>1 DEF Grows, TypeOK, Gits
<1>3. TypeOK'
  BY BudgetTyped DEF TypeOK, logged
<1>4. WorkFits'
  BY <1>1 DEF WorkFits
<1> QED BY <1>2, <1>3, <1>4, JournalKept

\* upsertDraftPr.
LEMMA UpsertKeeps ==
  ASSUME DelInv, ListPrs \/ EditPr \/ CreatePr
  PROVE  DelInv'
<1> USE DEF DelInv
<1>1. /\ UNCHANGED <<missing, afresh, saved, git, logged>> /\ (NoFault \/ Fault)
      /\ at \in {"list", "edit", "create"} /\ work.entry.step = "pr"
  BY DEF ListPrs, EditPr, CreatePr, Fails, WorkFits
<1>2. /\ prs \in Seq({"open", "closed"}) /\ work \in Works /\ work.entry \in Entries
      /\ DOMAIN prs \subseteq Nat /\ Len(prs) \in Nat
  BY DEF TypeOK, Works
<1>3. CASE prs' = prs
  <2>1. OpenPrs' = OpenPrs /\ OneOpen'
    BY <1>3 DEF OneOpen, OpenPrs
  <2>2. CASE Fails
    BY <1>1, <1>2, <1>3, <2>1, <2>2, FailsTyped, PrsKeep
  <2>3. ASSUME ListPrs, NEW p \in OpenPrs, at' = "edit", work' = [work EXCEPT !.entry.ref = p]
        PROVE  DelInv'
    <3>1. p \in DOMAIN prs /\ p \in Nat
      BY <1>2, <2>3 DEF OpenPrs
    <3>2. /\ work' \in Works /\ work'.entry.ref = p /\ work'.entry.step = "pr"
          /\ work'.entry.files = work.entry.files
      BY <1>1, <1>2, <2>3, <3>1 DEF Works, Entries
    <3>3. at' \in Calls /\ ReportTrue'
      BY <2>3 DEF Calls, ReportTrue
    <3> QED BY <1>1, <1>2, <1>3, <2>1, <2>3, <3>1, <3>2, <3>3, PrsKeep
  <2>4. CASE ListPrs /\ OpenPrs = {} /\ at' = "create" /\ work' = work
    <3>1. at' \in Calls /\ ReportTrue'
      BY <2>4 DEF Calls, ReportTrue
    <3> QED BY <1>1, <1>2, <1>3, <2>1, <2>4, <3>1, PrsKeep
  <2>5. CASE EditPr /\ Returns("completed", work.entry.ref)
    <3>1. "completed" \in Statuses /\ work.entry.ref \in Nat /\ work.entry.ref \in DOMAIN prs
      BY <1>2, <2>5 DEF Statuses, Entries, EditPr, WorkFits
    <3>2. /\ at' = "report" /\ at' \in Calls /\ work' \in Works
          /\ work'.entry.step = "pr" /\ work'.entry.ref \in DOMAIN prs
          /\ work'.entry.files = work.entry.files
      BY <1>1, <2>5, <3>1, ReturnsTyped
    <3>3. ReportTrue'
      BY <1>3, <3>2 DEF ReportTrue, EntryTrue
    <3> QED BY <1>1, <1>2, <1>3, <2>1, <3>2, <3>3, PrsKeep
  <2> QED BY <1>2, <1>3, <2>2, <2>3, <2>4, <2>5 DEF ListPrs, EditPr, CreatePr
<1>4. CASE at = "create" /\ prs' = Append(prs, "open")
  <2>1. /\ prs' \in Seq({"open", "closed"}) /\ DOMAIN prs' = 1 .. (Len(prs) + 1)
        /\ DOMAIN prs = 1 .. Len(prs) /\ DOMAIN prs \subseteq DOMAIN prs'
        /\ Len(prs) + 1 \in DOMAIN prs'
        /\ \A p \in DOMAIN prs : prs'[p] = prs[p]
    BY <1>2, <1>4
  <2>2. OpenPrs' \subseteq {Len(prs) + 1}
    <3>1. OpenPrs = {}
      BY <1>4 DEF WorkFits
    <3> QED BY <1>2, <2>1, <3>1 DEF OpenPrs
  <2>3. OneOpen'
    BY <2>2 DEF OneOpen
  <2>4. /\ at' = "report" /\ at' \in Calls /\ work' \in Works
        /\ work'.entry.files = work.entry.files /\ ReportTrue'
    <3>1. CASE Fails
      BY <3>1, FailsTyped
    <3>2. CASE Returns("completed", Len(prs) + 1)
      <4>1. "completed" \in Statuses /\ Len(prs) + 1 \in Nat
        BY <1>2 DEF Statuses
      <4>2. /\ at' = "report" /\ at' \in Calls /\ work' \in Works
            /\ work'.entry.step = "pr" /\ work'.entry.ref = Len(prs) + 1
            /\ work'.entry.files = work.entry.files
        BY <1>1, <3>2, <4>1, ReturnsTyped
      <4> QED BY <2>1, <4>2 DEF ReportTrue, EntryTrue
    <3> QED BY <1>4, <3>1, <3>2 DEF ListPrs, EditPr, CreatePr
  <2> QED BY <1>1, <2>1, <2>3, <2>4, PrsKeep
<1> QED BY <1>3, <1>4 DEF ListPrs, EditPr, CreatePr

\* Somebody closes a pull request.
LEMMA CloseKeeps ==
  ASSUME DelInv, NEW p \in DOMAIN prs, ClosePr(p)
  PROVE  DelInv'
<1> USE DEF DelInv
<1>1. /\ UNCHANGED <<missing, afresh, saved, git, logged, at, work, budget>>
      /\ prs' = [prs EXCEPT ![p] = "closed"]
  BY DEF ClosePr
<1>2. /\ prs' \in Seq({"open", "closed"}) /\ DOMAIN prs' = DOMAIN prs
      /\ OpenPrs' \subseteq OpenPrs
  BY <1>1 DEF TypeOK, OpenPrs
<1>3. Committed' = Committed
  BY <1>1 DEF Committed
<1>4. Grows /\ git' \in Gits
  BY <1>1, <1>2, <1>3 DEF Grows, TypeOK, Gits
<1>5. TypeOK'
  BY <1>1, <1>2 DEF TypeOK, logged, budget
<1>6. WorkFits' /\ ReportTrue' /\ OneOpen'
  BY <1>1, <1>2, <1>3 DEF WorkFits, ReportTrue, EntryTrue, OneOpen
<1> QED BY <1>1, <1>4, <1>5, <1>6, JournalKept

\* Every step preserves the invariant.
LEMMA DelStep == DelInv /\ [Next]_vars => DelInv'
<1> SUFFICES ASSUME DelInv, [Next]_vars PROVE DelInv'
  OBVIOUS
<1>1. CASE EnterRun \/ AddWorktree \/ SetIdentity \/ PersistWorkspace
  BY <1>1, WorkspaceKeeps
<1>2. CASE LogWorkspace
  <2> DEFINE e == [step |-> "workspace", status |-> "completed", ref |-> 0, files |-> {}]
  <2>1. e \in Entries
    BY DEF Entries, Statuses
  <2>2. EntryTrue(e)
    BY <1>2 DEF LogWorkspace, EntryTrue, DelInv, WorkFits
  <2> QED BY <1>2, <2>1, <2>2, LogsKeeps DEF LogWorkspace
<1>3. CASE Report
  <2>1. work.entry \in Entries /\ EntryTrue(work.entry)
    BY <1>3 DEF Report, DelInv, TypeOK, Works, ReportTrue
  <2> QED BY <1>3, <2>1, LogsKeeps DEF Report
<1>4. CASE (\E f \in Files : ProcessFile(f)) \/ StageReturns
  BY <1>4, StageKeeps
<1>5. ASSUME NEW s \in Steps, StartStep(s) PROVE DelInv'
  BY <1>5, StartKeeps
<1>6. CASE CheckStaged \/ ConfigureIdentity \/ Commit \/ ReadSha
  BY <1>6, CommitKeeps
<1>7. CASE Push
  BY <1>7, PushKeeps
<1>8. CASE ListPrs \/ EditPr \/ CreatePr
  BY <1>8, UpsertKeeps
<1>9. ASSUME NEW p \in DOMAIN prs, ClosePr(p) PROVE DelInv'
  BY <1>9, CloseKeeps
<1>10. CASE Crash
  <2>1. UNCHANGED <<missing, afresh, saved, git, prs, logged, work, tries, faults>> /\ at' = "out"
    BY <1>10 DEF Crash
  <2>2. TypeOK'
    BY <1>10, <2>1, DeliveryAssumption DEF Crash, DelInv, TypeOK, logged, Calls
  <2>3. WorkFits' /\ ReportTrue'
    BY <2>1 DEF DelInv, WorkFits, ReportTrue, Committed
  <2> QED BY <2>1, <2>2, <2>3, QuietKeeps
<1>11. CASE UNCHANGED vars
  BY <1>11 DEF vars, logged, budget, DelInv, TypeOK, WorkFits, ReportTrue, EntryTrue, StagedKept,
               JournalTrue, OneOpen, TearsCover, Slack, Said, Readable, Committed, OpenPrs
<1> QED BY <1>1, <1>2, <1>3, <1>4, <1>5, <1>6, <1>7, <1>8, <1>9, <1>10, <1>11
        DEF Next, Workspace

\* The invariant holds in every run of the delivery.
THEOREM DelInvariant == Spec => []DelInv
BY DelInit, DelStep, PTL DEF Spec

(***************************************************************************)
(* What follows of it.                                                     *)
(***************************************************************************)
\* Every variable of the delivery (src/src/delivery) keeps its type; no commit
\* is empty and no excluded file gets into the index.
THEOREM DeliveryTypeCorrect == Spec => []TypeOK
<1>1. DelInv => TypeOK
  BY DEF DelInv
<1> QED BY <1>1, DelInvariant, PTL

\* However often upsertDraftPr is repeated, the branch has one open pull request.
THEOREM AtMostOneOpen == Spec => []OnePullRequest
<1>1. DelInv => OnePullRequest
  <2> SUFFICES ASSUME OneOpen PROVE Cardinality(OpenPrs) <= 1
    BY DEF DelInv, OnePullRequest
  <2>1. CASE OpenPrs = {}
    BY <2>1, FS_EmptySet
  <2>2. ASSUME NEW p \in OpenPrs PROVE Cardinality(OpenPrs) <= 1
    <3>1. OpenPrs = {p}
      BY DEF OneOpen
    <3> QED BY <3>1, FS_Singleton
  <2> QED BY <2>1, <2>2
<1> QED BY <1>1, DelInvariant, PTL

\* What the journal reports as completed is so, whatever failed, timed out or
\* crashed (the journal entries of worker.ts and of the delivery actions), and
\* an append that was cut off costs at most one of the entries whose append
\* returned (appendJournalEntry, readJournal).
THEOREM JournalTellsTruth == Spec => []JournalSound
<1>1. DelInv => LossBounded
  <2> SUFFICES ASSUME DelInv PROVE Cardinality(Readable(journal)) + tears >= written
    BY DEF LossBounded
  <2>1. /\ Cardinality(Readable(journal)) \in Nat /\ tears \in Nat /\ written \in Nat
        /\ Slack(journal) \in 0 .. 2
    BY ReadableFinite DEF DelInv, TypeOK, Slack
  <2> QED BY <2>1 DEF DelInv, TearsCover
<1>2. DelInv => JournalSound
  BY <1>1 DEF DelInv, JournalSound
<1> QED BY <1>2, DelInvariant, PTL

(***************************************************************************)
(* The order of the entries                                                *)
(***************************************************************************)
\* A set of lines has a last one.
LEMMA LastOf ==
  ASSUME NEW n \in Nat, NEW S \in SUBSET (1 .. n), S # {}
  PROVE  \E i \in S : \A k \in S : k <= i
<1> DEFINE T == {n - i : i \in S}
<1>1. T \subseteq Nat /\ T # {}
  <2>1. \A i \in S : n - i \in Nat
    OBVIOUS
  <2>2. PICK i \in S : TRUE
    OBVIOUS
  <2>3. n - i \in T
    OBVIOUS
  <2> QED BY <2>1, <2>3
<1>2. PICK x \in T : \A y \in T : ~ (<<y, x>> \in OpToRel(<, Nat))
  BY <1>1, WFMin, NatLessThanWellFounded
<1>3. \A y \in T : ~(y < x)
  BY <1>1, <1>2 DEF OpToRel
<1>4. PICK i \in S : x = n - i
  BY <1>2
<1>5. ASSUME NEW k \in S PROVE k <= i
  <2>1. n - k \in T
    OBVIOUS
  <2>2. ~(n - k < n - i)
    BY <1>3, <1>4, <2>1
  <2> QED BY <2>2
<1> QED BY <1>5

\* A step that reads as completed has an entry that says so.
LEMMA CompletedSaid ==
  ASSUME TypeOK, NEW s, StepStatus(journal, s) = "completed"
  PROVE  \E k \in Readable(journal) : Said(k, s)
<1>1. About(journal, s) # {}
  BY DEF StepStatus
<1>2. About(journal, s) \in SUBSET (1 .. Len(journal.lines)) /\ Len(journal.lines) \in Nat
  BY DEF About, Readable, TypeOK, Journals
<1>3. \E i \in About(journal, s) : \A k \in About(journal, s) : k <= i
  BY <1>1, <1>2, LastOf
<1> DEFINE last == CHOOSE i \in About(journal, s) : \A k \in About(journal, s) : k <= i
<1>4. last \in About(journal, s)
  BY <1>3
<1>5. journal.lines[last].status = "completed"
  BY <1>1 DEF StepStatus
<1> QED BY <1>4, <1>5 DEF About, Said

\* The status of a step is one of three.
LEMMA StatusKnown ==
  ASSUME TypeOK, NEW s
  PROVE  StepStatus(journal, s) \in {"pending", "failed", "completed"}
<1>1. CASE About(journal, s) = {}
  BY <1>1 DEF StepStatus
<1>2. CASE About(journal, s) # {}
  <2>1. About(journal, s) \in SUBSET (1 .. Len(journal.lines)) /\ Len(journal.lines) \in Nat
    BY DEF About, Readable, TypeOK, Journals
  <2>2. \E i \in About(journal, s) : \A k \in About(journal, s) : k <= i
    BY <1>2, <2>1, LastOf
  <2> DEFINE last == CHOOSE i \in About(journal, s) : \A k \in About(journal, s) : k <= i
  <2>3. last \in About(journal, s)
    BY <2>2
  <2>4. StepStatus(journal, s) = journal.lines[last].status
    BY <1>2 DEF StepStatus
  <2> HIDE DEF last
  <2>5. journal.lines[last] \in Entries \cup {Garbled}
    BY <2>3 DEF About, Readable, TypeOK, Journals
  <2> QED BY <2>4, <2>5 DEF Entries, Statuses, Garbled
<1> QED BY <1>1, <1>2

\* The steps that come before one in Order.
Before(s) ==
    CASE s = "stage" -> {} [] s = "commit" -> {"stage"}
      [] s = "push" -> {"stage", "commit"} [] s = "pr" -> {"stage", "commit", "push"}

\* The steps that were reported as completed before line n.
DoneBefore(n) == {s \in Steps : \E k \in Readable(journal) : k < n /\ Said(k, s)}
Done == {s \in Steps : \E k \in Readable(journal) : Said(k, s)}

\* Every entry was written in turn: its step was not done, all before it were.
InTurn ==
    \A i \in Readable(journal) :
        LET s == journal.lines[i].step
        IN  s \in Steps => s \notin DoneBefore(i) /\ Before(s) \subseteq DoneBefore(i)

\* The calls of a delivery step.
UnderWay == at \in Calls \ {"out", "worktree", "identity", "persist", "created", "idle"}

\* The step under way is the next one.
StepInTurn == UnderWay => work.entry.step \notin Done /\ Before(work.entry.step) \subseteq Done

\* Once a push was reported, nothing is committed that is not on the remote.
AllPushed == "push" \in Done => git.remote = Len(git.commits)

\* What may be delivered.
Allowed == Files \ (Excluded \cup missing)

\* Only that gets into the index and the branch, ...
OnlyAllowed == Committed \cup git.index \subseteq Allowed

\* ... and, without a fault, all of it is staged.
AllStaged ==
    faults = 0 =>
        /\ \A k \in Readable(journal) : Said(k, "stage") => Allowed \subseteq journal.lines[k].files
        /\ at = "add" => Allowed \subseteq work.entry.files \cup work.todo
        /\ at = "report" /\ work.entry.step = "stage" /\ work.entry.status = "completed" =>
             Allowed \subseteq work.entry.files

\* The inductive invariant of DeliveredFits.
FitInv == InTurn /\ StepInTurn /\ AllPushed /\ OnlyAllowed /\ AllStaged

\* What is done before a line is done.
LEMMA DoneBeforeDone == \A n : DoneBefore(n) \subseteq Done
BY DEF DoneBefore, Done

\* A step that is done reads as completed, and by an entry that comes last.
LEMMA DoneCompleted ==
  ASSUME TypeOK, InTurn, NEW s \in Steps, NEW i \in Readable(journal), Said(i, s)
  PROVE  /\ \A k \in About(journal, s) : k <= i
         /\ StepStatus(journal, s) = "completed"
<1>1. \A k \in Readable(journal) : k \in Nat
  BY ReadableFinite DEF TypeOK
<1>2. ASSUME NEW k \in About(journal, s) PROVE k <= i
  <2>1. k \in Readable(journal) /\ journal.lines[k].step = s
    BY DEF About
  <2>2. s \notin DoneBefore(k)
    BY <2>1 DEF InTurn
  <2>3. ~(i < k)
    BY <2>2 DEF DoneBefore
  <2> QED BY <1>1, <2>1, <2>3
<1>3. i \in About(journal, s)
  BY DEF About, Said
<1>4. (CHOOSE n \in About(journal, s) : \A k \in About(journal, s) : k <= n) = i
  <2>1. \A n \in About(journal, s) : (\A k \in About(journal, s) : k <= n) => n = i
    BY <1>1, <1>2, <1>3 DEF About
  <2> QED BY <1>2, <1>3, <2>1
<1>5. StepStatus(journal, s) = "completed"
  BY <1>3, <1>4 DEF StepStatus, Said
<1> QED BY <1>2, <1>5

\* The coordinator starts the next step.
LEMMA NextInTurn ==
  ASSUME TypeOK, InTurn, NEW s \in Steps, IsNextStep(journal, s)
  PROVE  s \notin Done /\ Before(s) \subseteq Done
<1>1. ASSUME NEW t \in Steps, StepStatus(journal, t) = "completed" PROVE t \in Done
  BY <1>1, CompletedSaid DEF Done
<1>2. ASSUME NEW t \in Done PROVE StepStatus(journal, t) = "completed"
  BY DoneCompleted DEF Done
<1>3. ASSUME NEW t \in Steps PROVE StepStatus(journal, t) \in {"pending", "failed", "completed"}
  BY StatusKnown
<1>4. PICK i \in Remaining(journal) : Order[i] = s /\ \A k \in Remaining(journal) : i <= k
  BY DEF IsNextStep
<1>5. i \in 1 .. 4 /\ StepStatus(journal, s) \in {"failed", "pending"}
  BY <1>4 DEF Remaining, Order
<1>6. \A k \in 1 .. 4 : k < i => StepStatus(journal, Order[k]) \notin {"failed", "pending"}
  BY <1>4, <1>5 DEF Remaining, Order
<1>7. /\ Order[1] = "stage" /\ Order[2] = "commit" /\ Order[3] = "push" /\ Order[4] = "pr"
  BY DEF Order
<1>8. \A k \in 1 .. 4 : k < i => Order[k] \in Done
  <2> SUFFICES ASSUME NEW k \in 1 .. 4, k < i PROVE Order[k] \in Done
    OBVIOUS
  <2>1. Order[k] \in Steps
    BY <1>7 DEF Steps
  <2> QED BY <1>1, <1>3, <1>6, <2>1
<1>9. Before(s) \subseteq Done
  <2>1. CASE i = 1
    BY <1>4, <1>7, <2>1 DEF Before
  <2>2. CASE i = 2
    BY <1>4, <1>7, <1>8, <2>2 DEF Before
  <2>3. CASE i = 3
    BY <1>4, <1>7, <1>8, <2>3 DEF Before
  <2>4. CASE i = 4
    BY <1>4, <1>7, <1>8, <2>4 DEF Before
  <2> QED BY <1>5, <2>1, <2>2, <2>3, <2>4
<1> QED BY <1>2, <1>5, <1>9

\* An append loses nothing but the last line.
KeepsEarlier(j, k) ==
    \A i \in Readable(k) : \A l \in Readable(j) : l < i => l \in Readable(k) /\ k.lines[l] = j.lines[l]

\* Both ways to lose the last line, or to add one, do.
LEMMA AppendKeepsEarlier ==
  ASSUME NEW j \in Journals, j.open => j.lines # <<>>, NEW e \in Entries,
         NEW k, k = Appended(j, e) \/ k \in CutOff(j, e)
  PROVE  k \in Journals /\ Tells(j, k, e) /\ KeepsEarlier(j, k)
<1>1. k \in Journals /\ Tells(j, k, e)
  BY AppendTells, CutOffTells
<1>2. Readable(j) \subseteq 1 .. Len(j.lines) /\ Len(j.lines) \in Nat
  BY ReadableFinite DEF Journals
<1>3. CASE j.open
  <2>1. k \in [lines : {[j.lines EXCEPT ![Len(j.lines)] = Garbled]}, open : BOOLEAN]
    <3>1. CASE k = Appended(j, e)
      <4>1. k = [lines |-> [j.lines EXCEPT ![Len(j.lines)] = Garbled], open |-> FALSE]
        BY <1>3, <3>1 DEF Appended
      <4> QED BY <4>1
    <3>2. CASE k \in CutOff(j, e)
      <4>1. k = [j EXCEPT !.lines[Len(j.lines)] = Garbled]
        BY <1>3, <3>2 DEF CutOff
      <4>2. k = [lines |-> [j.lines EXCEPT ![Len(j.lines)] = Garbled], open |-> TRUE]
        BY <1>3, <4>1 DEF Journals
      <4> QED BY <4>2
    <3> QED BY <3>1, <3>2
  <2>2. Readable(k) = Readable(j) \ {Len(j.lines)}
    BY <1>3, <2>1, LosesLast
  <2> QED BY <1>1, <1>2, <2>2 DEF KeepsEarlier, Tells
<1>4. CASE ~j.open
  <2>1. PICK line \in {e, Garbled}, b \in BOOLEAN : k = [lines |-> Append(j.lines, line), open |-> b]
    <3>1. CASE k = Appended(j, e)
      BY <1>4, <3>1 DEF Appended, Journals
    <3>2. CASE k \in CutOff(j, e)
      BY <1>4, <3>2 DEF CutOff
    <3> QED BY <3>1, <3>2
  <2>2. line \in Entries \cup {Garbled}
    OBVIOUS
  <2>3. Readable(j) \subseteq Readable(k)
    <3>1. Readable(k) = Readable(j) \cup (IF line = Garbled THEN {} ELSE {Len(j.lines) + 1})
      BY <2>1, <2>2, AddsLine, Zenon
    <3> QED BY <3>1
  <2>4. Readable(k) \subseteq Nat
    BY <1>1, ReadableFinite
  <2> QED BY <1>1, <1>2, <2>3, <2>4 DEF KeepsEarlier, Tells
<1> QED BY <1>3, <1>4

\* A fault stays counted.
LEMMA FaultCounted ==
  ASSUME TypeOK, NoFault \/ Fault, faults' = 0
  PROVE  faults = 0
BY DEF TypeOK, NoFault, Fault, budget

\* The initial states satisfy the invariant.
LEMMA FitInit == Init => FitInv
<1> SUFFICES ASSUME Init PROVE FitInv
  OBVIOUS
<1>1. /\ Readable(journal) = {} /\ Committed = {} /\ git.index = {} /\ at = "out"
  BY DEF Init, Readable, EmptyJournal, Committed
<1>2. Done = {}
  BY <1>1 DEF Done
<1> QED BY <1>1, <1>2 DEF FitInv, InTurn, StepInTurn, UnderWay, AllPushed, OnlyAllowed, AllStaged

\* An entry that was written in turn keeps the invariant.
LEMMA FitLogs ==
  ASSUME DelInv, FitInv, NEW e \in Entries, EntryTrue(e), Logs(e),
         e.step \in Steps => e.step \notin Done /\ Before(e.step) \subseteq Done,
         faults = 0 /\ e.step = "stage" /\ e.status = "completed" => Allowed \subseteq e.files,
         UNCHANGED <<missing, afresh, saved, git, prs, work>>
  PROVE  FitInv'
<1>1. at' \in {"idle", "out"} /\ (faults' = 0 => faults = 0)
  <2>1. at' \in {"idle", "out"} /\ (NoFault \/ Fault)
    BY DEF Logs
  <2> QED BY <2>1, FaultCounted DEF DelInv
<1>2. /\ Tells(journal, journal', e) /\ KeepsEarlier(journal, journal')
      /\ journal' \in Journals /\ journal \in Journals
  <2>1. journal \in Journals /\ (journal.open => journal.lines # <<>>)
    BY DEF DelInv, TypeOK, TearsCover
  <2>2. CASE journal' = journal
    BY <2>1, <2>2 DEF Tells, KeepsEarlier
  <2>3. CASE journal' = Appended(journal, e) \/ journal' \in CutOff(journal, e)
    BY <2>1, <2>3, AppendKeepsEarlier
  <2> QED BY <2>2, <2>3 DEF Logs, logged
<1>3. \A i \in Readable(journal') :
         \/ i \in Readable(journal) /\ journal'.lines[i] = journal.lines[i]
         \/ i = Len(journal.lines) + 1 /\ journal'.lines[i] = e
  BY <1>2 DEF Tells
<1>4. \A l \in Readable(journal) : l \in Nat /\ l < Len(journal.lines) + 1
  BY <1>2, ReadableFinite DEF Journals
<1>5. \A i \in Readable(journal'), l \in Readable(journal) :
         l < i => l \in Readable(journal') /\ journal'.lines[l] = journal.lines[l]
  BY <1>2 DEF KeepsEarlier
<1>6. ASSUME NEW i \in Readable(journal') PROVE DoneBefore(i)' = DoneBefore(i)
  <2>1. ASSUME NEW s, NEW k \in Readable(journal), k < i, Said(k, s)
        PROVE  \E l \in Readable(journal') : l < i /\ Said(l, s)'
    BY <1>5, <2>1 DEF Said
  <2>2. ASSUME NEW s, NEW k \in Readable(journal'), k < i, Said(k, s)'
        PROVE  \E l \in Readable(journal) : l < i /\ Said(l, s)
    <3>1. k \in Readable(journal) /\ journal'.lines[k] = journal.lines[k]
      BY <1>3, <1>4, <2>2
    <3> QED BY <2>2, <3>1 DEF Said
  <2> QED BY <2>1, <2>2 DEF DoneBefore
<1>7. InTurn'
  <2> SUFFICES ASSUME NEW i \in Readable(journal'), journal'.lines[i].step \in Steps
               PROVE  /\ journal'.lines[i].step \notin DoneBefore(i)'
                      /\ Before(journal'.lines[i].step) \subseteq DoneBefore(i)'
    BY DEF InTurn
  <2>1. CASE i \in Readable(journal) /\ journal'.lines[i] = journal.lines[i]
    BY <1>6, <2>1 DEF FitInv, InTurn
  <2>2. CASE i = Len(journal.lines) + 1 /\ journal'.lines[i] = e
    <3>1. DoneBefore(i) = Done
      BY <1>4, <2>2 DEF DoneBefore, Done
    <3> QED BY <1>6, <2>2, <3>1
  <2> QED BY <1>3, <2>1, <2>2
<1>8. StepInTurn'
  BY <1>1 DEF StepInTurn, UnderWay
<1>9. AllPushed'
  <2> SUFFICES ASSUME NEW k \in Readable(journal'), Said(k, "push")'
               PROVE  git.remote = Len(git.commits)
    BY DEF AllPushed, Done
  <2>1. CASE k \in Readable(journal) /\ journal'.lines[k] = journal.lines[k]
    BY <2>1 DEF FitInv, AllPushed, Done, Said, Steps
  <2>2. CASE journal'.lines[k] = e
    BY <2>2 DEF EntryTrue, Said
  <2> QED BY <1>3, <2>1, <2>2
<1>10. OnlyAllowed' /\ Allowed' = Allowed
  BY DEF FitInv, OnlyAllowed, Committed, Allowed
<1>11. AllStaged'
  <2> SUFFICES ASSUME faults' = 0
               PROVE  \A k \in Readable(journal') : Said(k, "stage")' => Allowed \subseteq journal'.lines[k].files
    BY <1>1, <1>10 DEF AllStaged
  <2>1. faults = 0
    BY <1>1
  <2> QED BY <1>3, <2>1 DEF FitInv, AllStaged, Said
<1> QED BY <1>7, <1>8, <1>9, <1>10, <1>11 DEF FitInv

\* A step that leaves the journal alone keeps the invariant if it keeps what is
\* said of git and of the staging.
LEMMA FitKept ==
  ASSUME DelInv, FitInv, journal' = journal, missing' = missing, NoFault \/ Fault \/ faults' = faults,
         UnderWay' => UnderWay /\ work'.entry.step = work.entry.step,
         git'.index \subseteq git.index \cup Allowed, Committed' \subseteq Committed \cup git.index,
         "push" \in Done => git'.remote = Len(git'.commits),
         faults' = 0 =>
           /\ at' = "add" => Allowed \subseteq work'.entry.files \cup work'.todo
           /\ at' = "report" /\ work'.entry.step = "stage" /\ work'.entry.status = "completed" =>
                Allowed \subseteq work'.entry.files
  PROVE  FitInv'
<1>1. /\ Readable(journal') = Readable(journal) /\ Allowed' = Allowed /\ Done' = Done
      /\ InTurn' = InTurn
  BY DEF Readable, Allowed, Done, InTurn, DoneBefore, Said
<1>2. faults' = 0 => faults = 0
  BY FaultCounted DEF DelInv
<1>3. StepInTurn'
  BY <1>1 DEF FitInv, StepInTurn
<1>4. AllPushed'
  BY <1>1 DEF AllPushed
<1>5. OnlyAllowed'
  BY <1>1 DEF FitInv, OnlyAllowed
<1>6. AllStaged'
  BY <1>1, <1>2 DEF FitInv, AllStaged, Said
<1> QED BY <1>1, <1>3, <1>4, <1>5, <1>6 DEF FitInv

\* A push is reported only after a commit.
LEMMA PushedCommitted ==
  ASSUME InTurn, "push" \in Done
  PROVE  "commit" \in Done
<1>1. PICK k \in Readable(journal) : Said(k, "push")
  BY DEF Done
<1>2. Before("push") \subseteq DoneBefore(k)
  BY <1>1 DEF InTurn, Said, Steps
<1> QED BY <1>2, DoneBeforeDone DEF Before

\* The workspace.
LEMMA FitWorkspace ==
  ASSUME DelInv, FitInv, Workspace
  PROVE  FitInv'
<1>1. CASE LogWorkspace
  <2> DEFINE e == [step |-> "workspace", status |-> "completed", ref |-> 0, files |-> {}]
  <2>1. e \in Entries /\ e.step \notin Steps /\ e.step # "stage"
    BY DEF Entries, Statuses, Steps
  <2>2. EntryTrue(e)
    BY <1>1 DEF LogWorkspace, EntryTrue, DelInv, WorkFits
  <2>3. Logs(e) /\ UNCHANGED <<missing, afresh, saved, git, prs, work>>
    BY <1>1 DEF LogWorkspace
  <2> HIDE DEF e
  <2> QED BY <2>1, <2>2, <2>3, FitLogs
<1>2. CASE EnterRun \/ AddWorktree \/ SetIdentity \/ PersistWorkspace
  <2>1. /\ journal' = journal /\ missing' = missing /\ (NoFault \/ Fault)
        /\ at' \in {"out", "idle", "worktree", "identity", "persist", "created"}
        /\ git' \in {git, [git EXCEPT !.worktree = TRUE]}
    BY <1>2 DEF EnterRun, AddWorktree, SetIdentity, PersistWorkspace, NoFault, logged
  <2>2. git'.index = git.index /\ git'.commits = git.commits /\ git'.remote = git.remote
    BY <2>1 DEF DelInv, TypeOK, Gits
  <2>3. Committed' = Committed /\ ~UnderWay'
    BY <2>1, <2>2 DEF Committed, UnderWay
  <2>4. "push" \in Done => git'.remote = Len(git'.commits)
    BY <2>2 DEF FitInv, AllPushed
  <2> QED BY <2>1, <2>2, <2>3, <2>4, FitKept
<1> QED BY <1>1, <1>2 DEF Workspace

\* The coordinator starts a step.
LEMMA FitStarts ==
  ASSUME DelInv, FitInv, NEW s \in Steps, StartStep(s)
  PROVE  FitInv'
<1>1. /\ UNCHANGED <<missing, afresh, git, journal, faults>> /\ work' = NoWork(s)
      /\ at' \in {FirstCall(s), "report"} /\ IsNextStep(journal, s)
  BY DEF StartStep, logged
<1>2. s \notin Done /\ Before(s) \subseteq Done
  BY <1>1, NextInTurn DEF DelInv, FitInv
<1>3. /\ work'.entry.step = s /\ work'.entry.status = "failed"
      /\ s = "stage" => work'.todo = Files
  BY <1>1 DEF NoWork
<1>4. Done' = Done /\ InTurn' /\ Allowed' = Allowed /\ Committed' = Committed
  BY <1>1 DEF FitInv, Done, InTurn, DoneBefore, Said, Readable, Allowed, Committed
<1>5. StepInTurn'
  BY <1>2, <1>3, <1>4 DEF StepInTurn
<1>6. AllPushed' /\ OnlyAllowed'
  BY <1>1, <1>4 DEF FitInv, AllPushed, OnlyAllowed
<1>7. AllStaged'
  <2>1. at' = "add" => s = "stage"
    BY <1>1 DEF FirstCall, Steps
  <2>2. at' = "add" => Allowed \subseteq work'.todo
    BY <1>3, <2>1 DEF Allowed
  <2>3. faults = 0 => \A k \in Readable(journal) : Said(k, "stage") => Allowed \subseteq journal.lines[k].files
    BY DEF FitInv, AllStaged
  <2> QED BY <1>1, <1>3, <1>4, <2>2, <2>3 DEF AllStaged, Said, Readable
<1> QED BY <1>4, <1>5, <1>6, <1>7 DEF FitInv

\* stageExplicit.
LEMMA FitStages ==
  ASSUME DelInv, FitInv, (\E f \in Files : ProcessFile(f)) \/ StageReturns
  PROVE  FitInv'
<1>1. at = "add" /\ work.entry.step = "stage" /\ UnderWay
  BY DEF ProcessFile, StageReturns, DelInv, WorkFits, UnderWay, Calls
<1>2. work \in Works /\ work.entry \in Entries /\ git \in Gits
  BY DEF DelInv, TypeOK, Works
<1>3. ASSUME NEW f \in Files, ProcessFile(f) PROVE FitInv'
  <2>1. /\ journal' = journal /\ missing' = missing /\ at' = at /\ (NoFault \/ Fault)
    BY <1>3 DEF ProcessFile, logged
  <2>2. /\ Staged(f).commits = git.commits /\ Staged(f).remote = git.remote
        /\ Staged(f).index = git.index \cup ({f} \ Committed)
    BY <1>2 DEF Staged, Gits
  <2>3. git' = git \/ (git' = Staged(f) /\ f \in Allowed)
    BY <1>3 DEF ProcessFile, FileFails, Refused, Allowed
  <2>4. git'.index \subseteq git.index \cup Allowed /\ git'.commits = git.commits /\ git'.remote = git.remote
    BY <2>2, <2>3
  <2>5. Committed' = Committed
    BY <2>4 DEF Committed
  <2>6. "push" \in Done => git'.remote = Len(git'.commits)
    BY <2>4 DEF FitInv, AllPushed
  <2>7. /\ work'.entry.step = work.entry.step
        /\ faults' = 0 => Allowed \subseteq work'.entry.files \cup work'.todo
    <3>1. faults = 0 => Allowed \subseteq work.entry.files \cup work.todo
      BY <1>1 DEF FitInv, AllStaged
    <3>2. faults' = 0 => faults = 0 /\ ~Fault
      <4>1. Fault => faults' = faults + 1 /\ faults \in Nat
        BY DEF Fault, DelInv, TypeOK
      <4> QED BY <2>1, <4>1, FaultCounted DEF DelInv
    <3>3. CASE Refused(f) /\ work' = [work EXCEPT !.todo = @ \ {f}]
      <4>1. work'.entry = work.entry /\ work'.todo = work.todo \ {f} /\ f \notin Allowed
        BY <1>2, <3>3 DEF Works, Refused, Allowed
      <4> QED BY <3>1, <3>2, <4>1
    <3>4. CASE work' = [work EXCEPT !.todo = @ \ {f}, !.entry.files = @ \cup {f}]
      <4>1. /\ work'.entry.step = work.entry.step /\ work'.entry.files = work.entry.files \cup {f}
            /\ work'.todo = work.todo \ {f}
        BY <1>2, <3>4 DEF Works, Entries
      <4> QED BY <3>1, <3>2, <4>1
    <3>5. CASE work' = [work EXCEPT !.todo = @ \ {f}, !.slips = TRUE] /\ Fault
      <4>1. work'.entry = work.entry
        BY <1>2, <3>5 DEF Works
      <4> QED BY <3>2, <3>5, <4>1
    <3> QED BY <1>3, <3>3, <3>4, <3>5 DEF ProcessFile, SkipsFile, FileFails
  <2> QED BY <1>1, <2>1, <2>4, <2>5, <2>6, <2>7, FitKept
<1>4. CASE StageReturns
  <2>1. /\ journal' = journal /\ missing' = missing /\ git' = git /\ NoFault /\ work.todo = {}
    BY <1>4 DEF StageReturns, logged
  <2>2. \E status \in Statuses : Returns(status, 0)
    BY <1>4 DEF StageReturns, Statuses
  <2>3. /\ at' = "report" /\ work'.entry.step = work.entry.step /\ work'.entry.files = work.entry.files
    BY <2>2, ReturnsTyped DEF DelInv
  <2>4. faults' = 0 => Allowed \subseteq work'.entry.files
    BY <1>1, <2>1, <2>3, FaultCounted DEF FitInv, AllStaged, DelInv
  <2>5. Committed' = Committed /\ ("push" \in Done => git'.remote = Len(git'.commits))
    BY <2>1 DEF FitInv, AllPushed, Committed
  <2> QED BY <1>1, <2>1, <2>3, <2>4, <2>5, FitKept
<1> QED BY <1>3, <1>4

\* The result of another step than staging, or its next call.
LEMMA FitReturns ==
  ASSUME DelInv, FitInv, UNCHANGED <<journal, missing, git>>, NoFault \/ Fault \/ faults' = faults,
         UnderWay' => UnderWay /\ work'.entry.step = work.entry.step,
         at' # "add", UnderWay' => work.entry.step # "stage"
  PROVE  FitInv'
<1>1. Committed' = Committed /\ ("push" \in Done => git'.remote = Len(git'.commits))
  BY DEF FitInv, AllPushed, Committed
<1>2. at' = "report" => UnderWay'
  BY DEF UnderWay, Calls
<1> QED BY <1>1, <1>2, FitKept

\* commitWithTrailers: a commit is made only while no push was reported.
LEMMA FitCommits ==
  ASSUME DelInv, FitInv, CheckStaged \/ ConfigureIdentity \/ Commit \/ ReadSha
  PROVE  FitInv'
<1>1. /\ UNCHANGED <<missing, afresh, journal>> /\ (NoFault \/ Fault)
      /\ at \in {"diff", "config", "commit", "sha"} /\ work.entry.step = "commit" /\ UnderWay
      /\ at' \in {"config", "commit", "sha", "report"} /\ work'.entry.step = work.entry.step
      /\ git' = git \/ (git' = WithCommit /\ at = "commit")
  <2>1. at \in {"diff", "config", "commit", "sha"} /\ work.entry.step = "commit" /\ work \in Works
    BY DEF CheckStaged, ConfigureIdentity, Commit, ReadSha, DelInv, WorkFits, TypeOK
  <2>2. ASSUME NEW status, NEW ref, Returns(status, ref)
        PROVE  at' = "report" /\ work'.entry.step = work.entry.step
    BY <2>1, <2>2 DEF Returns, Works, Entries
  <2>3. /\ at' \in {"config", "commit", "sha", "report"} /\ work'.entry.step = work.entry.step
        /\ git' = git \/ (git' = WithCommit /\ at = "commit")
    BY <2>2 DEF CheckStaged, ConfigureIdentity, Commit, CommitFails, ReadSha, Fails
  <2> QED BY <2>1, <2>3 DEF CheckStaged, ConfigureIdentity, Commit, CommitFails, ReadSha, Fails,
                            UnderWay, Calls, logged
<1>2. CASE git' = git
  BY <1>1, <1>2, FitReturns
<1>3. CASE git' = WithCommit /\ at = "commit"
  <2>1. git'.index = {} /\ Committed' = Committed \cup git.index
    BY <1>3, CommitTakesIndex DEF DelInv, WorkFits
  <2>2. "push" \notin Done
    BY <1>1, PushedCommitted DEF FitInv, StepInTurn
  <2> QED BY <1>1, <2>1, <2>2, FitKept
<1> QED BY <1>1, <1>2, <1>3

\* pushBranch.
LEMMA FitPushes ==
  ASSUME DelInv, FitInv, Push
  PROVE  FitInv'
<1>1. /\ UNCHANGED <<missing, afresh, journal>> /\ (NoFault \/ Fault) /\ at = "push" /\ UnderWay
      /\ work.entry.step = "push" /\ git' \in {git, Pushed} /\ work \in Works /\ git \in Gits
  BY DEF Push, Fails, DelInv, WorkFits, TypeOK, UnderWay, Calls, logged
<1>2. at' = "report" /\ work'.entry.step = work.entry.step
  BY <1>1 DEF Push, Fails, Returns, Works, Entries
<1>3. git'.index = git.index /\ git'.commits = git.commits /\ Committed' = Committed
  BY <1>1 DEF Pushed, Gits, Committed
<1>4. "push" \notin Done
  BY <1>1 DEF FitInv, StepInTurn
<1> QED BY <1>1, <1>2, <1>3, <1>4, FitKept

\* upsertDraftPr.
LEMMA FitUpserts ==
  ASSUME DelInv, FitInv, ListPrs \/ EditPr \/ CreatePr
  PROVE  FitInv'
<1>1. /\ UNCHANGED <<missing, afresh, journal, git>> /\ (NoFault \/ Fault)
      /\ work.entry.step = "pr" /\ UnderWay /\ work \in Works
  BY DEF ListPrs, EditPr, CreatePr, Fails, DelInv, WorkFits, TypeOK, UnderWay, Calls, logged
<1>2. ASSUME NEW status, NEW ref, Returns(status, ref)
      PROVE  at' = "report" /\ work'.entry.step = work.entry.step
  BY <1>1, <1>2 DEF Returns, Works, Entries
<1>3. ASSUME NEW p, work' = [work EXCEPT !.entry.ref = p]
      PROVE  work'.entry.step = work.entry.step
  BY <1>1, <1>3 DEF Works, Entries
<1>4. at' \in {"report", "edit", "create"} /\ work'.entry.step = work.entry.step
  BY <1>2, <1>3 DEF ListPrs, EditPr, CreatePr, Fails
<1> QED BY <1>1, <1>4, FitReturns

\* Every step keeps the invariant.
LEMMA FitStep == DelInv /\ FitInv /\ [Next]_vars => FitInv'
<1> SUFFICES ASSUME DelInv, FitInv, [Next]_vars PROVE FitInv'
  OBVIOUS
<1>1. CASE Report
  <2>1. at = "report" /\ UnderWay /\ work.entry \in Entries
    BY <1>1 DEF Report, UnderWay, Calls, DelInv, TypeOK, Works
  <2>2. EntryTrue(work.entry)
    BY <2>1 DEF DelInv, ReportTrue
  <2>3. /\ work.entry.step \notin Done /\ Before(work.entry.step) \subseteq Done
        /\ faults = 0 /\ work.entry.step = "stage" /\ work.entry.status = "completed" =>
             Allowed \subseteq work.entry.files
    BY <2>1 DEF FitInv, StepInTurn, AllStaged
  <2>4. Logs(work.entry) /\ UNCHANGED <<missing, afresh, saved, git, prs, work>>
    BY <1>1 DEF Report
  <2> QED BY <2>1, <2>2, <2>3, <2>4, FitLogs
<1>2. CASE (\E p \in DOMAIN prs : ClosePr(p)) \/ Crash \/ UNCHANGED vars
  <2>1. /\ UNCHANGED <<missing, afresh, journal, git, work, faults>>
        /\ at' \in {at, "out"}
    BY <1>2 DEF ClosePr, Crash, vars, logged, budget
  <2>2. UnderWay' => UnderWay /\ at' = at
    BY <2>1 DEF UnderWay
  <2>3. Committed' = Committed /\ ("push" \in Done => git'.remote = Len(git'.commits))
    BY <2>1 DEF FitInv, AllPushed, Committed
  <2>4. faults' = 0 =>
          /\ at' = "add" => Allowed \subseteq work'.entry.files \cup work'.todo
          /\ at' = "report" /\ work'.entry.step = "stage" /\ work'.entry.status = "completed" =>
               Allowed \subseteq work'.entry.files
    BY <2>1 DEF FitInv, AllStaged
  <2> QED BY <2>1, <2>2, <2>3, <2>4, FitKept
<1> QED BY <1>1, <1>2, FitWorkspace, FitStarts, FitStages, FitCommits, FitPushes, FitUpserts DEF Next

\* For any files, faults and crashes, and although an append that is cut off may
\* cost entries of the journal: a delivery whose journal reads as complete
\* (isDeliveryComplete) has every file it reported as staged on the remote and no
\* file that the policy refuses or that is not there; without a fault that is all of
\* the others.
THEOREM CompleteDeliveryFits == Spec => []DeliveredFits
<1>1. DelInv /\ FitInv => DeliveredFits
  <2> SUFFICES ASSUME DelInv, FitInv, IsDeliveryComplete(journal) PROVE DeliveredFits
    BY DEF DeliveredFits
  <2>1. Steps \subseteq Done
    BY CompletedSaid DEF IsDeliveryComplete, Done, DelInv
  <2>2. git.remote = Len(git.commits) /\ git.commits \in Seq(SUBSET Files)
    BY <2>1 DEF FitInv, AllPushed, Steps, DelInv, TypeOK, Gits
  <2>3. Delivered = Committed
    BY <2>2 DEF Delivered, Committed
  <2>4. ASSUME NEW i \in Readable(journal), Said(i, "stage")
        PROVE  journal.lines[i].files \subseteq Delivered
    <3>1. PICK c \in Readable(journal) : Said(c, "commit")
      BY <2>1 DEF Done, Steps
    <3>2. "stage" \in DoneBefore(c)
      BY <3>1 DEF FitInv, InTurn, Said, Steps, Before
    <3>3. PICK k \in Readable(journal) : k < c /\ Said(k, "stage")
      BY <3>2 DEF DoneBefore
    <3>4. k = i
      <4>1. k <= i /\ i <= k
        BY <2>4, <3>3, DoneCompleted DEF FitInv, DelInv, About, Said, Steps
      <4>2. k \in Nat /\ i \in Nat
        BY ReadableFinite DEF DelInv, TypeOK
      <4> QED BY <4>1, <4>2
    <3> QED BY <2>3, <3>1, <3>3, <3>4 DEF DelInv, JournalTrue
  <2>5. Delivered \subseteq Allowed
    BY <2>3 DEF FitInv, OnlyAllowed
  <2>6. ASSUME faults = 0 PROVE Allowed \subseteq Delivered
    <3>1. PICK i \in Readable(journal) : Said(i, "stage")
      BY <2>1 DEF Done, Steps
    <3>2. Allowed \subseteq journal.lines[i].files
      BY <2>6, <3>1 DEF FitInv, AllStaged
    <3> QED BY <2>4, <3>1, <3>2
  <2> QED BY <2>4, <2>5, <2>6 DEF DeliveredFits, Allowed
<1> QED BY <1>1, DelInit, DelStep, FitInit, FitStep, PTL DEF Spec
=============================================================================
