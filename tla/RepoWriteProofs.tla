-------------------------- MODULE RepoWriteProofs --------------------------
(***************************************************************************)
(* What holds of the writes to a repository for any number of rows, files, *)
(* contents, executions and pushes: only what was reviewed is committed,   *)
(* the default branch only grows, and what is reported as done is there.   *)
(***************************************************************************)
EXTENDS RepoWrite, WellFoundedInduction, TLAPS

Made == 1 .. Len(commits)
Commits == [author : Rows \cup {Nobody}, parent : Nat, tree : Trees]
Authored(r) == mine[r] \in Made /\ commits[mine[r]].author = r

(* Parents are earlier commits; ours always have one. *)
Parented ==
    \A c \in Made :
        /\ commits[c].parent \in {0} \cup Made /\ commits[c].parent < c
        /\ c \in Ours => commits[c].parent \in Made

(* What a row's locals are at the point its execution has reached. *)
ExecutingAt(r) ==
    /\ point[r] # "none" => status[r] = "executing"
    /\ status[r] = "executing" => ~Unpreviewed(r)
    /\ point[r] \in {"based", "made", "branched"} => base[r] \in Made
    /\ point[r] \in {"made", "branched"} => Authored(r) /\ commits[mine[r]].parent = base[r]
    /\ point[r] = "branched" => strategy[r] = "PULL_REQUEST"

Executing == \A r \in Rows : ExecutingAt(r)

(* No commit is made before its row's preview is over. *)
PreviewedFirst == \A c \in Ours : status[commits[c].author] # "previewing"

(* A set of commits with the parents of its members. *)
Closed(S) == \A c \in S : commits[c].parent # 0 => commits[c].parent \in S

(* A set of commits with the default branch's history in it. *)
HoldsHistory(S) == tip \in S /\ Closed(S)

InHistory(c) == \A S \in SUBSET Made : HoldsHistory(S) => c \in S

(* SuccessDelivered without recursion: the default branch's history is the *)
(* smallest set with its tip and the parents of what it has.               *)
DeliveredAt(r) ==
    status[r] = "SUCCESS" =>
        /\ Authored(r)
        /\ strategy[r] = "DIRECT_COMMIT" => InHistory(mine[r])
        /\ strategy[r] = "NEW_BRANCH" => mine[r] \in branches
        /\ strategy[r] = "PULL_REQUEST" => mine[r] \in pulls

Delivered == \A r \in Rows : DeliveredAt(r)

WriteInv ==
    /\ WriteTypeOK /\ Parented /\ Executing /\ PreviewedFirst
    /\ OnlyReviewed /\ Delivered
-----------------------------------------------------------------------------
LEMMA InitInv == Init => WriteInv
<1> SUFFICES ASSUME Init PROVE WriteInv
  OBVIOUS
<1>1. PICK files \in [Rows -> SUBSET Paths \ {{}}] :
        /\ mode \in {m \in [Rows -> UNION {[f -> Modes] : f \in SUBSET Paths}] :
                       \A r \in Rows : DOMAIN m[r] = files[r]}
        /\ rendered \in {t \in [Rows -> UNION {[f -> Texts] : f \in SUBSET Paths}] :
                           \A r \in Rows : DOMAIN t[r] = files[r]}
        /\ before = [r \in Rows |-> [p \in files[r] |-> "unread"]]
  BY DEF Init
<1>2. ASSUME NEW r \in Rows
      PROVE  /\ Files(r) \subseteq Paths
             /\ mode[r] \in [Files(r) -> Modes] /\ rendered[r] \in [Files(r) -> Texts]
             /\ before[r] \in [Files(r) -> Texts \cup {"absent", "blank", "unread", "error"}]
  <2>1. mode[r] \in UNION {[f -> Modes] : f \in SUBSET Paths} /\ DOMAIN mode[r] = files[r]
    BY <1>1
  <2>2. rendered[r] \in UNION {[f -> Texts] : f \in SUBSET Paths} /\ DOMAIN rendered[r] = files[r]
    BY <1>1
  <2>3. before[r] = [p \in files[r] |-> "unread"]
    BY <1>1
  <2>4. Files(r) = files[r]
    BY <2>2 DEF Files
  <2>5. QED
    BY <2>1, <2>2, <2>3, <2>4
<1>3. PICK t \in [Paths -> Texts \cup {"absent"}] : commits = <<CommitOf(Nobody, 0, t)>>
  BY DEF Init
<1>4. commits \in Seq(Commits) /\ Len(commits) = 1 /\ commits[1].author = Nobody /\ commits[1].parent = 0
  BY <1>3 DEF Commits, CommitOf, Trees
<1>5. WriteTypeOK
  BY <1>2, <1>4 DEF Init, WriteTypeOK, Commits
<1>6. Ours = {}
  BY <1>4, WriteAssumption DEF Ours, Nobody
<1>7. Executing /\ Delivered
  BY DEF Init, Executing, ExecutingAt, Delivered, DeliveredAt
<1>8. Parented /\ PreviewedFirst /\ OnlyReviewed
  BY <1>4, <1>6 DEF Parented, PreviewedFirst, OnlyReviewed, Made
<1>9. QED
  BY <1>5, <1>7, <1>8 DEF WriteInv

(* What appending a commit leaves as it was. *)
LEMMA Appended ==
    ASSUME commits \in Seq(Commits), NEW c \in Commits, commits' = Append(commits, c)
    PROVE  /\ commits' \in Seq(Commits)
           /\ Len(commits) \in Nat
           /\ Made' = Made \cup {Len(commits) + 1}
           /\ Len(commits) + 1 \notin Made
           /\ commits'[Len(commits) + 1] = c
           /\ \A i \in Made : commits'[i] = commits[i]
  BY DEF Made

(* A history is still one among the commits there were. *)
LEMMA HistoryKept ==
    ASSUME WriteInv, Made \subseteq Made', \A i \in Made : commits'[i] = commits[i],
           \/ tip' = tip
           \/ tip' \in Made' /\ commits'[tip'].parent = tip,
           NEW i \in Made, InHistory(i)
    PROVE  InHistory(i)'
<1> SUFFICES ASSUME NEW S \in SUBSET Made', HoldsHistory(S)' PROVE i \in S
  BY DEF InHistory
<1>1. tip \in Made /\ tip # 0
  BY DEF WriteInv, WriteTypeOK, Made
<1>2. tip \in S
  BY <1>1 DEF HoldsHistory, Closed
<1>3. \A c \in S \cap Made : commits[c].parent # 0 => commits[c].parent \in S \cap Made
  BY DEF HoldsHistory, Closed, WriteInv, Parented
<1>4. HoldsHistory(S \cap Made)
  BY <1>1, <1>2, <1>3 DEF HoldsHistory, Closed
<1>5. QED
  BY <1>4 DEF InHistory

-----------------------------------------------------------------------------
(* The commit a row makes: nothing but what its preview has shown. *)
LEMMA MadeCommit ==
    ASSUME WriteInv, NEW r \in Rows, MakeCommit(r)
    PROVE  /\ base[r] \in Made
           /\ NewTree(r) \in Trees
           /\ CommitOf(r, base[r], NewTree(r)) \in Commits
           /\ commits' = Append(commits, CommitOf(r, base[r], NewTree(r)))
           /\ \A p \in Paths : NewTree(r)[p] # Tree(base[r])[p] =>
                 /\ p \in Files(r) /\ NewTree(r)[p] = rendered[r][p]
                 /\ before[r][p] \notin {"error", "unread", rendered[r][p]}
<1>1. point[r] = "based" /\ status[r] = "executing" /\ base[r] \in Made /\ ~Unpreviewed(r)
  BY DEF MakeCommit, WriteInv, Executing, ExecutingAt
<1>2. commits[base[r]] \in Commits
  <2>1. commits \in Seq(Commits) /\ base[r] \in 1 .. Len(commits)
    BY <1>1 DEF WriteInv, WriteTypeOK, Commits, Made
  <2>2. QED
    BY <2>1
<1>3. rendered[r] \in [Files(r) -> Texts] /\ Files(r) \subseteq Paths
  BY DEF WriteInv, WriteTypeOK
<1>4. ASSUME NEW p \in Written(r)
      PROVE  /\ p \in Files(r) /\ Content(r, p) = rendered[r][p] /\ rendered[r][p] \in Texts
             /\ before[r][p] \notin {"error", "unread", rendered[r][p]}
  <2>1. p \in Files(r) /\ ~Skipped(r, p)
    BY DEF Written
  <2>2. before[r][p] \notin {"error", "unread"}
    BY <1>1, <2>1 DEF Unpreviewed
  <2>3. before[r][p] # rendered[r][p]
    BY <1>3, <2>1, WriteAssumption DEF Skipped
  <2>4. QED
    BY <1>3, <2>1, <2>2, <2>3 DEF Content
<1>5. NewTree(r) \in Trees
  <2>1. Tree(base[r]) \in [Paths -> Texts \cup {"absent", "blank"}]
    BY <1>2 DEF Commits, Trees, Tree
  <2>2. ASSUME NEW p \in Paths
        PROVE  (IF p \in Written(r) THEN Content(r, p) ELSE Tree(base[r])[p]) \in Texts \cup {"absent", "blank"}
    BY <1>4, <2>1
  <2>3. QED
    BY <2>2 DEF NewTree, Trees
<1>6. \A p \in Paths : NewTree(r)[p] # Tree(base[r])[p] => p \in Written(r) /\ NewTree(r)[p] = Content(r, p)
  BY DEF NewTree
<1>7. base[r] \in Nat
  BY DEF WriteInv, WriteTypeOK
<1>8. QED
  BY <1>1, <1>4, <1>5, <1>6, <1>7 DEF MakeCommit, CommitOf, Commits

(* The commit somebody else pushes. *)
LEMMA PushedCommit ==
    ASSUME WriteInv, Push
    PROVE  \E c \in Commits :
              commits' = Append(commits, c) /\ c.author = Nobody /\ c.parent = tip
<1>1. Tree(tip) \in Trees /\ tip \in Nat
  <2>1. commits \in Seq(Commits) /\ tip \in 1 .. Len(commits)
    BY DEF WriteInv, WriteTypeOK, Commits
  <2>2. commits[tip] \in Commits /\ tip \in Nat
    BY <2>1
  <2>3. QED
    BY <2>2 DEF Commits, Tree
<1>2. PICK p \in Paths, t \in Texts \cup {"absent"} :
        commits' = Append(commits, CommitOf(Nobody, tip, [Tree(tip) EXCEPT ![p] = t]))
  BY DEF Push
<1>3. [Tree(tip) EXCEPT ![p] = t] \in Trees
  BY <1>1, <1>2 DEF Trees
<1>4. QED
  BY <1>1, <1>2, <1>3 DEF CommitOf, Commits

(* Commits stay, and at most one is added, on top of another. *)
LEMMA CommitsGrow ==
    ASSUME WriteInv, [Next]_vars
    PROVE  \/ commits' = commits
           \/ \E c \in Commits : /\ commits' = Append(commits, c)
                                 /\ c.parent \in Made
<1>1. ASSUME NEW r \in Rows, MakeCommit(r)
      PROVE  \E c \in Commits : commits' = Append(commits, c) /\ c.parent \in Made
  BY <1>1, MadeCommit DEF CommitOf
<1>2. CASE Push
  BY <1>2, PushedCommit DEF WriteInv, WriteTypeOK, Made
<1>3. QED
  BY <1>1, <1>2 DEF Next, Preview, Execute, PreviewFile, PreviewFileFails, FinishPreview, Begin,
     Refuse, Skip, ReadBase, UpdateRef, CreateRef, CreatePull, Fail, vars, github

LEMMA CommitsKept ==
    ASSUME WriteInv, [Next]_vars
    PROVE  /\ commits' \in Seq(Commits) /\ Len(commits) \in Nat
           /\ Made \subseteq Made'
           /\ \A i \in Made : commits'[i] = commits[i]
<1>1. commits \in Seq(Commits)
  BY DEF WriteInv, WriteTypeOK, Commits
<1>2. QED
  BY <1>1, CommitsGrow, Appended DEF Made

-----------------------------------------------------------------------------
(* Previews touch one row's files; what it has read is content.            *)
LEMMA PreviewTypes ==
    ASSUME WriteInv, NEW r \in Rows, NEW p \in Paths, PreviewFile(r, p) \/ PreviewFileFails(r, p)
    PROVE  WriteTypeOK'
<1>1. Tree(tip)[p] \in Texts \cup {"absent", "blank"}
  <2>1. commits \in Seq(Commits) /\ tip \in 1 .. Len(commits)
    BY DEF WriteInv, WriteTypeOK, Commits
  <2>2. commits[tip] \in Commits
    BY <2>1
  <2>3. QED
    BY <2>2 DEF Commits, Trees, Tree
<1>2. PICK x \in Texts \cup {"absent", "blank", "unread", "error"} :
        before' = [before EXCEPT ![r][p] = x]
  BY <1>1 DEF PreviewFile, PreviewFileFails
<1>3. /\ UNCHANGED <<strategy, mode, rendered, status, point, base, mine, attempts, commits, tip, branches, pulls>>
      /\ p \in Files(r)
  BY DEF PreviewFile, PreviewFileFails, github
<1>4. ASSUME NEW s \in Rows
      PROVE  before'[s] \in [Files(s) -> Texts \cup {"absent", "blank", "unread", "error"}]
  <2>1. before[s] \in [Files(s) -> Texts \cup {"absent", "blank", "unread", "error"}]
    BY DEF WriteInv, WriteTypeOK
  <2>2. before'[s] = before[s] \/ before'[s] = [before[s] EXCEPT ![p] = x]
    BY <1>2
  <2>3. QED
    BY <2>1, <2>2
<1>5. DOMAIN before' = Rows
  BY <1>2 DEF WriteInv, WriteTypeOK
<1>6. \A s \in Rows : Files(s)' = Files(s)
  BY <1>3 DEF Files
<1>7. QED
  BY <1>3, <1>4, <1>5, <1>6 DEF WriteInv, WriteTypeOK

Statuses == {"previewing", "DIFF_COMPUTED", "executing", "SUCCESS", "SKIPPED", "FAILED"}
Points == {"none", "begun", "based", "made", "branched"}

LocalsOK ==
    /\ status \in [Rows -> Statuses] /\ point \in [Rows -> Points]
    /\ base \in [Rows -> Nat] /\ mine \in [Rows -> Nat] /\ attempts \in [Rows -> Nat]

GitHubOK ==
    /\ commits \in Seq(Commits) /\ tip \in Made
    /\ branches \subseteq Made /\ pulls \subseteq Made

LEMMA TypesKept ==
    ASSUME WriteTypeOK, UNCHANGED <<strategy, rowVars>>, LocalsOK', GitHubOK'
    PROVE  WriteTypeOK'
<1>1. UNCHANGED <<strategy, mode, rendered, before>> /\ \A r \in Rows : Files(r)' = Files(r)
  BY DEF rowVars, Files
<1>2. QED
  BY <1>1 DEF WriteTypeOK, LocalsOK, GitHubOK, Statuses, Points, Made, Commits

LEMMA TypesSplit == WriteTypeOK => LocalsOK /\ GitHubOK
  BY DEF WriteTypeOK, LocalsOK, GitHubOK, Statuses, Points, Made, Commits

LEMMA LocalsStep ==
    ASSUME WriteInv, NEW r \in Rows,
           \/ FinishPreview(r) \/ Begin(r) \/ Refuse(r) \/ Skip(r) \/ ReadBase(r) \/ MakeCommit(r)
           \/ UpdateRef(r) \/ CreateRef(r) \/ CreatePull(r) \/ Fail(r)
    PROVE  LocalsOK' /\ UNCHANGED <<strategy, rowVars>>
<1>1. LocalsOK /\ tip \in Nat /\ Len(commits) + 1 \in Nat
  BY TypesSplit DEF WriteInv, GitHubOK, Made
<1>2. UNCHANGED <<strategy, rowVars>>
  BY DEF FinishPreview, Begin, Refuse, Skip, ReadBase, MakeCommit, UpdateRef, CreateRef, CreatePull, Fail
<1>3. CASE FinishPreview(r) \/ Begin(r) \/ Refuse(r) \/ Skip(r)
  <2>1. PICK s \in Statuses : status' = [status EXCEPT ![r] = s]
    BY <1>3 DEF FinishPreview, Begin, Refuse, Skip, Statuses
  <2>2. UNCHANGED <<base, mine>> /\ (UNCHANGED point \/ point' = [point EXCEPT ![r] = "begun"])
    BY <1>3 DEF FinishPreview, Begin, Refuse, Skip
  <2>3. UNCHANGED attempts \/ attempts' = [attempts EXCEPT ![r] = @ + 1]
    BY <1>3 DEF FinishPreview, Begin, Refuse, Skip, Started
  <2>4. QED
    BY <1>1, <1>2, <2>1, <2>2, <2>3 DEF LocalsOK, Points
<1>4. CASE ReadBase(r) \/ MakeCommit(r)
  BY <1>1, <1>2, <1>4 DEF ReadBase, MakeCommit, LocalsOK, Points
<1>5. CASE UpdateRef(r) \/ CreateRef(r) \/ CreatePull(r) \/ Fail(r)
  <2>1. UNCHANGED attempts
    BY <1>5 DEF UpdateRef, CreateRef, CreatePull, Fail
  <2>2. CASE \E s \in {"SUCCESS", "FAILED"} : Respond(r, s)
    BY <1>1, <1>2, <2>1, <2>2 DEF Respond, LocalsOK, Statuses, Points
  <2>3. CASE point' = [point EXCEPT ![r] = "branched"] /\ UNCHANGED <<status, base, mine>>
    BY <1>1, <1>2, <2>1, <2>3 DEF LocalsOK, Points
  <2>4. QED
    BY <1>2, <1>5, <2>2, <2>3 DEF UpdateRef, CreateRef, CreatePull, Fail, Answered
<1>6. QED
  BY <1>3, <1>4, <1>5

LEMMA GitHubStep == ASSUME WriteInv, [Next]_vars PROVE GitHubOK'
<1>1. GitHubOK
  BY TypesSplit DEF WriteInv
<1>2. commits' \in Seq(Commits) /\ Made \subseteq Made'
  BY CommitsKept
<1>3. ASSUME NEW r \in Rows, UpdateRef(r) \/ CreateRef(r) \/ CreatePull(r) \/ Fail(r)
      PROVE  GitHubOK'
  <2>1. point[r] \in {"made", "branched"} => mine[r] \in Made
    BY DEF WriteInv, Executing, ExecutingAt, Authored
  <2>2. /\ tip' \in Made /\ branches' \subseteq Made /\ pulls' \subseteq Made
    BY <1>1, <1>3, <2>1 DEF UpdateRef, CreateRef, CreatePull, Fail, GitHubOK, github
  <2>3. QED
    BY <1>2, <2>2 DEF GitHubOK
<1>4. CASE Push
  <2>1. Len(commits) + 1 \in Made'
    BY <1>1, <1>4, PushedCommit, Appended DEF GitHubOK
  <2>2. QED
    BY <1>1, <1>2, <1>4, <2>1 DEF Push, GitHubOK
<1>5. CASE UNCHANGED <<tip, branches, pulls>>
  BY <1>1, <1>2, <1>5 DEF GitHubOK
<1>6. QED
  BY <1>3, <1>4, <1>5 DEF Next, Preview, Execute, PreviewFile, PreviewFileFails, FinishPreview,
     Begin, Refuse, Skip, ReadBase, MakeCommit, vars, github

LEMMA TypeStep == ASSUME WriteInv, [Next]_vars PROVE WriteTypeOK'
<1>1. WriteTypeOK /\ GitHubOK'
  BY GitHubStep DEF WriteInv
<1>2. CASE UNCHANGED <<strategy, rowVars, status, point, base, mine, attempts>>
  <2>1. UNCHANGED <<strategy, rowVars>> /\ UNCHANGED <<status, point, base, mine, attempts>>
    BY <1>2
  <2>2. LocalsOK'
    BY <1>1, <2>1, TypesSplit DEF LocalsOK
  <2>3. QED
    BY <1>1, <2>1, <2>2, TypesKept
<1>3. ASSUME NEW r \in Rows,
             \/ FinishPreview(r) \/ Begin(r) \/ Refuse(r) \/ Skip(r) \/ ReadBase(r) \/ MakeCommit(r)
             \/ UpdateRef(r) \/ CreateRef(r) \/ CreatePull(r) \/ Fail(r)
      PROVE  WriteTypeOK'
  BY <1>1, <1>3, LocalsStep, TypesKept
<1>4. QED
  BY <1>2, <1>3, PreviewTypes DEF Next, Preview, Execute, Push, vars

(* Nothing that a commit was made from is touched after it. *)
LEMMA RowKept ==
    ASSUME WriteInv, [Next]_vars
    PROVE  /\ UNCHANGED <<strategy, mode, rendered>>
           /\ \A r \in Rows : status[r] # "previewing" =>
                 before'[r] = before[r] /\ status'[r] # "previewing"
<1>1. status \in [Rows -> Statuses] /\ DOMAIN before = Rows
  BY TypesSplit DEF WriteInv, WriteTypeOK, LocalsOK
<1>2. ASSUME NEW s \in Rows, NEW p \in Paths, PreviewFile(s, p) \/ PreviewFileFails(s, p),
             NEW r \in Rows, status[r] # "previewing"
      PROVE  before'[r] = before[r] /\ status'[r] = status[r]
  BY <1>1, <1>2 DEF PreviewFile, PreviewFileFails
<1>3. ASSUME NEW s \in Rows, NEW p \in Paths, PreviewFile(s, p) \/ PreviewFileFails(s, p)
      PROVE  UNCHANGED <<strategy, mode, rendered>>
  BY <1>3 DEF PreviewFile, PreviewFileFails
<1>4. ASSUME NEW s \in Rows,
             \/ FinishPreview(s) \/ Begin(s) \/ Refuse(s) \/ Skip(s) \/ ReadBase(s) \/ MakeCommit(s)
             \/ UpdateRef(s) \/ CreateRef(s) \/ CreatePull(s) \/ Fail(s)
      PROVE  /\ UNCHANGED <<strategy, rowVars>>
             /\ \A r \in Rows : status[r] # "previewing" => status'[r] # "previewing"
  <2>1. UNCHANGED <<strategy, rowVars>>
    BY <1>4, LocalsStep
  <2>2. \/ UNCHANGED status
        \/ \E x \in Statuses \ {"previewing"} : status' = [status EXCEPT ![s] = x]
    BY <1>4 DEF FinishPreview, Begin, Refuse, Skip, ReadBase, MakeCommit, UpdateRef, CreateRef,
       CreatePull, Fail, Answered, Respond, Statuses
  <2>3. QED
    BY <1>1, <2>1, <2>2
<1>5. CASE UNCHANGED <<strategy, rowVars, status>>
  BY <1>5 DEF rowVars
<1>6. QED
  BY <1>2, <1>3, <1>4, <1>5 DEF Next, Preview, Execute, Push, vars, rowVars

-----------------------------------------------------------------------------
LEMMA ParentedStep == ASSUME WriteInv, [Next]_vars PROVE Parented'
<1>1. Parented /\ commits \in Seq(Commits)
  BY DEF WriteInv, WriteTypeOK, Commits
<1>2. CASE commits' = commits
  BY <1>1, <1>2 DEF Parented, Made, Ours
<1>3. ASSUME NEW c \in Commits, commits' = Append(commits, c), c.parent \in Made
      PROVE  Parented'
  <2>1. /\ Made' = Made \cup {Len(commits) + 1}
        /\ commits'[Len(commits) + 1] = c
        /\ \A i \in Made : commits'[i] = commits[i]
    BY <1>1, <1>3, Appended
  <2>2. \A i \in Made : i \in Ours' => i \in Ours
    BY <2>1 DEF Ours, Made
  <2>3. c.parent < Len(commits) + 1
    BY <1>1, <1>3 DEF Made
  <2>4. QED
    BY <1>1, <1>3, <2>1, <2>2, <2>3 DEF Parented
<1>4. QED
  BY <1>2, <1>3, CommitsGrow

LEMMA PreviewedFirstStep == ASSUME WriteInv, [Next]_vars PROVE PreviewedFirst'
<1>1. PreviewedFirst /\ commits \in Seq(Commits)
  BY DEF WriteInv, WriteTypeOK, Commits
<1>2. \A r \in Rows : status[r] # "previewing" => status'[r] # "previewing"
  BY RowKept
<1>3. CASE commits' = commits
  BY <1>1, <1>2, <1>3 DEF PreviewedFirst, Ours
<1>4. ASSUME NEW c \in Commits, commits' = Append(commits, c),
             c.author \in Rows => status[c.author] # "previewing"
      PROVE  PreviewedFirst'
  BY <1>1, <1>2, <1>4, Appended DEF PreviewedFirst, Ours, Made
<1>5. ASSUME NEW r \in Rows, MakeCommit(r) PROVE PreviewedFirst'
  <2>1. status[r] = "executing"
    BY <1>5 DEF MakeCommit, WriteInv, Executing, ExecutingAt
  <2>2. QED
    BY <1>4, <1>5, <2>1, MadeCommit DEF CommitOf
<1>6. CASE Push
  BY <1>4, <1>6, PushedCommit, WriteAssumption DEF Nobody
<1>7. QED
  BY <1>3, <1>5, <1>6 DEF Next, Preview, Execute, PreviewFile, PreviewFileFails, FinishPreview,
     Begin, Refuse, Skip, ReadBase, UpdateRef, CreateRef, CreatePull, Fail, vars, github

(* The review of a commit, and that it stays true of it. *)
Reviewed(c) ==
    LET r == commits[c].author IN
    \A p \in Paths : Tree(c)[p] # Tree(commits[c].parent)[p] =>
        /\ p \in Files(r) /\ Tree(c)[p] = rendered[r][p]
        /\ before[r][p] \notin {"error", "unread", rendered[r][p]}

LEMMA StaysReviewed ==
    ASSUME WriteInv, [Next]_vars, NEW c \in Ours PROVE c \in Ours' /\ Reviewed(c)'
<1>1. Reviewed(c) /\ commits[c].author \in Rows /\ c \in Made /\ commits[c].parent \in Made
  BY DEF WriteInv, OnlyReviewed, Reviewed, Ours, Parented, Made
<1>2. commits'[c] = commits[c] /\ commits'[commits[c].parent] = commits[commits[c].parent]
  BY <1>1, CommitsKept
<1>3. /\ UNCHANGED rendered
      /\ before'[commits[c].author] = before[commits[c].author]
  BY <1>1, RowKept DEF WriteInv, PreviewedFirst
<1>4. c \in Ours'
  BY <1>1, <1>2, CommitsKept DEF Ours, Made
<1>5. QED
  BY <1>1, <1>2, <1>3, <1>4 DEF Reviewed, Tree, Files

LEMMA ReviewedStep == ASSUME WriteInv, [Next]_vars PROVE OnlyReviewed'
<1>1. commits \in Seq(Commits)
  BY DEF WriteInv, WriteTypeOK, Commits
<1>2. SUFFICES \A c \in Ours' : Reviewed(c)'
  BY DEF OnlyReviewed, Reviewed
<1>3. CASE Ours' = Ours
  BY <1>3, StaysReviewed
<1>4. CASE Push
  <2>1. Ours' = Ours
    BY <1>1, <1>4, PushedCommit, Appended, WriteAssumption DEF Ours, Made, Nobody
  <2>2. QED
    BY <1>3, <2>1
<1>5. ASSUME NEW r \in Rows, MakeCommit(r) PROVE \A c \in Ours' : Reviewed(c)'
  <2> PICK n : n = Len(commits) + 1
    OBVIOUS
  <2>1. /\ base[r] \in Made
        /\ \A p \in Paths : NewTree(r)[p] # Tree(base[r])[p] =>
                 /\ p \in Files(r) /\ NewTree(r)[p] = rendered[r][p]
                 /\ before[r][p] \notin {"error", "unread", rendered[r][p]}
    BY <1>5, MadeCommit
  <2>2. /\ Made' = Made \cup {n}
        /\ commits'[n] = CommitOf(r, base[r], NewTree(r))
        /\ \A i \in Made : commits'[i] = commits[i]
    BY <1>1, <1>5, MadeCommit, Appended
  <2>3. UNCHANGED rowVars
    BY <1>5 DEF MakeCommit
  <2>4. Reviewed(n)'
    BY <2>1, <2>2, <2>3 DEF Reviewed, Tree, Files, CommitOf, rowVars
  <2>5. \A c \in Ours' : c \in Ours \/ c = n
    BY <2>2 DEF Ours, Made
  <2>6. QED
    BY <2>4, <2>5, StaysReviewed
<1>6. QED
  BY <1>3, <1>4, <1>5 DEF Next, Preview, Execute, PreviewFile, PreviewFileFails, FinishPreview,
     Begin, Refuse, Skip, ReadBase, UpdateRef, CreateRef, CreatePull, Fail, vars, github, Ours

-----------------------------------------------------------------------------
(* A step by one row leaves the others' locals. *)
LocalsKept(r) ==
    /\ status'[r] = status[r] /\ point'[r] = point[r]
    /\ base'[r] = base[r] /\ mine'[r] = mine[r]

LEMMA OneActs ==
    ASSUME WriteInv, [Next]_vars
    PROVE  \/ \A r \in Rows : LocalsKept(r)
           \/ \E s \in Rows : /\ Preview(s) \/ Execute(s)
                              /\ \A r \in Rows \ {s} : LocalsKept(r)
<1>1. LocalsOK
  BY TypesSplit DEF WriteInv
<1>2. CASE UNCHANGED <<status, point, base, mine>>
  BY <1>2 DEF LocalsKept
<1>3. ASSUME NEW s \in Rows,
             \/ FinishPreview(s) \/ Begin(s) \/ Refuse(s) \/ Skip(s) \/ ReadBase(s) \/ MakeCommit(s)
             \/ UpdateRef(s) \/ CreateRef(s) \/ CreatePull(s) \/ Fail(s)
      PROVE  \A r \in Rows \ {s} : LocalsKept(r)
  <2>1. CASE FinishPreview(s) \/ Begin(s) \/ Refuse(s) \/ Skip(s) \/ ReadBase(s) \/ MakeCommit(s)
    BY <1>1, <2>1 DEF FinishPreview, Begin, Refuse, Skip, ReadBase, MakeCommit, LocalsKept, LocalsOK
  <2>2. CASE \E x \in {"SUCCESS", "FAILED"} : Respond(s, x)
    BY <1>1, <2>2 DEF Respond, LocalsKept, LocalsOK
  <2>3. CASE point' = [point EXCEPT ![s] = "branched"] /\ UNCHANGED <<status, base, mine>>
    BY <1>1, <2>3 DEF LocalsKept, LocalsOK
  <2>4. QED
    BY <1>3, <2>1, <2>2, <2>3 DEF UpdateRef, CreateRef, CreatePull, Fail, Answered
<1>4. QED
  BY <1>2, <1>3 DEF Next, Preview, Execute, PreviewFile, PreviewFileFails, Push, vars

LEMMA ExecutingKept ==
    ASSUME WriteInv, [Next]_vars, NEW r \in Rows, LocalsKept(r)
    PROVE  ExecutingAt(r)'
<1>1. ExecutingAt(r)
  BY DEF WriteInv, Executing
<1>2. CASE status[r] = "previewing"
  BY <1>1, <1>2 DEF ExecutingAt, LocalsKept
<1>3. CASE status[r] # "previewing"
  <2>1. before'[r] = before[r] /\ UNCHANGED <<strategy, rendered>>
    BY <1>3, RowKept
  <2>2. Unpreviewed(r)' = Unpreviewed(r)
    BY <2>1 DEF Unpreviewed, Files
  <2>3. Made \subseteq Made' /\ \A i \in Made : commits'[i] = commits[i]
    BY CommitsKept
  <2>4. QED
    BY <1>1, <2>1, <2>2, <2>3 DEF ExecutingAt, LocalsKept, Authored
<1>4. QED
  BY <1>2, <1>3

LEMMA ExecutingActor ==
    ASSUME WriteInv, [Next]_vars, NEW r \in Rows, Preview(r) \/ Execute(r)
    PROVE  ExecutingAt(r)'
<1>1. ExecutingAt(r) /\ LocalsOK /\ GitHubOK
  BY TypesSplit DEF WriteInv, Executing
<1>2. CASE \E p \in Paths : PreviewFile(r, p) \/ PreviewFileFails(r, p)
  BY <1>2, ExecutingKept DEF PreviewFile, PreviewFileFails, LocalsKept
<1>3. CASE FinishPreview(r)
  BY <1>1, <1>3 DEF FinishPreview, ExecutingAt, LocalsOK
<1>4. CASE Begin(r)
  <2>1. status[r] # "previewing" /\ ~Unpreviewed(r)
    BY <1>4 DEF Begin, Executable
  <2>2. ~Unpreviewed(r)'
    BY <1>4, <2>1 DEF Begin, rowVars, Unpreviewed, Files
  <2>3. status'[r] = "executing" /\ point'[r] = "begun"
    BY <1>1, <1>4 DEF Begin, LocalsOK
  <2>4. QED
    BY <2>2, <2>3 DEF ExecutingAt
<1>5. CASE Refuse(r) \/ Skip(r)
  BY <1>1, <1>5 DEF Refuse, Skip, Executable, ExecutingAt, LocalsOK
<1>6. CASE ReadBase(r) \/ MakeCommit(r)
  <2>1. status[r] = "executing" /\ status' = status /\ ~Unpreviewed(r) /\ UNCHANGED rowVars
    BY <1>1, <1>6 DEF ReadBase, MakeCommit, ExecutingAt
  <2>2. ~Unpreviewed(r)'
    BY <2>1 DEF Unpreviewed, Files, rowVars
  <2>3. CASE ReadBase(r)
    <3>1. point'[r] = "based" /\ base'[r] = tip /\ UNCHANGED commits
      BY <1>1, <2>3 DEF ReadBase, LocalsOK, github
    <3>2. QED
      BY <1>1, <2>1, <2>2, <3>1 DEF ExecutingAt, GitHubOK, Made
  <2>4. CASE MakeCommit(r)
    <3>1. point'[r] = "made" /\ mine'[r] = Len(commits) + 1 /\ base'[r] = base[r]
      BY <1>1, <2>4 DEF MakeCommit, LocalsOK
    <3>2. /\ Len(commits) + 1 \in Made' /\ base[r] \in Made'
          /\ commits'[Len(commits) + 1] = CommitOf(r, base[r], NewTree(r))
      BY <1>1, <2>4, MadeCommit, Appended DEF GitHubOK
    <3>3. QED
      BY <2>1, <2>2, <3>1, <3>2 DEF ExecutingAt, Authored, CommitOf
  <2>5. QED
    BY <1>6, <2>3, <2>4
<1>7. CASE UpdateRef(r) \/ CreateRef(r) \/ CreatePull(r) \/ Fail(r)
  <2>1. CASE \E x \in {"SUCCESS", "FAILED"} : Respond(r, x)
    BY <1>1, <2>1 DEF Respond, ExecutingAt, LocalsOK
  <2>2. CASE /\ CreateRef(r) /\ strategy[r] = "PULL_REQUEST"
             /\ point' = [point EXCEPT ![r] = "branched"] /\ UNCHANGED <<status, base, mine>>
    <3>1. point[r] = "made" /\ point'[r] = "branched" /\ UNCHANGED <<strategy, rowVars, commits>>
      BY <1>1, <2>2 DEF CreateRef, LocalsOK
    <3>2. Unpreviewed(r)' = Unpreviewed(r)
      BY <3>1 DEF Unpreviewed, Files, rowVars
    <3>3. QED
      BY <1>1, <2>2, <3>1, <3>2 DEF ExecutingAt, Authored, Made
  <2>3. QED
    BY <1>7, <2>1, <2>2 DEF UpdateRef, CreateRef, CreatePull, Fail, Answered
<1>8. QED
  BY <1>2, <1>3, <1>4, <1>5, <1>6, <1>7 DEF Preview, Execute

LEMMA ExecutingStep == ASSUME WriteInv, [Next]_vars PROVE Executing'
  BY OneActs, ExecutingKept, ExecutingActor DEF Executing

-----------------------------------------------------------------------------
LEMMA TipStep ==
    ASSUME WriteInv, [Next]_vars
    PROVE  tip' = tip \/ (tip' \in Made' /\ commits'[tip'].parent = tip)
<1>1. ASSUME NEW r \in Rows, UpdateRef(r)
      PROVE  tip' \in Made' /\ commits'[tip'].parent = tip
  <2>1. mine[r] \in Made /\ commits[mine[r]].parent = base[r]
    BY <1>1 DEF UpdateRef, WriteInv, Executing, ExecutingAt, Authored
  <2>2. QED
    BY <1>1, <2>1 DEF UpdateRef, Made
<1>2. CASE Push
  BY <1>2, PushedCommit, Appended DEF Push, WriteInv, WriteTypeOK, Commits
<1>3. QED
  BY <1>1, <1>2 DEF Next, Preview, Execute, PreviewFile, PreviewFileFails, FinishPreview, Begin,
     Refuse, Skip, ReadBase, MakeCommit, CreateRef, CreatePull, Fail, vars, github

(* What was delivered stays so, whatever is written or pushed. *)
LEMMA DeliveredKept ==
    ASSUME WriteInv, [Next]_vars, NEW r \in Rows, LocalsKept(r)
    PROVE  DeliveredAt(r)'
<1>1. DeliveredAt(r)
  BY DEF WriteInv, Delivered
<1>2. UNCHANGED strategy
  BY RowKept
<1>3. Made \subseteq Made' /\ \A i \in Made : commits'[i] = commits[i]
  BY CommitsKept
<1>4. branches \subseteq branches' /\ pulls \subseteq pulls'
  BY DEF Next, Preview, Execute, PreviewFile, PreviewFileFails, FinishPreview, Begin, Refuse, Skip,
     ReadBase, MakeCommit, UpdateRef, CreateRef, CreatePull, Fail, Push, vars, github
<1>5. ASSUME NEW i \in Made, InHistory(i) PROVE InHistory(i)'
  BY <1>3, <1>5, TipStep, HistoryKept
<1>6. mine'[r] = mine[r] /\ status'[r] = status[r]
  BY DEF LocalsKept
<1>7. ASSUME status[r] = "SUCCESS", strategy[r] = "DIRECT_COMMIT" PROVE InHistory(mine[r])'
  <2>1. PICK i \in Made : i = mine[r] /\ InHistory(i)
    BY <1>1, <1>7 DEF DeliveredAt, Authored
  <2>2. InHistory(i)'
    BY <1>5, <2>1
  <2>3. QED
    BY <1>6, <2>1, <2>2 DEF InHistory
<1>8. QED
  BY <1>1, <1>2, <1>3, <1>4, <1>6, <1>7 DEF DeliveredAt, Authored

LEMMA DeliveredActor ==
    ASSUME WriteInv, [Next]_vars, NEW r \in Rows, Preview(r) \/ Execute(r)
    PROVE  DeliveredAt(r)'
<1>1. ExecutingAt(r) /\ LocalsOK /\ strategy[r] \in Strategies /\ UNCHANGED strategy
  BY TypesSplit, RowKept DEF WriteInv, WriteTypeOK, Executing
<1>2. CASE \E p \in Paths : PreviewFile(r, p) \/ PreviewFileFails(r, p)
  BY <1>2, DeliveredKept DEF PreviewFile, PreviewFileFails, LocalsKept
<1>3. CASE FinishPreview(r) \/ Begin(r) \/ Refuse(r) \/ Skip(r)
  <2>1. status'[r] # "SUCCESS"
    BY <1>1, <1>3 DEF FinishPreview, Begin, Refuse, Skip, LocalsOK
  <2>2. QED
    BY <2>1 DEF DeliveredAt
<1>4. CASE ReadBase(r) \/ MakeCommit(r)
  <2>1. status'[r] # "SUCCESS"
    BY <1>1, <1>4 DEF ReadBase, MakeCommit, ExecutingAt
  <2>2. QED
    BY <2>1 DEF DeliveredAt
<1>5. CASE UpdateRef(r) \/ CreateRef(r) \/ CreatePull(r) \/ Fail(r)
  <2>1. SUFFICES ASSUME status'[r] = "SUCCESS" PROVE DeliveredAt(r)'
    BY DEF DeliveredAt
  <2>2. point[r] \in {"made", "branched"} /\ ~Fail(r) /\ mine'[r] = mine[r]
    BY <1>1, <1>5, <2>1 DEF UpdateRef, CreateRef, CreatePull, Fail, Answered, Respond, LocalsOK, ExecutingAt
  <2>3. Authored(r)'
    BY <1>1, <1>5, <2>2 DEF ExecutingAt, Authored, UpdateRef, CreateRef, CreatePull, Made
  <2>4. CASE UpdateRef(r)
    <3>1. tip' = mine'[r] /\ strategy[r] = "DIRECT_COMMIT"
      BY <2>2, <2>4 DEF UpdateRef
    <3>2. InHistory(mine[r])'
      BY <3>1 DEF InHistory, HoldsHistory
    <3>3. QED
      BY <1>1, <2>3, <3>1, <3>2 DEF DeliveredAt
  <2>5. CASE CreateRef(r)
    <3>1. strategy[r] = "NEW_BRANCH" /\ mine'[r] \in branches'
      BY <1>1, <2>1, <2>2, <2>5 DEF CreateRef, Respond, ExecutingAt, LocalsOK
    <3>2. QED
      BY <1>1, <2>3, <3>1 DEF DeliveredAt
  <2>6. CASE CreatePull(r)
    <3>1. strategy[r] = "PULL_REQUEST" /\ mine'[r] \in pulls'
      BY <1>1, <2>2, <2>6 DEF CreatePull, ExecutingAt
    <3>2. QED
      BY <1>1, <2>3, <3>1 DEF DeliveredAt
  <2>7. QED
    BY <1>5, <2>2, <2>4, <2>5, <2>6
<1>6. QED
  BY <1>2, <1>3, <1>4, <1>5 DEF Preview, Execute

LEMMA DeliveredStep == ASSUME WriteInv, [Next]_vars PROVE Delivered'
  BY OneActs, DeliveredKept, DeliveredActor DEF Delivered
-----------------------------------------------------------------------------
(* Numbers are well ordered, as a fact about sets of them ... *)
LEMMA LeastElement ==
    ASSUME NEW T, T \subseteq Nat, T # {}
    PROVE  \E x \in T : \A y \in T : x <= y
<1> DEFINE R == OpToRel(<, Nat)
<1>1. IsWellFoundedOn(R, Nat)
  BY NatLessThanWellFounded, Zenon
<1> HIDE DEF R
<1>2. \E x \in T : \A y \in T : ~(<<y, x>> \in R)
  BY <1>1, WFMin, Zenon
<1>3. ASSUME NEW x \in Nat, NEW y \in Nat, ~(<<y, x>> \in R) PROVE x <= y
  BY <1>3 DEF R, OpToRel
<1>4. QED
  BY <1>2, <1>3

(* ... and so a set with every number that all smaller ones imply has all. *)
LEMMA SetInduction ==
    ASSUME NEW T, \A n \in Nat : (\A m \in Nat : m < n => m \in T) => n \in T
    PROVE  Nat \subseteq T
<1> SUFFICES ASSUME Nat \ T # {} PROVE FALSE
  OBVIOUS
<1>1. PICK n \in Nat \ T : \A m \in Nat \ T : n <= m
  BY LeastElement
<1>2. \A m \in Nat : m < n => m \in T
  BY <1>1
<1>3. QED
  BY <1>1, <1>2

(* The commits that every closed set with c has. *)
Ancestors(c) == {d \in Made : \A S \in SUBSET Made : c \in S /\ Closed(S) => d \in S}

LEMMA AncestorsOfRoot ==
    ASSUME NEW c \in Made, commits[c].parent = 0 PROVE Ancestors(c) = {c}
<1>1. Closed({c})
  BY DEF Closed
<1>2. QED
  BY <1>1 DEF Ancestors

LEMMA AncestorsOfChild ==
    ASSUME NEW c \in Made, commits[c].parent \in Made, commits[c].parent # 0
    PROVE  Ancestors(c) = {c} \cup Ancestors(commits[c].parent)
<1> DEFINE p == commits[c].parent
<1>1. ASSUME NEW d \in Ancestors(p) PROVE d \in Ancestors(c)
  BY DEF Ancestors, Closed
<1>2. ASSUME NEW d \in Ancestors(c), d # c, NEW S \in SUBSET Made, p \in S, Closed(S)
      PROVE  d \in S
  <2>1. S \cup {c} \in SUBSET Made /\ Closed(S \cup {c})
    BY <1>2 DEF Closed
  <2>2. QED
    BY <1>2, <2>1 DEF Ancestors
<1>3. c \in Ancestors(c)
  BY DEF Ancestors
<1>4. QED
  BY <1>1, <1>2, <1>3 DEF Ancestors

(* There is a function as History is defined to be. *)
LEMMA HistoryDefined ==
    ASSUME WriteInv
    PROVE  History = [c \in 0 .. Len(commits) |->
                        IF c = 0 THEN {} ELSE {c} \cup History[commits[c].parent]]
<1> DEFINE F == [c \in 0 .. Len(commits) |-> IF c = 0 THEN {} ELSE Ancestors(c)]
<1>1. Len(commits) \in Nat
  BY DEF WriteInv, WriteTypeOK
<1>2. ASSUME NEW c \in 0 .. Len(commits), c # 0
      PROVE  Ancestors(c) = {c} \cup F[commits[c].parent]
  <2>1. c \in Made /\ commits[c].parent \in {0} \cup Made
    BY <1>1, <1>2 DEF Made, WriteInv, Parented
  <2>2. CASE commits[c].parent = 0
    BY <1>1, <2>1, <2>2, AncestorsOfRoot
  <2>3. CASE commits[c].parent # 0
    <3>1. commits[c].parent \in 0 .. Len(commits)
      BY <1>1, <2>1 DEF Made
    <3>2. F[commits[c].parent] = Ancestors(commits[c].parent)
      BY <2>3, <3>1
    <3>3. QED
      BY <2>1, <2>3, <3>2, AncestorsOfChild
  <2>4. QED
    BY <2>2, <2>3
<1>3. F = [c \in 0 .. Len(commits) |-> IF c = 0 THEN {} ELSE {c} \cup F[commits[c].parent]]
  BY <1>2
<1> HIDE DEF F
<1>4. QED
  BY <1>3, Zenon DEF History

(* A commit's history holds it and is closed. *)
LEMMA HistoryCloses ==
    ASSUME WriteInv, NEW c \in Made
    PROVE  History[c] \subseteq Made /\ c \in History[c] /\ Closed(History[c])
<1> DEFINE Good(n) == History[n] \subseteq Made /\ n \in History[n] /\ Closed(History[n])
           T == {n \in Nat : n \in Made => Good(n)}
<1>1. Len(commits) \in Nat
  BY DEF WriteInv, WriteTypeOK
<1>2. ASSUME NEW n \in Nat, \A m \in Nat : m < n => m \in T PROVE n \in T
  <2>1. SUFFICES ASSUME n \in Made PROVE Good(n)
    OBVIOUS
  <2> DEFINE p == commits[n].parent
  <2>2. p \in {0} \cup Made /\ p < n /\ p \in Nat
    BY <1>1, <2>1 DEF WriteInv, Parented, Made
  <2>3. n \in 0 .. Len(commits) /\ n # 0 /\ p \in 0 .. Len(commits)
    BY <1>1, <2>1, <2>2 DEF Made
  <2>4. History[n] = {n} \cup History[p]
    BY <2>3, HistoryDefined
  <2>5. CASE p = 0
    <3>1. History[p] = {}
      BY <1>1, <2>3, <2>5, HistoryDefined
    <3>2. QED
      BY <2>1, <2>4, <2>5, <3>1 DEF Closed
  <2>6. CASE p # 0
    <3>1. Good(p)
      BY <1>2, <2>2, <2>6
    <3>2. QED
      BY <2>1, <2>4, <3>1 DEF Closed
  <2>7. QED
    BY <2>5, <2>6
<1>3. Nat \subseteq T
  <2> HIDE DEF T
  <2>1. QED
    BY <1>2, SetInduction
<1>4. QED
  BY <1>1, <1>3 DEF Made

-----------------------------------------------------------------------------
(* The inductive invariant of the writes, for any rows and any pushes. *)
THEOREM WriteInvariant == Spec => []WriteInv
<1>1. WriteInv /\ [Next]_vars => WriteInv'
  BY TypeStep, ParentedStep, ExecutingStep, PreviewedFirstStep, ReviewedStep, DeliveredStep
     DEF WriteInv
<1>2. QED
  BY <1>1, InitInv, PTL DEF Spec

(* No commit changes a file in a way its row's preview has not shown, with  *)
(* other rows and other people writing to the repository in between.       *)
THEOREM Review == Spec => []OnlyReviewed
<1>1. WriteInv => OnlyReviewed
  BY DEF WriteInv
<1>2. QED
  BY <1>1, WriteInvariant, PTL

(* No push to the default branch is undone by a row. *)
THEOREM BranchGrows == Spec => DefaultBranchGrows
<1>1. WriteInv /\ [Next]_vars => [tip' # tip => commits'[tip'].parent = tip]_vars
  BY TipStep
<1>2. QED
  BY <1>1, WriteInvariant, PTL DEF Spec, DefaultBranchGrows

(* A row that is SUCCESS has its commit where its changeset wanted it: in   *)
(* the default branch's history, or under a branch, or a pull request, of  *)
(* its own, whatever was pushed or written since.                          *)
THEOREM Delivery == Spec => []SuccessDelivered
<1>1. ASSUME WriteInv PROVE SuccessDelivered
  <2>1. SUFFICES ASSUME NEW r \in Rows, status[r] = "SUCCESS"
                 PROVE  /\ mine[r] \in Ours /\ commits[mine[r]].author = r
                        /\ CASE strategy[r] = "DIRECT_COMMIT" -> mine[r] \in History[tip]
                             [] strategy[r] = "NEW_BRANCH" -> mine[r] \in branches
                             [] OTHER -> mine[r] \in pulls
    BY DEF SuccessDelivered
  <2>2. DeliveredAt(r) /\ strategy[r] \in Strategies /\ tip \in Made
    BY <1>1 DEF WriteInv, WriteTypeOK, Delivered, Made
  <2>3. ASSUME strategy[r] = "DIRECT_COMMIT" PROVE mine[r] \in History[tip]
    <3>1. HoldsHistory(History[tip]) /\ History[tip] \in SUBSET Made
      BY <1>1, <2>2, HistoryCloses DEF HoldsHistory
    <3>2. QED
      BY <2>1, <2>2, <2>3, <3>1 DEF DeliveredAt, InHistory
  <2>4. QED
    BY <2>1, <2>2, <2>3 DEF DeliveredAt, Authored, Ours, Made, Strategies
<1>2. QED
  BY <1>1, WriteInvariant, PTL
=============================================================================
