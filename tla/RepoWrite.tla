----------------------------- MODULE RepoWrite -----------------------------
(***************************************************************************)
(* What the rows of bulk updates do to one repository: the preview of      *)
(* repoDiff.ts and the write of repoExecute.ts, request by request, with   *)
(* several rows on the repository (two jobs, or one that names it twice)   *)
(* and other people pushing to its default branch.  Requests fail with and *)
(* without having had their effect.                                        *)
(*                                                                         *)
(* GitHub is modelled from how it is called: commits are immutable, a ref  *)
(* is updated without force.                                               *)
(***************************************************************************)
EXTENDS Naturals, Sequences, FiniteSets

CONSTANTS
    Rows,           \* repo_runs on the repository
    Paths,          \* files that the changesets name
    Texts,          \* contents of files
    MaxAttempts,    \* how often a row is executed (a bound)
    MaxPushes       \* how often others push (a bound)

ASSUME WriteAssumption ==
    /\ "nobody" \notin Rows
    /\ {"absent", "error", "unread", "blank"} \cap Texts = {}
    /\ MaxAttempts \in Nat /\ MaxPushes \in Nat

VARIABLES
    strategy,    \* commitStrategy and branchStrategy of each row's changeset
    mode,        \* modes of the files that it names; OVERWRITE is as UPSERT
    rendered,    \* renderedContent of each row's files
    before,      \* content the preview has read, "absent" for a 404
    status,      \* repo_runs.status, and "previewing", "executing"
    point,       \* where in executeRepoRun the row is
    base,        \* baseCommitSha
    mine,        \* newCommit.sha, then the row's commitSha; 0 while there is none
    attempts,    \* executions so far
    commits,     \* GitHub: every commit made
    tip,         \* GitHub: the default branch
    branches,    \* GitHub: commits with a branch of their own
    pulls        \* GitHub: commits with a pull request

rowVars == <<mode, rendered, before>>
github  == <<commits, tip, branches, pulls>>
vars == <<strategy, rowVars, status, point, base, mine, attempts, github>>

Strategies == {"DIRECT_COMMIT", "NEW_BRANCH", "PULL_REQUEST"}
Modes == {"UPSERT", "CREATE_ONLY"}

Nobody == "nobody"
Trees == [Paths -> Texts \cup {"absent", "blank"}]
Files(r) == DOMAIN rendered[r]     \* repo_run_files
CommitOf(author, parent, tree) == [author |-> author, parent |-> parent, tree |-> tree]

Tree(c) == commits[c].tree
-----------------------------------------------------------------------------
Init ==
    /\ strategy \in [Rows -> Strategies]
    /\ \E files \in [Rows -> SUBSET Paths \ {{}}] :
          /\ mode \in {m \in [Rows -> UNION {[f -> Modes] : f \in SUBSET Paths}] :
                         \A r \in Rows : DOMAIN m[r] = files[r]}
          /\ rendered \in {t \in [Rows -> UNION {[f -> Texts] : f \in SUBSET Paths}] :
                             \A r \in Rows : DOMAIN t[r] = files[r]}
          /\ before = [r \in Rows |-> [p \in files[r] |-> "unread"]]
    /\ status = [r \in Rows |-> "previewing"]
    /\ point = [r \in Rows |-> "none"]
    /\ base = [r \in Rows |-> 0]
    /\ mine = [r \in Rows |-> 0]
    /\ attempts = [r \in Rows |-> 0]
    /\ \E t \in [Paths -> Texts \cup {"absent"}] : commits = <<CommitOf(Nobody, 0, t)>>
    /\ tip = 1
    /\ branches = {}
    /\ pulls = {}

(* One getContent of the preview; a directory is an error too. *)
PreviewFile(r, p) ==
    /\ status[r] = "previewing"
    /\ p \in Files(r) /\ before[r][p] = "unread"
    /\ before' = [before EXCEPT ![r][p] = Tree(tip)[p]]
    /\ UNCHANGED <<strategy, mode, rendered, status, point, base, mine, attempts, github>>

PreviewFileFails(r, p) ==
    /\ status[r] = "previewing"
    /\ p \in Files(r) /\ before[r][p] = "unread"
    /\ before' = [before EXCEPT ![r][p] = "error"]
    /\ UNCHANGED <<strategy, mode, rendered, status, point, base, mine, attempts, github>>

Unpreviewed(r) == \E p \in Files(r) : before[r][p] \in {"unread", "error"}

FinishPreview(r) ==
    /\ status[r] = "previewing"
    /\ \A p \in Files(r) : before[r][p] # "unread"
    /\ status' = [status EXCEPT ![r] = IF Unpreviewed(r) THEN "FAILED" ELSE "DIFF_COMPUTED"]
    /\ UNCHANGED <<strategy, rowVars, point, base, mine, attempts, github>>

(* isSkipped: a diff of equal contents has no hunks. *)
Skipped(r, p) ==
    /\ before[r][p] # "absent"
    /\ mode[r][p] = "CREATE_ONLY" \/ before[r][p] = rendered[r][p]

Written(r) == {p \in Files(r) : ~Skipped(r, p)}

Executable(r) == status[r] \in {"DIFF_COMPUTED", "FAILED"} /\ attempts[r] < MaxAttempts

Started(r) == attempts' = [attempts EXCEPT ![r] = @ + 1]

(* Mutant: a file without a valid preview is like any other. *)
BeginUnchecked(r) ==
    /\ Executable(r)
    /\ Written(r) # {}
    /\ Started(r)
    /\ status' = [status EXCEPT ![r] = "executing"]
    /\ point' = [point EXCEPT ![r] = "begun"]
    /\ UNCHANGED <<strategy, rowVars, base, mine, github>>

(* executeRepoRun up to its first request. *)
Begin(r) ==
    /\ Executable(r)
    /\ ~Unpreviewed(r)
    /\ Written(r) # {}
    /\ Started(r)
    /\ status' = [status EXCEPT ![r] = "executing"]
    /\ point' = [point EXCEPT ![r] = "begun"]
    /\ UNCHANGED <<strategy, rowVars, base, mine, github>>

Refuse(r) ==
    /\ Executable(r)
    /\ Unpreviewed(r)
    /\ Started(r)
    /\ status' = [status EXCEPT ![r] = "FAILED"]
    /\ UNCHANGED <<strategy, rowVars, point, base, mine, github>>

Skip(r) ==
    /\ Executable(r)
    /\ ~Unpreviewed(r)
    /\ Written(r) = {}
    /\ Started(r)
    /\ status' = [status EXCEPT ![r] = "SKIPPED"]
    /\ UNCHANGED <<strategy, rowVars, point, base, mine, github>>

(* getBranch: the tip the commit is built on. *)
ReadBase(r) ==
    /\ point[r] = "begun"
    /\ base' = [base EXCEPT ![r] = tip]
    /\ point' = [point EXCEPT ![r] = "based"]
    /\ UNCHANGED <<strategy, rowVars, status, mine, attempts, github>>

(* renderedContent ?? "" *)
Content(r, p) == IF before[r][p] = "error" THEN "blank" ELSE rendered[r][p]

(* createTree over base_tree, with a blob for every file that is written. *)
NewTree(r) == [p \in Paths |-> IF p \in Written(r) THEN Content(r, p) ELSE Tree(base[r])[p]]

(* Blobs, tree and commit: nothing anyone can see before a ref names it.   *)
MakeCommit(r) ==
    /\ point[r] = "based"
    /\ commits' = Append(commits, CommitOf(r, base[r], NewTree(r)))
    /\ mine' = [mine EXCEPT ![r] = Len(commits) + 1]
    /\ point' = [point EXCEPT ![r] = "made"]
    /\ UNCHANGED <<strategy, rowVars, status, base, attempts, tip, branches, pulls>>

(* executeRepoRun returns: of its locals only a reported commit is left.   *)
Respond(r, s) ==
    /\ status' = [status EXCEPT ![r] = s]
    /\ point' = [point EXCEPT ![r] = "none"]
    /\ base' = [base EXCEPT ![r] = 0]
    /\ mine' = [mine EXCEPT ![r] = IF s = "SUCCESS" THEN @ ELSE 0]

(* The answer of the last request arrives, or is lost. *)
Answered(r) == \E s \in {"SUCCESS", "FAILED"} : Respond(r, s)

(* Mutant: the ref is updated with force. *)
UpdateRefForced(r) ==
    /\ point[r] = "made"
    /\ strategy[r] = "DIRECT_COMMIT"
    /\ tip' = mine[r]
    /\ Answered(r)
    /\ UNCHANGED <<strategy, rowVars, attempts, commits, branches, pulls>>

(* updateRef without force: only from the commit's parent. *)
UpdateRef(r) ==
    /\ point[r] = "made"
    /\ strategy[r] = "DIRECT_COMMIT"
    /\ tip = base[r]
    /\ tip' = mine[r]
    /\ Answered(r)
    /\ UNCHANGED <<strategy, rowVars, attempts, commits, branches, pulls>>

(* createRef, under a name with the time in it. *)
CreateRef(r) ==
    /\ point[r] = "made"
    /\ strategy[r] # "DIRECT_COMMIT"
    /\ branches' = branches \cup {mine[r]}
    /\ \/ strategy[r] = "NEW_BRANCH" /\ Answered(r)
       \/ strategy[r] = "PULL_REQUEST" /\ Respond(r, "FAILED")
       \/ /\ strategy[r] = "PULL_REQUEST"
          /\ point' = [point EXCEPT ![r] = "branched"]
          /\ UNCHANGED <<status, base, mine>>
    /\ UNCHANGED <<strategy, rowVars, attempts, commits, tip, pulls>>

(* Mutant: success does not wait for the pull request. *)
CreatePullUnmade(r) ==
    /\ point[r] = "branched"
    /\ Respond(r, "SUCCESS")
    /\ UNCHANGED <<strategy, rowVars, attempts, github>>

CreatePull(r) ==
    /\ point[r] = "branched"
    /\ pulls' = pulls \cup {mine[r]}
    /\ Answered(r)
    /\ UNCHANGED <<strategy, rowVars, attempts, commits, tip, branches>>

(* A request fails without an effect; or the branch has moved. *)
Fail(r) ==
    /\ point[r] # "none"
    /\ Respond(r, "FAILED")
    /\ UNCHANGED <<strategy, rowVars, attempts, github>>

Pushes == {c \in 2 .. Len(commits) : commits[c].author = Nobody}

(* Somebody else pushes to the default branch. *)
Push ==
    /\ Cardinality(Pushes) < MaxPushes
    /\ \E p \in Paths, t \in Texts \cup {"absent"} :
          /\ t # Tree(tip)[p]
          /\ commits' = Append(commits, CommitOf(Nobody, tip, [Tree(tip) EXCEPT ![p] = t]))
    /\ tip' = Len(commits) + 1
    /\ UNCHANGED <<strategy, rowVars, status, point, base, mine, attempts, branches, pulls>>

Preview(r) == FinishPreview(r) \/ \E p \in Paths : PreviewFile(r, p) \/ PreviewFileFails(r, p)

Execute(r) ==
    \/ Begin(r) \/ Refuse(r) \/ Skip(r)
    \/ ReadBase(r) \/ MakeCommit(r)
    \/ UpdateRef(r) \/ CreateRef(r) \/ CreatePull(r) \/ Fail(r)

Next == Push \/ \E r \in Rows : Preview(r) \/ Execute(r)

Spec == Init /\ [][Next]_vars
-----------------------------------------------------------------------------
(* Every variable has its type, and refs name commits that were made. *)
WriteTypeOK ==
    /\ strategy \in [Rows -> Strategies]
    /\ DOMAIN before = Rows
    /\ \A r \in Rows :
          /\ Files(r) \subseteq Paths
          /\ mode[r] \in [Files(r) -> Modes] /\ rendered[r] \in [Files(r) -> Texts]
          /\ before[r] \in [Files(r) -> Texts \cup {"absent", "blank", "unread", "error"}]
    /\ status \in [Rows -> {"previewing", "DIFF_COMPUTED", "executing", "SUCCESS", "SKIPPED", "FAILED"}]
    /\ point \in [Rows -> {"none", "begun", "based", "made", "branched"}]
    /\ base \in [Rows -> Nat] /\ mine \in [Rows -> Nat] /\ attempts \in [Rows -> Nat]
    /\ commits \in Seq([author : Rows \cup {Nobody}, parent : Nat, tree : Trees])
    /\ tip \in 1 .. Len(commits)
    /\ branches \subseteq 1 .. Len(commits) /\ pulls \subseteq 1 .. Len(commits)

Ours == {c \in 1 .. Len(commits) : commits[c].author \in Rows}

History[c \in 0 .. Len(commits)] ==
    IF c = 0 THEN {} ELSE {c} \cup History[commits[c].parent]

(* The default branch only ever grows: no push of anyone, made before or   *)
(* while a row is executed, is undone.                                     *)
DefaultBranchGrows == [][tip' # tip => commits'[tip'].parent = tip]_vars

(* A commit changes nothing but the files its row's preview has shown, to  *)
(* what it has shown ("silently committing a blank file that was never     *)
(* reviewed" is what executeRepoRun guards against).                       *)
OnlyReviewed ==
    \A c \in Ours : LET r == commits[c].author IN
        \A p \in Paths : Tree(c)[p] # Tree(commits[c].parent)[p] =>
            /\ p \in Files(r) /\ Tree(c)[p] = rendered[r][p]
            /\ before[r][p] \notin {"error", "unread", rendered[r][p]}

(* SUCCESS means that the row's commit is where its changeset wanted it,   *)
(* whatever was pushed or written since.                                   *)
SuccessDelivered ==
    \A r \in Rows : status[r] = "SUCCESS" =>
        /\ mine[r] \in Ours /\ commits[mine[r]].author = r
        /\ CASE strategy[r] = "DIRECT_COMMIT" -> mine[r] \in History[tip]
             [] strategy[r] = "NEW_BRANCH" -> mine[r] \in branches
             [] OTHER -> mine[r] \in pulls

(* A CREATE_ONLY file that is there is left alone (quick-start.md:40-41:   *)
(* "Create only (skip repos that already have the file)").                 *)
CreateOnlyKept ==
    \A c \in Ours : \A p \in Files(commits[c].author) :
        LET there == Tree(commits[c].parent)[p]
        IN  mode[commits[c].author][p] = "CREATE_ONLY" /\ there # "absent" => Tree(c)[p] = there

(* Every commit changes something (workflow.md:59-60: "no-op commits       *)
(* aren't created").  It does not hold when the answer to an updateRef is  *)
(* lost and the row is retried.                                            *)
NoEmptyCommits == \A c \in Ours : Tree(c) # Tree(commits[c].parent)
=============================================================================
