----------------------------- MODULE JobEngine -----------------------------
(***************************************************************************)
(* One bulk-update job of the API process: its preview loop                *)
(* (routes/changesets.ts), the execute and retry routes (routes/jobs.ts)   *)
(* and the background runs they start (jobQueue.ts).  JavaScript runs to   *)
(* the next await, so an action is the code between two awaits.            *)
(*                                                                         *)
(* Rows are the job's repo_runs; a row's GitHub side is the number of      *)
(* commits made for it.  Timestamps, messages and prUrl are left out: no   *)
(* guard of this code reads them.                                          *)
(***************************************************************************)
EXTENDS Naturals, FiniteSets

CONSTANTS
    Rows,         \* the job's repo_runs, one per target repository
    Calls,        \* the POST /execute and POST /retry requests made
    Concurrency,  \* p-limit's bound within one run (CONCURRENCY = 5)
    MaxFaults     \* how many database errors may happen (a bound)

(* A job without repositories is READY at once and has nothing to do. *)
ASSUME EngineAssumption ==
    /\ IsFiniteSet(Rows) /\ Rows # {}
    /\ Concurrency \in Nat \ {0}
    /\ MaxFaults \in Nat

VARIABLES
    job,         \* jobs.status
    status,      \* repo_runs.status, "NONE" before the row is inserted
    preview,     \* what the row's repo_run_files say: see Previews
    attempts,    \* repo_runs.attempt_count
    commitSha,   \* repo_runs.commit_sha: 0 is null, k the row's k-th commit
    loop,        \* the preview loop of POST /changesets/:id/jobs
    phase,       \* where each request and the run it started is
    kind,        \* which route the request went to
    queue,       \* rows of the run p-limit has not started yet
    active,      \* rows of the run being executed
    base,        \* attempt_count as the run's own snapshot of the rows has it
    made,        \* the commit the task has made on GitHub, 0 while none
    landed,      \* GitHub: commits made for the row so far
    faults       \* database errors so far

rowVars  == <<status, attempts, commitSha>>
runVars  == <<queue, active, base, made>>
callVars == <<phase, kind>>
vars == <<job, rowVars, preview, loop, callVars, runVars, landed, faults>>

Terminal  == {"COMPLETED", "PARTIAL_FAILURE", "FAILED"}
JobStatus == {"PREVIEWING", "READY", "RUNNING"} \cup Terminal
RowStatus == {"NONE", "DIFF_COMPUTED", "SUCCESS", "SKIPPED", "FAILED"}
Settled   == {"SUCCESS", "SKIPPED"}

(* "invalid": no files, or a file without a valid preview; "noop": every   *)
(* file is skippable; "write": some file is to be committed.               *)
Previews == {"none", "invalid", "noop", "write"}

Eligible(k) == IF k = "execute" THEN "DIFF_COMPUTED" ELSE "FAILED"

(* Mutant: FAILED as soon as one row failed. *)
FinalStatusHarsh(st) ==
    IF \A r \in Rows : st[r] # "FAILED" THEN "COMPLETED" ELSE "FAILED"

(* computeJobFinalStatus. *)
FinalStatus(st) ==
    LET present == {r \in Rows : st[r] # "NONE"}
    IN  IF \A r \in present : st[r] # "FAILED" THEN "COMPLETED"
        ELSE IF \A r \in present : st[r] \notin Settled THEN "FAILED"
        ELSE "PARTIAL_FAILURE"

(* A run that hit a database error keeps its started and queued tasks: it  *)
(* only never reaches its final status.                                    *)
Live(c) == phase[c] \in {"running", "aborted"}
-----------------------------------------------------------------------------
(* The state after POST /changesets/:id/jobs' first transaction. *)
Init ==
    /\ job = "PREVIEWING"
    /\ loop = "running"
    /\ status = [r \in Rows |-> "NONE"]
    /\ preview = [r \in Rows |-> "none"]
    /\ attempts = [r \in Rows |-> 0]
    /\ commitSha = [r \in Rows |-> 0]
    /\ phase = [c \in Calls |-> "idle"]
    /\ kind = [c \in Calls |-> "execute"]
    /\ queue = [c \in Calls |-> {}]
    /\ active = [c \in Calls |-> {}]
    /\ base = [c \in Calls |-> [r \in Rows |-> 0]]
    /\ made = [c \in Calls |-> [r \in Rows |-> 0]]
    /\ landed = [r \in Rows |-> 0]
    /\ faults = 0

(* One turn of the preview loop: computeRepoRunPreview's outcome and the   *)
(* row and files inserted for it.  After the last of them there is no      *)
(* await any more: the same step saves READY, whatever the status has      *)
(* become meanwhile.                                                       *)
PreviewRow(r) ==
    /\ loop = "running"
    /\ status[r] = "NONE"
    /\ \E p \in Previews \ {"none"} :
          /\ preview' = [preview EXCEPT ![r] = p]
          /\ status' = [status EXCEPT ![r] = IF p = "invalid" THEN "FAILED" ELSE "DIFF_COMPUTED"]
    /\ IF \A s \in Rows \ {r} : status[s] # "NONE"
       THEN job' = "READY" /\ loop' = "over"
       ELSE UNCHANGED <<job, loop>>
    /\ UNCHANGED <<attempts, commitSha, callVars, runVars, landed, faults>>

(* A route's checks, up to its await: execute wants a row to execute. *)
CheckExecute(c) ==
    /\ phase[c] = "idle"
    /\ \E r \in Rows : status[r] = "DIFF_COMPUTED"
    /\ phase' = [phase EXCEPT ![c] = "checked"]
    /\ kind' = [kind EXCEPT ![c] = "execute"]
    /\ UNCHANGED <<job, rowVars, preview, loop, runVars, landed, faults>>

CheckRetry(c) ==
    /\ phase[c] = "idle"
    /\ phase' = [phase EXCEPT ![c] = "checked"]
    /\ kind' = [kind EXCEPT ![c] = "retry"]
    /\ UNCHANGED <<job, rowVars, preview, loop, runVars, landed, faults>>

(* getOctokitOr400: the job's creator has no connection; or saving RUNNING *)
(* throws, which leaves the same behind.                                   *)
Refuse(c) ==
    /\ phase[c] = "checked"
    /\ phase' = [phase EXCEPT ![c] = "ended"]
    /\ UNCHANGED <<job, rowVars, preview, loop, kind, runVars, landed, faults>>

(* Mutant: RUNNING is not saved. *)
StartRunUnsaved(c) ==
    /\ phase[c] = "checked"
    /\ phase' = [phase EXCEPT ![c] = "running"]
    /\ queue' = [queue EXCEPT ![c] = {r \in Rows : status[r] = Eligible(kind[c])}]
    /\ base' = [base EXCEPT ![c] = attempts]
    /\ UNCHANGED <<job, rowVars, preview, loop, kind, active, made, landed, faults>>

(* Mutant: the run takes every row, whatever its status. *)
StartRunAllRows(c) ==
    /\ phase[c] = "checked"
    /\ phase' = [phase EXCEPT ![c] = "running"]
    /\ job' = "RUNNING"
    /\ queue' = [queue EXCEPT ![c] = Rows]
    /\ base' = [base EXCEPT ![c] = attempts]
    /\ UNCHANGED <<rowVars, preview, loop, kind, active, made, landed, faults>>

(* After the await: RUNNING is saved and runJobExecution runs up to its    *)
(* own first await, so it snapshots and filters the rows in this step.     *)
StartRun(c) ==
    /\ phase[c] = "checked"
    /\ phase' = [phase EXCEPT ![c] = "running"]
    /\ job' = "RUNNING"
    /\ queue' = [queue EXCEPT ![c] = {r \in Rows : status[r] = Eligible(kind[c])}]
    /\ base' = [base EXCEPT ![c] = attempts]
    /\ UNCHANGED <<rowVars, preview, loop, kind, active, made, landed, faults>>

(* Mutant: the bound is off by one. *)
StartTaskOneLess(c, r) ==
    /\ Live(c)
    /\ r \in queue[c]
    /\ Cardinality(active[c]) + 1 < Concurrency
    /\ queue' = [queue EXCEPT ![c] = @ \ {r}]
    /\ active' = [active EXCEPT ![c] = @ \cup {r}]
    /\ UNCHANGED <<job, rowVars, preview, loop, callVars, base, made, landed, faults>>

(* p-limit lets the next task in. *)
StartTask(c, r) ==
    /\ Live(c)
    /\ r \in queue[c]
    /\ Cardinality(active[c]) < Concurrency
    /\ queue' = [queue EXCEPT ![c] = @ \ {r}]
    /\ active' = [active EXCEPT ![c] = @ \cup {r}]
    /\ UNCHANGED <<job, rowVars, preview, loop, callVars, base, made, landed, faults>>

(* executeRepoRun's commit reaches GitHub. *)
Commit(c, r) ==
    /\ r \in active[c]
    /\ preview[r] = "write"
    /\ made[c][r] = 0
    /\ landed' = [landed EXCEPT ![r] = @ + 1]
    /\ made' = [made EXCEPT ![c][r] = landed[r] + 1]
    /\ UNCHANGED <<job, rowVars, preview, loop, callVars, queue, active, base, faults>>

(* The task's last step: updateRepoRun writes the keys its outcome has. *)
LeaveTask(c, r) ==
    /\ r \in active[c]
    /\ active' = [active EXCEPT ![c] = @ \ {r}]
    /\ made' = [made EXCEPT ![c][r] = 0]
    /\ UNCHANGED <<preview, loop, callVars, queue, base, landed>>

(* Mutant: success is reported without the commit having been made. *)
SucceedUnmade(c, r) ==
    /\ status' = [status EXCEPT ![r] = "SUCCESS"]
    /\ commitSha' = [commitSha EXCEPT ![r] = made[c][r]]
    /\ attempts' = [attempts EXCEPT ![r] = base[c][r] + 1]
    /\ LeaveTask(c, r)
    /\ UNCHANGED <<job, faults>>

Succeed(c, r) ==
    /\ made[c][r] # 0
    /\ status' = [status EXCEPT ![r] = "SUCCESS"]
    /\ commitSha' = [commitSha EXCEPT ![r] = made[c][r]]
    /\ attempts' = [attempts EXCEPT ![r] = base[c][r] + 1]
    /\ LeaveTask(c, r)
    /\ UNCHANGED <<job, faults>>

(* Nothing to commit: attempt_count and commit_sha stay. *)
Skip(c, r) ==
    /\ preview[r] = "noop"
    /\ status' = [status EXCEPT ![r] = "SKIPPED"]
    /\ LeaveTask(c, r)
    /\ UNCHANGED <<job, attempts, commitSha, faults>>

(* Mutant: a failed attempt is not counted. *)
FailUncounted(c, r) ==
    /\ status' = [status EXCEPT ![r] = "FAILED"]
    /\ LeaveTask(c, r)
    /\ UNCHANGED <<job, attempts, commitSha, faults>>

(* No connection for the organization, an invalid preview, or any request  *)
(* failing: also one after the commit was made (its answer lost, or the    *)
(* pull request refused).                                                  *)
Fail(c, r) ==
    /\ status' = [status EXCEPT ![r] = "FAILED"]
    /\ attempts' = [attempts EXCEPT ![r] = base[c][r] + 1]
    /\ LeaveTask(c, r)
    /\ UNCHANGED <<job, commitSha, faults>>

(* Mutant: the started tasks are not awaited. *)
FinishRunUnawaited(c) ==
    /\ phase[c] = "running"
    /\ queue[c] = {}
    /\ job' = FinalStatus(status)
    /\ phase' = [phase EXCEPT ![c] = "ended"]
    /\ UNCHANGED <<rowVars, preview, loop, kind, runVars, landed, faults>>

(* Mutant: the verdict is published but not saved. *)
FinishRunUnsaved(c) ==
    /\ phase[c] = "running"
    /\ queue[c] = {}
    /\ active[c] = {}
    /\ phase' = [phase EXCEPT ![c] = "ended"]
    /\ UNCHANGED <<job, rowVars, preview, loop, kind, runVars, landed, faults>>

(* Every task is done: the rows are read again and the verdict saved. *)
FinishRun(c) ==
    /\ phase[c] = "running"
    /\ queue[c] = {}
    /\ active[c] = {}
    /\ job' = FinalStatus(status)
    /\ phase' = [phase EXCEPT ![c] = "ended"]
    /\ UNCHANGED <<rowVars, preview, loop, kind, runVars, landed, faults>>

(* markJobFailed after a database error: FAILED is saved, or saving it is  *)
(* a second error, which is only logged: the job stays j.                  *)
MarkJobFailed(j) ==
    \/ faults + 1 <= MaxFaults /\ faults' = faults + 1 /\ job' = "FAILED"
    \/ faults + 2 <= MaxFaults /\ faults' = faults + 2 /\ job' = j

(* The task's own updateRepoRun throws: Promise.all rejects and            *)
(* markJobFailed runs, once per run, while the other tasks go on.          *)
TaskFault(c, r) ==
    /\ r \in active[c]
    /\ active' = [active EXCEPT ![c] = @ \ {r}]
    /\ made' = [made EXCEPT ![c][r] = 0]
    /\ phase' = [phase EXCEPT ![c] = "aborted"]
    /\ \/ phase[c] = "running" /\ MarkJobFailed(job)
       \/ phase[c] = "aborted" /\ faults < MaxFaults /\ faults' = faults + 1 /\ UNCHANGED job
    /\ UNCHANGED <<rowVars, preview, loop, kind, queue, base, landed>>

(* Reading the job at the start of the run throws, when the route has      *)
(* saved RUNNING, or reading the rows or saving the verdict at its end: no *)
(* task is left.                                                           *)
RunFault(c) ==
    /\ \/ phase[c] = "checked" /\ MarkJobFailed("RUNNING")
       \/ phase[c] = "running" /\ MarkJobFailed(job)
    /\ queue[c] = {}
    /\ active[c] = {}
    /\ phase' = [phase EXCEPT ![c] = "ended"]
    /\ UNCHANGED <<rowVars, preview, loop, kind, runVars, landed>>

(* An insert of the preview loop throws and the request is a 500: nothing  *)
(* of the row is there, or the row without all of its files, which says    *)
(* something else than the preview that set its status.                    *)
PreviewFault ==
    /\ faults < MaxFaults
    /\ faults' = faults + 1
    /\ loop = "running"
    /\ loop' = "over"
    /\ \/ UNCHANGED <<status, preview>>
       \/ \E r \in Rows, p \in Previews \ {"none"}, s \in {"DIFF_COMPUTED", "FAILED"} :
             /\ status[r] = "NONE"
             /\ status' = [status EXCEPT ![r] = s]
             /\ preview' = [preview EXCEPT ![r] = p]
    /\ UNCHANGED <<job, attempts, commitSha, callVars, runVars, landed>>

Fault == PreviewFault \/ \E c \in Calls : RunFault(c) \/ \E r \in Rows : TaskFault(c, r)

Preview == \E r \in Rows : PreviewRow(r)

Task(c, r) == StartTask(c, r) \/ Commit(c, r) \/ Succeed(c, r) \/ Skip(c, r) \/ Fail(c, r)

Run(c) == Refuse(c) \/ StartRun(c) \/ FinishRun(c) \/ \E r \in Rows : Task(c, r)

(* Any client of the API, at any time. *)
Next ==
    \/ Preview
    \/ \E c \in Calls : CheckExecute(c) \/ CheckRetry(c) \/ Run(c)
    \/ Fault

(* Awaited requests are answered or time out, so a request that was made   *)
(* gets through its route and its run; nobody has to make one.             *)
Fairness ==
    /\ WF_vars(Preview)
    /\ \A c \in Calls : WF_vars(Run(c))

Spec == Init /\ [][Next]_vars
FairSpec == Spec /\ Fairness
-----------------------------------------------------------------------------
TypeOK ==
    /\ job \in JobStatus
    /\ status \in [Rows -> RowStatus]
    /\ preview \in [Rows -> Previews]
    /\ attempts \in [Rows -> Nat]
    /\ commitSha \in [Rows -> Nat]
    /\ loop \in {"running", "over"}
    /\ phase \in [Calls -> {"idle", "checked", "running", "aborted", "ended"}]
    /\ kind \in [Calls -> {"execute", "retry"}]
    /\ queue \in [Calls -> SUBSET Rows]
    /\ active \in [Calls -> SUBSET Rows]
    /\ base \in [Calls -> [Rows -> Nat]]
    /\ made \in [Calls -> [Rows -> Nat]]
    /\ landed \in [Rows -> Nat]
    /\ faults \in Nat

Batch(c) == queue[c] \cup active[c]

Resting == \A c \in Calls : ~Live(c) => queue[c] = {} /\ active[c] = {}

InFlight(r) == \E c \in Calls : r \in Batch(c)

(* A SUCCESS row names a commit that is on GitHub, and so does a row whose *)
(* later attempt failed: however runs overlap, executeRepoRun reports only *)
(* what it has made.                                                       *)
ReportedCommitsExist ==
    \A r \in Rows : /\ commitSha[r] <= landed[r]
                    /\ status[r] = "SUCCESS" => commitSha[r] # 0

(* Without database errors, once no run is left the saved verdict is the   *)
(* one of the rows as they are: the last run to finish has read what every *)
(* other run saved (computeJobFinalStatus over a fresh read).              *)
VerdictMatchesRows ==
    (faults = 0 /\ loop = "over" /\ (\A c \in Calls : ~Live(c)) /\ job \in Terminal)
        => job = FinalStatus(status)

(* jobQueue.ts:25-28 says what a verdict means: COMPLETED that every row   *)
(* is SUCCESS or SKIPPED, FAILED that every row failed.                    *)
VerdictAsDocumented ==
    /\ job = "COMPLETED" => \A r \in Rows : status[r] \in Settled
    /\ job = "FAILED" => \A r \in Rows : status[r] = "FAILED"

(* No row is worked on by two runs at once: nothing in runJobExecution     *)
(* claims a row, so only the callers' discipline can make it so, the       *)
(* offers on the pages and a user who waits for the answer of a click.     *)
NoRowRunTwice == \A c, d \in Calls : c # d => Batch(c) \cap Batch(d) = {}

(* A row at rest has made at most one commit per counted attempt: the      *)
(* count does not lose an execution that reached GitHub.                   *)
AttemptsCoverCommits == \A r \in Rows : InFlight(r) \/ landed[r] <= attempts[r]

(* Rows already SUCCESS or SKIPPED are left untouched (routes/jobs.ts:9).  *)
SettledRowsLeftAlone ==
    [][\A r \in Rows : status[r] \in Settled =>
          <<status[r], attempts[r], commitSha[r]>>' = <<status[r], attempts[r], commitSha[r]>>]_vars

(* Every request that was let through ends with no row left to work on,    *)
(* whatever overlaps and whatever database errors happen: the limit of one *)
(* run holds up no other, and an aborted run still empties its queue.      *)
RunsEnd ==
    \A c \in Calls : phase[c] \in {"checked", "running"} ~>
        phase[c] \in {"aborted", "ended"} /\ Batch(c) = {}

(* A job does not stay RUNNING.  It does not hold: the one of a run whose  *)
(* verdict and whose markJobFailed both fail to be saved does              *)
(* (jobQueue.ts:53-55).                                                    *)
RunningEnds == job = "RUNNING" ~> job # "RUNNING"

(* A row that is SUCCESS gets no further commit (routes/jobs.ts:9: "Safely *)
(* re-callable: rows already SUCCESS/SKIPPED/FAILED are left untouched").  *)
(* It does not hold of two requests whose checks both pass.                *)
SuccessNotCommittedAgain ==
    [][\A r \in Rows : status[r] = "SUCCESS" => landed'[r] = landed[r]]_vars
=============================================================================
