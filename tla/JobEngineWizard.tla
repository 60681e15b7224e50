-------------------------- MODULE JobEngineWizard --------------------------
(***************************************************************************)
(* The job engine and the web client that drives it: ConfirmPage.tsx,      *)
(* ResultsPage.tsx and the History and Stepper links that lead to them.    *)
(***************************************************************************)
EXTENDS JobEngine

(* The web client in one tab, with fresh data.  ConfirmPage offers         *)
(* "Confirm & run" unless the job is RUNNING or terminal, ResultsPage      *)
(* offers "Retry failed" on a finished job with failures.                  *)
Idle == \A c \in Calls : phase[c] \in {"idle", "ended"}

OfferExecute == job \notin Terminal \cup {"RUNNING"}

OfferRetry ==
    /\ job \in {"PARTIAL_FAILURE", "FAILED"}
    /\ \E r \in Rows : status[r] = "FAILED"

Click(c) ==
    \/ OfferExecute /\ CheckExecute(c)
    \/ OfferRetry /\ CheckRetry(c)

(* The wizard's own path: Confirm is reached from a Preview page that only *)
(* exists once the preview request has answered.  No database errors.      *)
WizardNext ==
    \/ Preview
    \/ \E c \in Calls : (loop = "over" /\ Click(c)) \/ Run(c)

WizardSpec == Init /\ [][WizardNext]_vars

(* A pending mutation disables the button of the page that sent it, and is *)
(* forgotten when the page is left: "Back to preview" and Confirm again is *)
(* a live button over a job that is still READY.  So that one request at a *)
(* time is made is no guard of the client, but an assumption on its user,  *)
(* who stays on the page until the answer is there.                        *)
Waited == \A c \in Calls : phase[c] # "checked"

PatientNext ==
    \/ Preview
    \/ \E c \in Calls : (loop = "over" /\ Waited /\ Click(c)) \/ Run(c)

PatientSpec == Init /\ [][PatientNext]_vars
PatientFairSpec == PatientSpec /\ Fairness

(* History links to the Results page of any job, whose stepper links to    *)
(* Confirm: the same buttons, but while the preview may still be going.    *)
HistoryNext == Preview \/ \E c \in Calls : (Waited /\ Click(c)) \/ Run(c)

HistorySpec == Init /\ [][HistoryNext]_vars
-----------------------------------------------------------------------------
(* ConfirmPage must not invite a second run of a job that is running. *)
NotOfferedWhileRunning == OfferExecute => \A c \in Calls : ~Live(c)

(* RUNNING is saved exactly while a run is there to end it. *)
RunningIffLive == job = "RUNNING" <=> \E c \in Calls : Live(c)

(* A row that could still be updated can be: the client offers to execute  *)
(* it or to retry it whenever nothing is under way (architecture.md:22-24  *)
(* promises it even after a crash: "a crashed job falls back to retry      *)
(* failed only on next launch").                                           *)
Updatable(r) == preview[r] # "invalid" /\ status[r] \in {"DIFF_COMPUTED", "FAILED"}

NeverStranded ==
    (Idle /\ loop = "over" /\ \E r \in Rows : Updatable(r)) => OfferExecute \/ OfferRetry

-----------------------------------------------------------------------------
(* The inductive invariant of PatientSpec.  Nothing in the engine claims a *)
(* row or a job: what keeps two runs apart is that the pages look at       *)
(* jobs.status, that the status is RUNNING for as long as a run lives, and *)
(* that the user waits between a click and RUNNING.                        *)
Busy(c) == phase[c] \in {"checked", "running"}

(* One request at a time: by Waited until RUNNING is saved, and by the     *)
(* offers, which look at the job's status, from then on.                   *)
OneAtATime ==
    /\ \A c, d \in Calls : Busy(c) /\ Busy(d) => c = d
    /\ \A c \in Calls : phase[c] # "aborted"

(* What a request has found in its checks is still so after its await. *)
CheckedStillSo ==
    \A c \in Calls : phase[c] = "checked" =>
        \/ kind[c] = "execute" /\ job = "READY" /\ \E r \in Rows : status[r] = "DIFF_COMPUTED"
        \/ kind[c] = "retry" /\ OfferRetry

PreviewFirst ==
    /\ loop = "running" => job = "PREVIEWING" /\ \A c \in Calls : phase[c] = "idle"
    /\ loop = "over" => job # "PREVIEWING" /\ \A r \in Rows : status[r] # "NONE"

(* A run's snapshot stays true of the rows it has not settled. *)
SnapshotHolds ==
    \A c \in Calls, r \in Rows : r \in Batch(c) =>
        status[r] = Eligible(kind[c]) /\ base[c][r] = attempts[r]

(* Rows still to do are in the batch of a run that executes, or no run has *)
(* been started.                                                           *)
TodoKept ==
    \A r \in Rows : status[r] = "DIFF_COMPUTED" =>
        job \notin Terminal /\ \A c \in Calls : Live(c) => r \in Batch(c)

TasksApart == \A c \in Calls : queue[c] \cap active[c] = {}

MadeByTask ==
    \A c \in Calls, r \in Rows : made[c][r] # 0 => r \in active[c] /\ preview[r] = "write"

(* A commit is ahead of the row's attempts only while its task is active. *)
CommitsCounted ==
    /\ \A r \in Rows : (\A c \in Calls : made[c][r] = 0) => landed[r] <= attempts[r]
    /\ \A c \in Calls, r \in Rows : made[c][r] # 0 => landed[r] <= attempts[r] + 1

VerdictSaved == job \in Terminal => job = FinalStatus(status)

WizardInv ==
    /\ TypeOK /\ Resting /\ RunningIffLive /\ OneAtATime /\ CheckedStillSo /\ PreviewFirst
    /\ SnapshotHolds /\ TodoKept /\ TasksApart /\ MadeByTask /\ CommitsCounted /\ VerdictSaved
=============================================================================
