-------------------------- MODULE JobEngineProofs --------------------------
(***************************************************************************)
(* What holds of the job engine for any number of rows, requests and       *)
(* tasks: whoever calls it; and when the wizard is its only client and its *)
(* user waits for each answer (PatientSpec), where runs do not overlap: as *)
(* an implementation of BulkUpdate, over the database file with crashes,   *)
(* and watched by any number of pages.                                     *)
(***************************************************************************)
EXTENDS JobEngineCrash, JobEngineRefinement, JobProgress, WellFoundedInduction, TLAPS

(* FinalStatus is one of the three terminal statuses. *)
LEMMA FinalStatusTerminal == ASSUME NEW st PROVE FinalStatus(st) \in Terminal
  BY DEF FinalStatus, Terminal

LEMMA TypeStep == ASSUME TypeOK, [Next]_vars PROVE TypeOK'
<1> USE DEF TypeOK, rowVars, callVars, runVars
<1>1. ASSUME NEW r \in Rows, PreviewRow(r) PROVE TypeOK'
  BY <1>1 DEF PreviewRow, RowStatus, Previews, JobStatus
<1>3. ASSUME NEW c \in Calls, CheckExecute(c) \/ CheckRetry(c) PROVE TypeOK'
  BY <1>3 DEF CheckExecute, CheckRetry
<1>4. ASSUME NEW c \in Calls, Refuse(c) PROVE TypeOK'
  BY <1>4 DEF Refuse
<1>5. ASSUME NEW c \in Calls, StartRun(c) PROVE TypeOK'
  BY <1>5 DEF StartRun, JobStatus
<1>6. ASSUME NEW c \in Calls, NEW r \in Rows, StartTask(c, r) PROVE TypeOK'
  BY <1>6 DEF StartTask
<1>7. ASSUME NEW c \in Calls, NEW r \in Rows, Commit(c, r) PROVE TypeOK'
  BY <1>7 DEF Commit
<1>8. ASSUME NEW c \in Calls, NEW r \in Rows, Succeed(c, r) PROVE TypeOK'
  BY <1>8 DEF Succeed, LeaveTask, RowStatus
<1>9. ASSUME NEW c \in Calls, NEW r \in Rows, Skip(c, r) PROVE TypeOK'
  BY <1>9 DEF Skip, LeaveTask, RowStatus
<1>10. ASSUME NEW c \in Calls, NEW r \in Rows, Fail(c, r) PROVE TypeOK'
  BY <1>10 DEF Fail, LeaveTask, RowStatus
<1>11. ASSUME NEW c \in Calls, FinishRun(c) PROVE TypeOK'
  BY <1>11, FinalStatusTerminal DEF FinishRun, JobStatus
<1>12. ASSUME NEW c \in Calls, NEW r \in Rows, TaskFault(c, r) PROVE TypeOK'
  BY <1>12 DEF TaskFault, MarkJobFailed, JobStatus, Terminal
<1>13. ASSUME NEW c \in Calls, RunFault(c) PROVE TypeOK'
  BY <1>13 DEF RunFault, MarkJobFailed, JobStatus, Terminal
<1>14. CASE PreviewFault
  <2>1. status' \in [Rows -> RowStatus] /\ preview' \in [Rows -> Previews]
    <3>1. CASE UNCHANGED <<status, preview>>
      BY <3>1
    <3>2. CASE \E r \in Rows, p \in Previews \ {"none"}, s \in {"DIFF_COMPUTED", "FAILED"} :
                 /\ status' = [status EXCEPT ![r] = s]
                 /\ preview' = [preview EXCEPT ![r] = p]
      <4>1. PICK r \in Rows, p \in Previews, s \in RowStatus :
                 /\ status' = [status EXCEPT ![r] = s]
                 /\ preview' = [preview EXCEPT ![r] = p]
        BY <3>2 DEF RowStatus
      <4>2. QED
        BY <4>1
    <3>3. QED
      BY <1>14, <3>1, <3>2 DEF PreviewFault
  <2>2. loop' \in {"running", "over"} /\ faults' \in Nat
    BY <1>14 DEF PreviewFault
  <2>3. UNCHANGED <<job, attempts, commitSha, phase, kind, queue, active, base, made, landed>>
    BY <1>14 DEF PreviewFault
  <2>4. QED
    BY <2>1, <2>2, <2>3
<1>15. CASE UNCHANGED vars
  BY <1>15 DEF vars
<1>16. QED
  BY <1>1, <1>3, <1>4, <1>5, <1>6, <1>7, <1>8, <1>9, <1>10, <1>11, <1>12,
     <1>13, <1>14, <1>15 DEF Next, Preview, Run, Task, Fault

(* Every variable keeps its type, for every client and every fault. *)
THEOREM TypeCorrect == Spec => []TypeOK
<1>1. Init => TypeOK
  BY DEF Init, TypeOK, JobStatus, RowStatus, Previews
<1>2. TypeOK /\ [Next]_vars => TypeOK'
  BY TypeStep
<1>3. QED
  BY <1>1, <1>2, PTL DEF Spec
-----------------------------------------------------------------------------
(* Only started runs have tasks (Resting), and a task's commit is among     *)
(* those that landed: what the next two theorems rest on.                  *)
AbortedByFault == \A c \in Calls : phase[c] = "aborted" => faults # 0

MadeLanded == \A c \in Calls, r \in Rows : made[c][r] <= landed[r]

AnyClientInv ==
    TypeOK /\ Resting /\ AbortedByFault /\ MadeLanded /\ ReportedCommitsExist /\ VerdictMatchesRows

LEMMA AnyClientInvInit == Init => AnyClientInv
  BY DEF Init, AnyClientInv, TypeOK, Resting, AbortedByFault, MadeLanded, ReportedCommitsExist,
         VerdictMatchesRows, Live, JobStatus, RowStatus, Previews, Terminal

LEMMA AnyClientInvStep ==
    ASSUME AnyClientInv, TypeOK', [Next]_vars
    PROVE  AnyClientInv'
<1> USE DEF rowVars, callVars, runVars
<1>0. TypeOK /\ Resting /\ AbortedByFault /\ MadeLanded /\ ReportedCommitsExist /\ VerdictMatchesRows
  BY DEF AnyClientInv
<1> DEFINE Goal == /\ Resting /\ AbortedByFault /\ MadeLanded
                   /\ ReportedCommitsExist /\ VerdictMatchesRows
<1> SUFFICES Goal'
  BY DEF AnyClientInv
<1>1. ASSUME NEW r \in Rows, PreviewRow(r) PROVE Goal'
  BY <1>0, <1>1 DEF PreviewRow, TypeOK, Resting, AbortedByFault, MadeLanded, ReportedCommitsExist,
     VerdictMatchesRows, Live, Terminal
<1>3. ASSUME NEW c \in Calls, CheckExecute(c) \/ CheckRetry(c) PROVE Goal'
  <2>1. /\ phase[c] = "idle" /\ phase' = [phase EXCEPT ![c] = "checked"]
        /\ UNCHANGED <<job, rowVars, loop, runVars, landed, faults>>
    BY <1>3 DEF CheckExecute, CheckRetry
  <2>2. QED
    BY <1>0, <2>1 DEF TypeOK, Resting, AbortedByFault, MadeLanded, ReportedCommitsExist,
       VerdictMatchesRows, Live
<1>4. ASSUME NEW c \in Calls, Refuse(c) PROVE Goal'
  BY <1>0, <1>4 DEF Refuse, TypeOK, Resting, AbortedByFault, MadeLanded, ReportedCommitsExist,
     VerdictMatchesRows, Live
<1>5. ASSUME NEW c \in Calls, StartRun(c) PROVE Goal'
  BY <1>0, <1>5 DEF StartRun, TypeOK, Resting, AbortedByFault, MadeLanded, ReportedCommitsExist,
     VerdictMatchesRows, Live, Terminal
<1>6. ASSUME NEW c \in Calls, NEW r \in Rows, StartTask(c, r) PROVE Goal'
  BY <1>0, <1>6 DEF StartTask, TypeOK, Resting, AbortedByFault, MadeLanded, ReportedCommitsExist,
     VerdictMatchesRows, Live
<1>7. ASSUME NEW c \in Calls, NEW r \in Rows, Commit(c, r) PROVE Goal'
  BY <1>0, <1>7 DEF Commit, TypeOK, Resting, AbortedByFault, MadeLanded, ReportedCommitsExist,
     VerdictMatchesRows, Live
<1>8. ASSUME NEW c \in Calls, NEW r \in Rows, Succeed(c, r) PROVE Goal'
  BY <1>0, <1>8 DEF Succeed, LeaveTask, TypeOK, Resting, AbortedByFault, MadeLanded,
     ReportedCommitsExist, VerdictMatchesRows, Live
<1>9. ASSUME NEW c \in Calls, NEW r \in Rows, Skip(c, r) PROVE Goal'
  BY <1>0, <1>9 DEF Skip, LeaveTask, TypeOK, Resting, AbortedByFault, MadeLanded,
     ReportedCommitsExist, VerdictMatchesRows, Live
<1>10. ASSUME NEW c \in Calls, NEW r \in Rows, Fail(c, r) PROVE Goal'
  BY <1>0, <1>10 DEF Fail, LeaveTask, TypeOK, Resting, AbortedByFault, MadeLanded,
     ReportedCommitsExist, VerdictMatchesRows, Live
<1>11. ASSUME NEW c \in Calls, FinishRun(c) PROVE Goal'
  BY <1>0, <1>11 DEF FinishRun, TypeOK, Resting, AbortedByFault, MadeLanded, ReportedCommitsExist,
     VerdictMatchesRows, Live, FinalStatus
<1>12. ASSUME NEW c \in Calls, NEW r \in Rows, TaskFault(c, r) PROVE Goal'
  BY <1>0, <1>12 DEF TaskFault, MarkJobFailed, TypeOK, Resting, AbortedByFault, MadeLanded, ReportedCommitsExist,
     VerdictMatchesRows, Live
<1>13. ASSUME NEW c \in Calls, RunFault(c) PROVE Goal'
  BY <1>0, <1>13 DEF RunFault, MarkJobFailed, TypeOK, Resting, AbortedByFault, MadeLanded, ReportedCommitsExist,
     VerdictMatchesRows, Live
<1>14. CASE PreviewFault
  BY <1>0, <1>14 DEF PreviewFault, TypeOK, Resting, AbortedByFault, MadeLanded, ReportedCommitsExist,
     VerdictMatchesRows, Live
<1>15. CASE UNCHANGED vars
  BY <1>0, <1>15 DEF vars, Resting, AbortedByFault, MadeLanded, ReportedCommitsExist,
     VerdictMatchesRows, Live, FinalStatus
<1> HIDE DEF Goal
<1>16. QED
  BY <1>1, <1>3, <1>4, <1>5, <1>6, <1>7, <1>8, <1>9, <1>10, <1>11, <1>12, <1>13, <1>14,
     <1>15 DEF Next, Preview, Run, Task, Fault

(* A commit a row reports is on GitHub, for every client and fault. *)
THEOREM ReportedCommits == Spec => []ReportedCommitsExist
<1>1. AnyClientInv /\ TypeOK' /\ [Next]_vars => AnyClientInv'
  BY AnyClientInvStep
<1>2. AnyClientInv => ReportedCommitsExist
  BY DEF AnyClientInv
<1>3. QED
  BY <1>1, <1>2, AnyClientInvInit, TypeCorrect, PTL DEF Spec

(* The saved verdict is the rows', however the runs overlapped. *)
THEOREM Verdict == Spec => []VerdictMatchesRows
<1>1. AnyClientInv /\ TypeOK' /\ [Next]_vars => AnyClientInv'
  BY AnyClientInvStep
<1>2. AnyClientInv => VerdictMatchesRows
  BY DEF AnyClientInv
<1>3. QED
  BY <1>1, <1>2, AnyClientInvInit, TypeCorrect, PTL DEF Spec
-----------------------------------------------------------------------------
(* Over the file, with crashes, a job may be RUNNING without a run, or     *)
(* PREVIEWING for good; what is left of the wizard's discipline is that a  *)
(* run has the job RUNNING, and so is the only one.                        *)
LiveIsRunning == (\E c \in Calls : Live(c)) => job = "RUNNING"

LoopFirst == loop = "running" => job = "PREVIEWING" /\ \A c \in Calls : phase[c] = "idle"

BatchEligible == \A c \in Calls, r \in Rows : r \in Batch(c) => status[r] = Eligible(kind[c])

(* What the file has settled is settled in the database. *)
DurableSettled == \A r \in Rows : disk.status[r] \in Settled => status[r] = disk.status[r]

EngineInv ==
    /\ TypeOK /\ Resting
    /\ LiveIsRunning /\ OneAtATime /\ LoopFirst
    /\ BatchEligible /\ TasksApart /\ VerdictSaved

CrashInv == EngineInv /\ CrashTypeOK /\ DiskVerdictMatchesRows /\ DurableSettled

LEMMA EngineStep ==
    ASSUME EngineInv, [PatientNext]_vars
    PROVE  EngineInv' /\ \A r \in Rows : status[r] \in Settled => status'[r] = status[r]
<1> USE DEF rowVars, callVars, runVars
<1>0. TypeOK /\ Resting /\ LiveIsRunning /\ OneAtATime /\ LoopFirst
  BY DEF EngineInv
<1>01. BatchEligible /\ TasksApart /\ VerdictSaved
  BY DEF EngineInv
<1>02. TypeOK'
  <2>1. [Next]_vars
    BY DEF PatientNext, Next, Click
  <2>2. QED
    BY <1>0, <2>1, TypeStep
<1> DEFINE Control == Resting /\ LiveIsRunning /\ OneAtATime /\ LoopFirst
           Work == BatchEligible /\ TasksApart /\ VerdictSaved
           Kept == \A r \in Rows : status[r] \in Settled => status'[r] = status[r]
<1> SUFFICES Control' /\ Work' /\ Kept
  BY <1>02 DEF EngineInv
<1>1. ASSUME NEW r \in Rows, PreviewRow(r) PROVE Control' /\ Work' /\ Kept
  <2> USE <1>0, <1>01, <1>1 DEF PreviewRow, TypeOK, Resting
  <2>1. \A c \in Calls : ~Live(c) /\ Batch(c) = {}
    BY DEF LoopFirst, Live, Batch
  <2>2. Control'
    BY DEF LiveIsRunning, OneAtATime, LoopFirst, Live, Busy
  <2>3. Work'
    BY <2>1 DEF BatchEligible, TasksApart, VerdictSaved, LoopFirst, Batch, Terminal
  <2>4. Kept
    BY DEF Settled
  <2>5. QED
    BY <2>2, <2>3, <2>4
<1>3. ASSUME NEW c \in Calls, loop = "over", Waited, OfferExecute \/ OfferRetry,
             CheckExecute(c) \/ CheckRetry(c)
      PROVE  Control' /\ Work' /\ Kept
  <2> USE <1>0, <1>01 DEF TypeOK, Resting
  <2>1. /\ phase[c] = "idle" /\ phase' = [phase EXCEPT ![c] = "checked"]
        /\ kind' \in {[kind EXCEPT ![c] = "execute"], [kind EXCEPT ![c] = "retry"]}
        /\ UNCHANGED <<job, status, loop, queue, active>>
    BY <1>3 DEF CheckExecute, CheckRetry
  <2>2. \A d \in Calls : ~Live(d)
    BY <1>3 DEF LiveIsRunning, OfferExecute, OfferRetry
  <2>3. Control'
    BY <1>3, <2>1, <2>2 DEF LiveIsRunning, OneAtATime, LoopFirst, Live, Busy, Waited
  <2>4. \A d \in Calls : Batch(d) = {}
    BY <2>2 DEF Batch
  <2>5. Work' /\ Kept
    BY <2>1, <2>4 DEF BatchEligible, TasksApart, VerdictSaved, Batch
  <2>6. QED
    BY <2>3, <2>5
<1>4. ASSUME NEW c \in Calls, Refuse(c) PROVE Control' /\ Work' /\ Kept
  <2> USE <1>0, <1>01, <1>4 DEF Refuse, TypeOK, Resting
  <2>1. Control'
    BY DEF LiveIsRunning, OneAtATime, LoopFirst, Live, Busy
  <2>2. Work' /\ Kept
    BY DEF BatchEligible, TasksApart, VerdictSaved, Batch
  <2>3. QED
    BY <2>1, <2>2
<1>5. ASSUME NEW c \in Calls, StartRun(c) PROVE Control' /\ Work' /\ Kept
  <2> USE <1>0, <1>01, <1>5 DEF StartRun, TypeOK, Resting
  <2>1. Control'
    BY DEF LiveIsRunning, OneAtATime, LoopFirst, Live, Busy
  <2>2. active[c] = {}
    BY DEF Live
  <2>3. Work' /\ Kept
    BY <2>2 DEF BatchEligible, TasksApart, VerdictSaved, Batch, Terminal
  <2>4. QED
    BY <2>1, <2>3
<1>6. ASSUME NEW c \in Calls, NEW r \in Rows, StartTask(c, r) PROVE Control' /\ Work' /\ Kept
  <2> USE <1>0, <1>01, <1>6 DEF StartTask, TypeOK, Resting
  <2>1. Control'
    BY DEF LiveIsRunning, OneAtATime, LoopFirst, Live, Busy
  <2>2. \A d \in Calls : Batch(d)' = Batch(d)
    BY DEF Batch
  <2>3. Work' /\ Kept
    BY <2>2 DEF BatchEligible, TasksApart, VerdictSaved
  <2>4. QED
    BY <2>1, <2>3
<1>7. ASSUME NEW c \in Calls, NEW r \in Rows, Commit(c, r) PROVE Control' /\ Work' /\ Kept
  BY <1>0, <1>01, <1>7 DEF Commit, Resting, LiveIsRunning, OneAtATime, LoopFirst, Live, Busy,
     BatchEligible, TasksApart, VerdictSaved, Batch
<1>8. ASSUME NEW c \in Calls, NEW r \in Rows, Succeed(c, r) \/ Skip(c, r) \/ Fail(c, r)
      PROVE  Control' /\ Work' /\ Kept
  <2> USE <1>0, <1>01 DEF TypeOK, Resting
  <2>1. PICK s \in RowStatus : status' = [status EXCEPT ![r] = s]
    BY <1>8 DEF Succeed, Skip, Fail, RowStatus
  <2>2. /\ r \in active[c] /\ active' = [active EXCEPT ![c] = @ \ {r}]
        /\ UNCHANGED <<job, loop, phase, kind, queue>>
    BY <1>8 DEF Succeed, Skip, Fail, LeaveTask
  <2>3. Live(c) /\ job = "RUNNING"
    BY <2>2 DEF LiveIsRunning
  <2>4. \A d \in Calls \ {c} : ~Live(d) /\ Batch(d) = {}
    BY <2>3 DEF OneAtATime, Live, Busy, Batch
  <2>5. Control'
    BY <2>1, <2>2 DEF LiveIsRunning, OneAtATime, LoopFirst, Live, Busy
  <2>6. BatchEligible' /\ TasksApart'
    BY <2>1, <2>2, <2>4 DEF BatchEligible, TasksApart, Batch
  <2>7. VerdictSaved'
    BY <2>2, <2>3 DEF VerdictSaved, Terminal
  <2>8. status[r] = Eligible(kind[c])
    BY <2>2 DEF BatchEligible, Batch
  <2>9. Kept
    BY <2>1, <2>8 DEF Eligible, Settled
  <2>10. QED
    BY <2>5, <2>6, <2>7, <2>9
<1>9. ASSUME NEW c \in Calls, FinishRun(c) PROVE Control' /\ Work' /\ Kept
  <2> USE <1>0, <1>01, <1>9 DEF FinishRun, TypeOK, Resting
  <2>1. \A d \in Calls : ~Live(d)'
    BY DEF OneAtATime, Live, Busy
  <2>2. Control'
    BY <2>1 DEF LiveIsRunning, OneAtATime, LoopFirst, Live, Busy
  <2>3. Work' /\ Kept
    BY DEF BatchEligible, TasksApart, VerdictSaved, Batch
  <2>4. QED
    BY <2>2, <2>3
<1>10. CASE UNCHANGED vars
  BY <1>0, <1>01, <1>10 DEF vars, Resting, LiveIsRunning, OneAtATime, LoopFirst, BatchEligible,
     TasksApart, VerdictSaved, Live, Busy, Batch, FinalStatus
<1> HIDE DEF Control, Work, Kept
<1>11. QED
  BY <1>1, <1>3, <1>4, <1>5, <1>6, <1>7, <1>8, <1>9, <1>10 DEF PatientNext, Preview, Click, Run, Task

LEMMA CrashInvInit == CrashInit => CrashInv
<1> SUFFICES ASSUME CrashInit PROVE CrashInv
  OBVIOUS
<1>1. TypeOK
  BY DEF CrashInit, Init, TypeOK, JobStatus, RowStatus, Previews
<1>2. CrashTypeOK /\ DurableSettled
  BY <1>1 DEF CrashInit, CrashTypeOK, Serialized, DurableSettled, TypeOK
<1>3. job = "PREVIEWING" /\ disk.job = "PREVIEWING"
  BY DEF CrashInit, Init, Serialized
<1>4. EngineInv
  BY <1>1, <1>3 DEF CrashInit, Init, EngineInv, Resting, LiveIsRunning, OneAtATime, LoopFirst,
     BatchEligible, TasksApart, VerdictSaved, Live, Busy, Batch, Terminal
<1>5. QED
  BY <1>2, <1>3, <1>4 DEF CrashInv, DiskVerdictMatchesRows, Terminal

LEMMA CrashInvStep == ASSUME CrashInv, [CrashNext]_crashVars PROVE CrashInv'
<1>0. EngineInv /\ CrashTypeOK /\ DiskVerdictMatchesRows /\ DurableSettled
  BY DEF CrashInv
<1>1. ASSUME [PatientNext]_vars, UNCHANGED <<disk, crashes>> PROVE CrashInv'
  <2>1. EngineInv' /\ \A r \in Rows : status[r] \in Settled => status'[r] = status[r]
    BY <1>0, <1>1, EngineStep
  <2>2. CrashTypeOK' /\ DiskVerdictMatchesRows' /\ DurableSettled'
    BY <1>0, <1>1, <2>1 DEF EngineInv, CrashTypeOK, DiskVerdictMatchesRows, DurableSettled, FinalStatus
  <2>3. QED
    BY <2>1, <2>2 DEF CrashInv
<1>2. CASE Flush
  <2>1. UNCHANGED vars /\ disk' = Serialized /\ UNCHANGED crashes
    BY <1>2 DEF Flush
  <2>2. EngineInv'
    BY <1>0, <2>1, EngineStep
  <2>3. CrashTypeOK'
    BY <1>0, <2>1, <2>2 DEF EngineInv, TypeOK, CrashTypeOK, Serialized
  <2>4. /\ disk'.job = job' /\ disk'.status = status'
    BY <2>1 DEF vars, rowVars, Serialized
  <2>5. DiskVerdictMatchesRows' /\ DurableSettled'
    BY <2>2, <2>4 DEF EngineInv, VerdictSaved, DiskVerdictMatchesRows, DurableSettled
  <2>6. QED
    BY <2>2, <2>3, <2>5 DEF CrashInv
<1>3. CASE Crash
  <2> USE <1>3 DEF Crash, Reboot
  <2>1. TypeOK'
    BY <1>0 DEF CrashTypeOK, EngineInv, TypeOK
  <2>2. CrashTypeOK'
    BY <1>0, <2>1 DEF CrashTypeOK
  <2>3. \A c \in Calls : phase'[c] \in {"idle", "ended"} /\ queue'[c] = {} /\ active'[c] = {}
    OBVIOUS
  <2>4. Resting' /\ LiveIsRunning' /\ OneAtATime' /\ LoopFirst' /\ BatchEligible' /\ TasksApart'
    BY <2>3 DEF Resting, LiveIsRunning, OneAtATime, LoopFirst, BatchEligible, TasksApart, Live, Busy, Batch
  <2>5. VerdictSaved' /\ DiskVerdictMatchesRows' /\ DurableSettled'
    BY <1>0 DEF VerdictSaved, DiskVerdictMatchesRows, DurableSettled, FinalStatus
  <2>6. QED
    BY <2>1, <2>2, <2>4, <2>5 DEF CrashInv, EngineInv
<1>4. QED
  BY <1>1, <1>2, <1>3 DEF CrashNext, crashVars

(* The inductive invariant of the engine over the file, however often the  *)
(* process dies.                                                           *)
THEOREM CrashInvariant == CrashSpec => []CrashInv
<1>1. CrashInv /\ [CrashNext]_crashVars => CrashInv'
  BY CrashInvStep
<1>2. QED
  BY <1>1, CrashInvInit, PTL DEF CrashSpec

(* A verdict in the file is the verdict of the rows in the file. *)
THEOREM DurableVerdict == CrashSpec => []DiskVerdictMatchesRows
<1>1. CrashInv => DiskVerdictMatchesRows
  BY DEF CrashInv
<1>2. QED
  BY <1>1, CrashInvariant, PTL

(* A row that the file calls SUCCESS or SKIPPED is never executed again,   *)
(* with any number of crashes.                                             *)
THEOREM DurableRows == CrashSpec => []DurableRowsNotRunAgain
<1>1. CrashInv => DurableRowsNotRunAgain
  BY DEF CrashInv, EngineInv, DurableSettled, DurableRowsNotRunAgain, BatchEligible, InFlight,
     Eligible, Settled
<1>2. QED
  BY <1>1, CrashInvariant, PTL
-----------------------------------------------------------------------------
(* The wizard as the only client, with a user who waits for each answer.   *)

(* Such a user is one of the engine's clients. *)
LEMMA WizardIsAClient == PatientSpec => Spec
<1>1. [PatientNext]_vars => [Next]_vars
  BY DEF PatientNext, Next, Click
<1>2. QED
  BY <1>1, PTL DEF PatientSpec, Spec

LEMMA WizardInvInit == Init => WizardInv
<1>1. Init => TypeOK
  BY DEF Init, TypeOK, JobStatus, RowStatus, Previews
<1>2. Init => WizardInv
  BY <1>1 DEF Init, WizardInv, Resting, RunningIffLive, OneAtATime, CheckedStillSo, PreviewFirst,
     SnapshotHolds, TodoKept, TasksApart, MadeByTask, CommitsCounted, VerdictSaved, Live, Busy,
     Batch, Terminal, TypeOK
<1>3. QED
  BY <1>2

LEMMA WizardInvStep ==
    ASSUME WizardInv, TypeOK', Resting', [PatientNext]_vars
    PROVE  WizardInv'
<1> USE DEF rowVars, callVars, runVars
<1>0. TypeOK /\ Resting
  BY DEF WizardInv
<1>01. RunningIffLive /\ OneAtATime /\ CheckedStillSo /\ PreviewFirst /\ SnapshotHolds
  BY DEF WizardInv
<1>02. TodoKept /\ TasksApart /\ MadeByTask /\ CommitsCounted /\ VerdictSaved
  BY DEF WizardInv
<1> DEFINE Control == RunningIffLive /\ OneAtATime /\ CheckedStillSo /\ PreviewFirst
           Work == SnapshotHolds /\ TodoKept /\ TasksApart /\ MadeByTask
           Outcome == CommitsCounted /\ VerdictSaved
           Goal == Control /\ Work /\ Outcome
<1> SUFFICES Goal'
  BY DEF WizardInv
<1>1. ASSUME NEW r \in Rows, PreviewRow(r) PROVE Goal'
  <2> USE <1>0, <1>01, <1>02, <1>1 DEF PreviewRow, TypeOK, Resting
  <2>1. Control'
    BY DEF RunningIffLive, OneAtATime, CheckedStillSo, PreviewFirst, Live, Busy
  <2>0. job = "PREVIEWING" /\ \A c \in Calls : phase[c] = "idle" /\ Batch(c) = {}
    BY DEF PreviewFirst, Live, Batch
  <2>2. Work'
    BY <2>0 DEF SnapshotHolds, TodoKept, TasksApart, MadeByTask, Live, Batch, Terminal
  <2>3. Outcome'
    BY DEF CommitsCounted, VerdictSaved, PreviewFirst, Terminal
  <2>4. QED
    BY <2>1, <2>2, <2>3
<1>3. ASSUME NEW c \in Calls, loop = "over", OfferExecute, Waited, CheckExecute(c) PROVE Goal'
  <2> USE <1>0, <1>01, <1>02, <1>3 DEF CheckExecute, TypeOK, Resting
  <2>1. Control'
    BY DEF RunningIffLive, OneAtATime, CheckedStillSo, PreviewFirst, Live, Busy, OfferExecute,
           Waited, JobStatus
  <2>2. Work'
    BY DEF SnapshotHolds, TodoKept, TasksApart, MadeByTask, Live, Batch
  <2>3. Outcome'
    BY DEF CommitsCounted, VerdictSaved
  <2>4. QED
    BY <2>1, <2>2, <2>3
<1>4. ASSUME NEW c \in Calls, loop = "over", OfferRetry, Waited, CheckRetry(c) PROVE Goal'
  <2> USE <1>0, <1>01, <1>02, <1>4 DEF CheckRetry, TypeOK, Resting
  <2>1. Control'
    BY DEF RunningIffLive, OneAtATime, CheckedStillSo, PreviewFirst, Live, Busy, OfferRetry,
           Waited, JobStatus
  <2>2. Work'
    BY DEF SnapshotHolds, TodoKept, TasksApart, MadeByTask, Live, Batch
  <2>3. Outcome'
    BY DEF CommitsCounted, VerdictSaved
  <2>4. QED
    BY <2>1, <2>2, <2>3
<1>5. ASSUME NEW c \in Calls, Refuse(c) PROVE Goal'
  <2> USE <1>0, <1>01, <1>02, <1>5 DEF Refuse, TypeOK, Resting
  <2>1. Control'
    BY DEF RunningIffLive, OneAtATime, CheckedStillSo, PreviewFirst, Live, Busy, OfferRetry
  <2>2. Work'
    BY DEF SnapshotHolds, TodoKept, TasksApart, MadeByTask, Live, Batch
  <2>3. Outcome'
    BY DEF CommitsCounted, VerdictSaved
  <2>4. QED
    BY <2>1, <2>2, <2>3
<1>6. ASSUME NEW c \in Calls, StartRun(c) PROVE Goal'
  <2> USE <1>0, <1>01, <1>02, <1>6 DEF StartRun, TypeOK, Resting
  <2>1. Control'
    BY DEF RunningIffLive, OneAtATime, CheckedStillSo, PreviewFirst, Live, Busy, OfferRetry
  <2>2. ASSUME NEW d \in Calls, d # c PROVE ~Live(d) /\ Batch(d) = {} /\ ~Live(d)'
    BY <2>2 DEF OneAtATime, Live, Busy, Batch
  <2>3. active[c] = {}
    BY DEF Live
  <2>4. SnapshotHolds'
    BY <2>2, <2>3 DEF SnapshotHolds, Batch
  <2>5. TodoKept'
    <3>1. kind[c] = "retry" => \A r \in Rows : status[r] # "DIFF_COMPUTED"
      BY DEF CheckedStillSo, OfferRetry, TodoKept, Terminal
    <3>2. kind[c] = "execute" \/ kind[c] = "retry"
      OBVIOUS
    <3>3. QED
      BY <2>2, <3>1, <3>2 DEF TodoKept, Live, Batch, Terminal, Eligible
  <2>6. TasksApart' /\ MadeByTask'
    BY <2>3 DEF TasksApart, MadeByTask
  <2>7. Work'
    BY <2>4, <2>5, <2>6
  <2>8. Outcome'
    BY DEF CommitsCounted, VerdictSaved, Terminal
  <2>9. QED
    BY <2>1, <2>7, <2>8
<1>7. ASSUME NEW c \in Calls, NEW r \in Rows, StartTask(c, r) PROVE Goal'
  <2> USE <1>0, <1>01, <1>02, <1>7 DEF StartTask, TypeOK, Resting
  <2>1. Control'
    BY DEF RunningIffLive, OneAtATime, CheckedStillSo, PreviewFirst, Live, Busy, OfferRetry
  <2>2. Work'
    BY DEF SnapshotHolds, TodoKept, TasksApart, MadeByTask, Live, Batch
  <2>3. Outcome'
    BY DEF CommitsCounted, VerdictSaved
  <2>4. QED
    BY <2>1, <2>2, <2>3
<1>8. ASSUME NEW c \in Calls, NEW r \in Rows, Commit(c, r) PROVE Goal'
  <2> USE <1>0, <1>01, <1>02, <1>8 DEF Commit, TypeOK, Resting
  <2>1. Control'
    BY DEF RunningIffLive, OneAtATime, CheckedStillSo, PreviewFirst, Live, Busy, OfferRetry
  <2>2. Work'
    BY DEF SnapshotHolds, TodoKept, TasksApart, MadeByTask, Live, Batch
  <2>0. ASSUME NEW d \in Calls, d # c PROVE made[d][r] = 0
    <3>1. Busy(c)
      BY DEF OneAtATime, Live, Busy
    <3>2. ~Live(d)
      BY <2>0, <3>1 DEF OneAtATime, Live, Busy
    <3>3. r \notin active[d]
      BY <3>2
    <3>4. QED
      BY <3>3 DEF MadeByTask
  <2>5. landed[r] <= attempts[r]
    BY <2>0 DEF CommitsCounted
  <2>6. CommitsCounted'
    BY <2>0, <2>5 DEF CommitsCounted
  <2>3. Outcome'
    BY <2>6 DEF VerdictSaved
  <2>4. QED
    BY <2>1, <2>2, <2>3
<1>9. ASSUME NEW c \in Calls, NEW r \in Rows, Succeed(c, r) PROVE Goal'
  <2> USE <1>0, <1>01, <1>02, <1>9 DEF Succeed, LeaveTask, TypeOK, Resting
  <2>1. Control'
    BY DEF RunningIffLive, OneAtATime, CheckedStillSo, PreviewFirst, Live, Busy, OfferRetry
  <2>2. Work'
    BY DEF SnapshotHolds, TodoKept, TasksApart, MadeByTask, OneAtATime, Live, Busy, Batch
  <2>3. Outcome'
    BY DEF CommitsCounted, VerdictSaved, SnapshotHolds, Batch, RunningIffLive, Terminal
  <2>4. QED
    BY <2>1, <2>2, <2>3
<1>10. ASSUME NEW c \in Calls, NEW r \in Rows, Skip(c, r) PROVE Goal'
  <2> USE <1>0, <1>01, <1>02, <1>10 DEF Skip, LeaveTask, TypeOK, Resting
  <2>1. Control'
    BY DEF RunningIffLive, OneAtATime, CheckedStillSo, PreviewFirst, Live, Busy, OfferRetry
  <2>2. Work'
    BY DEF SnapshotHolds, TodoKept, TasksApart, MadeByTask, OneAtATime, Live, Busy, Batch
  <2>3. Outcome'
    BY DEF CommitsCounted, VerdictSaved, MadeByTask, RunningIffLive, Terminal
  <2>4. QED
    BY <2>1, <2>2, <2>3
<1>11. ASSUME NEW c \in Calls, NEW r \in Rows, Fail(c, r) PROVE Goal'
  <2> USE <1>0, <1>01, <1>02, <1>11 DEF Fail, LeaveTask, TypeOK, Resting
  <2>1. Control'
    BY DEF RunningIffLive, OneAtATime, CheckedStillSo, PreviewFirst, Live, Busy, OfferRetry
  <2>2. Work'
    BY DEF SnapshotHolds, TodoKept, TasksApart, MadeByTask, OneAtATime, Live, Busy, Batch
  <2>3. Outcome'
    BY DEF CommitsCounted, VerdictSaved, SnapshotHolds, Batch, RunningIffLive, Terminal
  <2>4. QED
    BY <2>1, <2>2, <2>3
<1>12. ASSUME NEW c \in Calls, FinishRun(c) PROVE Goal'
  <2> USE <1>0, <1>01, <1>02, <1>12 DEF FinishRun, TypeOK, Resting
  <2>0. ASSUME NEW d \in Calls PROVE ~Live(d)' /\ ~Busy(d)'
    BY <2>0 DEF OneAtATime, Live, Busy
  <2>5. job' \in Terminal
    BY FinalStatusTerminal
  <2>6. PreviewFirst'
    BY <2>5 DEF PreviewFirst, Terminal
  <2>1. Control'
    BY <2>0, <2>5, <2>6 DEF RunningIffLive, OneAtATime, CheckedStillSo, Live, Busy, Terminal
  <2>2. Work'
    BY DEF SnapshotHolds, TodoKept, TasksApart, MadeByTask, OneAtATime, Live, Busy, Batch
  <2>3. Outcome'
    BY DEF CommitsCounted, VerdictSaved
  <2>4. QED
    BY <2>1, <2>2, <2>3
<1>13. CASE UNCHANGED vars
  BY <1>01, <1>02, <1>13 DEF vars, RunningIffLive, OneAtATime, CheckedStillSo, PreviewFirst,
     SnapshotHolds, TodoKept, TasksApart, MadeByTask, CommitsCounted, VerdictSaved, Live, Busy,
     Batch, OfferRetry
<1> HIDE DEF Goal
<1>14. QED
  BY <1>1, <1>3, <1>4, <1>5, <1>6, <1>7, <1>8, <1>9, <1>10, <1>11, <1>12, <1>13
     DEF PatientNext, Preview, Click, Run, Task

(* The inductive invariant holds as long as the user waits for answers. *)
THEOREM WizardInvariant == PatientSpec => []WizardInv
<1>1. WizardInv /\ TypeOK' /\ Resting' /\ [PatientNext]_vars => WizardInv'
  BY WizardInvStep
<1>2. AnyClientInv /\ TypeOK' /\ [Next]_vars => AnyClientInv'
  BY AnyClientInvStep
<1>3. AnyClientInv => Resting
  BY DEF AnyClientInv
<1>4. PatientSpec => []TypeOK
  BY WizardIsAClient, TypeCorrect, PTL
<1>5. Spec => []Resting
  BY <1>2, <1>3, AnyClientInvInit, TypeCorrect, PTL DEF Spec
<1>6. QED
  BY <1>1, <1>4, <1>5, WizardIsAClient, WizardInvInit, PTL DEF PatientSpec

(* No row is ever in two runs, as long as the user waits for each answer:  *)
(* the offers on the pages are enough for the rest of a run.               *)
THEOREM RunsApart == PatientSpec => []NoRowRunTwice
<1>1. WizardInv => NoRowRunTwice
  BY DEF WizardInv, NoRowRunTwice, Resting, OneAtATime, Live, Busy, Batch
<1>2. QED
  BY <1>1, WizardInvariant, PTL

(* attempt_count misses no commit of a row at rest. *)
THEOREM CountsKept == PatientSpec => []AttemptsCoverCommits
<1>1. WizardInv => AttemptsCoverCommits
  BY DEF WizardInv, AttemptsCoverCommits, MadeByTask, CommitsCounted, InFlight, Batch
<1>2. QED
  BY <1>1, WizardInvariant, PTL

(* A verdict means what the comment over computeJobFinalStatus says. *)
THEOREM VerdictMeaning == PatientSpec => []VerdictAsDocumented
<1>1. WizardInv => VerdictAsDocumented
  BY DEF WizardInv, VerdictAsDocumented, VerdictSaved, TodoKept, PreviewFirst, FinalStatus, Terminal,
     Settled, TypeOK, RowStatus
<1>2. QED
  BY <1>1, WizardInvariant, PTL

(* As long as the process lives, no row that could be updated is left      *)
(* without a button to do it.                                              *)
THEOREM Offered == PatientSpec => []NeverStranded
<1>1. ASSUME WizardInv, Idle, loop = "over", NEW r \in Rows, Updatable(r)
      PROVE  OfferExecute \/ OfferRetry
  <2>1. job # "RUNNING"
    BY <1>1 DEF WizardInv, RunningIffLive, Idle, Live
  <2>2. job \in Terminal => status[r] = "FAILED" /\ job # "COMPLETED"
    BY <1>1 DEF WizardInv, TodoKept, Updatable, VerdictSaved, FinalStatus
  <2>3. QED
    BY <1>1, <2>1, <2>2 DEF OfferExecute, OfferRetry, Terminal
<1>2. WizardInv => NeverStranded
  BY <1>1 DEF NeverStranded
<1>3. QED
  BY <1>2, WizardInvariant, PTL

(* A row once SUCCESS or SKIPPED is left alone. *)
THEOREM SettledStay == PatientSpec => SettledRowsLeftAlone
<1>1. ASSUME WizardInv, [PatientNext]_vars, NEW r \in Rows, status[r] \in Settled
      PROVE  <<status[r], attempts[r], commitSha[r]>>' = <<status[r], attempts[r], commitSha[r]>>
  <2> USE <1>1 DEF rowVars
  <2>1. TypeOK /\ SnapshotHolds
    BY DEF WizardInv
  <2>2. ASSUME NEW s \in Rows, PreviewRow(s) PROVE s # r
    BY <2>2 DEF PreviewRow, Settled
  <2>3. ASSUME NEW c \in Calls, NEW s \in Rows, LeaveTask(c, s) PROVE s # r
    BY <2>1, <2>3 DEF LeaveTask, SnapshotHolds, Batch, Eligible, Settled
  <2>4. ASSUME NEW s \in Rows, s # r, status'[r] = status[r], attempts'[r] = attempts[r],
               commitSha'[r] = commitSha[r]
        PROVE  <<status[r], attempts[r], commitSha[r]>>' = <<status[r], attempts[r], commitSha[r]>>
    BY <2>4
  <2>5. ASSUME NEW s \in Rows, PreviewRow(s)
        PROVE  <<status[r], attempts[r], commitSha[r]>>' = <<status[r], attempts[r], commitSha[r]>>
    BY <2>1, <2>2, <2>5 DEF PreviewRow, TypeOK
  <2>6. ASSUME NEW c \in Calls, NEW s \in Rows, Succeed(c, s) \/ Skip(c, s) \/ Fail(c, s)
        PROVE  <<status[r], attempts[r], commitSha[r]>>' = <<status[r], attempts[r], commitSha[r]>>
    BY <2>1, <2>3, <2>6 DEF Succeed, Skip, Fail, TypeOK
  <2>7. CASE UNCHANGED rowVars
    BY <2>7
  <2>8. QED
    BY <2>5, <2>6, <2>7 DEF PatientNext, Preview, Click, Run, Task, CheckExecute,
       CheckRetry, Refuse, StartRun, StartTask, Commit, FinishRun, vars
<1>2. WizardInv /\ [PatientNext]_vars =>
        [\A r \in Rows : status[r] \in Settled =>
            <<status[r], attempts[r], commitSha[r]>>' = <<status[r], attempts[r], commitSha[r]>>]_vars
  BY <1>1
<1>3. QED
  BY <1>2, WizardInvariant, PTL DEF PatientSpec, SettledRowsLeftAlone
-----------------------------------------------------------------------------
(* The refinement of BulkUpdate.                                           *)

AllBatches == UNION {Batch(c) : c \in Calls}
Outcomes == [r \in Rows |-> OutcomeOf(status[r])]

(* While a run is live its batch is the only one. *)
LEMMA LiveBatchOnly ==
    ASSUME WizardInv, NEW c \in Calls, Live(c)
    PROVE  /\ AllBatches = Batch(c)
           /\ \A d \in Calls : d # c => Batch(d) = {} /\ ~Live(d)
<1>1. OneAtATime /\ Resting
  BY DEF WizardInv
<1>2. ASSUME NEW d \in Calls, d # c PROVE ~Live(d) /\ Batch(d) = {}
  BY <1>1, <1>2 DEF OneAtATime, Resting, Live, Busy, Batch
<1>3. QED
  BY <1>2 DEF AllBatches

LEMMA NoBatchAtRest ==
    ASSUME WizardInv, \A c \in Calls : ~Live(c)
    PROVE  AllBatches = {}
  BY DEF WizardInv, Resting, AllBatches, Batch

(* Steps the abstract job does not see. *)
LEMMA Unseen ==
    ASSUME UNCHANGED <<job, status>>, AllBatches' = AllBatches
    PROVE  UNCHANGED Abstract!vars
<1>1. Outcomes' = Outcomes
  BY DEF Outcomes
<1>2. StageOf(job)' = StageOf(job)
  OBVIOUS
<1>3. QED
  BY <1>1, <1>2 DEF Abstract!vars, AllBatches, Outcomes

LEMMA SettleSeen ==
    ASSUME WizardInv, WizardInv', NEW c \in Calls, NEW r \in Rows,
           Succeed(c, r) \/ Skip(c, r) \/ Fail(c, r)
    PROVE  Abstract!Settle(r)
<1>1. r \in active[c] /\ active' = [active EXCEPT ![c] = @ \ {r}] /\ UNCHANGED <<phase, queue, job>>
  BY DEF Succeed, Skip, Fail, LeaveTask, callVars
<1>2. PICK s \in Settled \cup {"FAILED"} : status' = [status EXCEPT ![r] = s]
  BY DEF Succeed, Skip, Fail, Settled
<1>3. TypeOK /\ TasksApart /\ Resting
  BY DEF WizardInv
<1>4. Live(c) /\ Live(c)'
  BY <1>1, <1>3 DEF Resting, Live
<1>5. AllBatches = Batch(c) /\ AllBatches' = Batch(c)'
  <2>1. AllBatches = Batch(c)
    BY <1>4, LiveBatchOnly
  <2>2. \A d \in Calls : d # c => Batch(d) = {}
    BY <1>4, LiveBatchOnly
  <2>3. \A d \in Calls : d # c => Batch(d)' = {}
    BY <2>2, <1>1, <1>3 DEF Batch, TypeOK
  <2>4. QED
    BY <2>1, <2>3 DEF AllBatches
<1>6. r \in AllBatches /\ AllBatches' = AllBatches \ {r}
  BY <1>1, <1>3, <1>5 DEF Batch, TasksApart, TypeOK
<1>7. OutcomeOf(s) \in {"ok", "failed"}
  BY <1>2 DEF OutcomeOf, Settled
<1>8. Outcomes' = [Outcomes EXCEPT ![r] = OutcomeOf(s)]
  BY <1>2, <1>3 DEF Outcomes, TypeOK
<1>9. StageOf(job)' = StageOf(job)
  BY <1>1
<1>10. QED
  BY <1>6, <1>7, <1>8, <1>9 DEF Abstract!Settle, AllBatches, Outcomes

LEMMA BeginSeen ==
    ASSUME WizardInv, WizardInv', NEW c \in Calls, StartRun(c)
    PROVE  Abstract!Begin
<1>1. TypeOK /\ CheckedStillSo /\ TodoKept /\ OneAtATime /\ Resting /\ RunningIffLive
  BY DEF WizardInv
<1>2. phase[c] = "checked" /\ Live(c)' /\ job' = "RUNNING" /\ status' = status /\ active' = active
  BY <1>1 DEF StartRun, Live, rowVars, TypeOK
<1>3. AllBatches' = {r \in Rows : status[r] = Eligible(kind[c])}
  <2>1. \A d \in Calls : d # c => ~Live(d) /\ Batch(d) = {}
    BY <1>1, <1>2 DEF OneAtATime, Resting, Live, Busy, Batch
  <2>2. active[c] = {}
    BY <1>1, <1>2 DEF Resting, Live
  <2>3. \A d \in Calls : d # c => Batch(d)' = {}
    BY <1>1, <1>2, <2>1 DEF StartRun, Batch, TypeOK
  <2>4. Batch(c)' = {r \in Rows : status[r] = Eligible(kind[c])}
    BY <1>1, <1>2, <2>2 DEF StartRun, Batch, TypeOK
  <2>5. QED
    BY <2>3, <2>4 DEF AllBatches
<1>4. Outcomes' = Outcomes /\ StageOf(job') = "running"
  BY <1>2 DEF Outcomes, StageOf
<1>5. CASE kind[c] = "execute"
  <2>1. StageOf(job) = "open"
    BY <1>1, <1>2, <1>5 DEF CheckedStillSo, StageOf
  <2>2. AllBatches' = {r \in Rows : Outcomes[r] = "todo"}
    BY <1>3, <1>5 DEF Outcomes, OutcomeOf, Eligible
  <2>3. AllBatches' # {}
    BY <1>1, <1>2, <1>3, <1>5 DEF CheckedStillSo, Eligible
  <2>4. QED
    BY <1>4, <2>1, <2>2, <2>3 DEF Abstract!Begin, Abstract!With, AllBatches, Outcomes
<1>6. CASE kind[c] = "retry"
  <2>1. StageOf(job) \in {"PARTIAL_FAILURE", "FAILED"}
    BY <1>1, <1>2, <1>6 DEF CheckedStillSo, OfferRetry, StageOf
  <2>2. AllBatches' = {r \in Rows : Outcomes[r] = "failed"}
    BY <1>3, <1>6 DEF Outcomes, OutcomeOf, Eligible
  <2>3. AllBatches' # {}
    BY <1>1, <1>2, <1>3, <1>6 DEF CheckedStillSo, OfferRetry, Eligible
  <2>4. QED
    BY <1>4, <2>1, <2>2, <2>3 DEF Abstract!Begin, Abstract!With, AllBatches, Outcomes
<1>7. QED
  BY <1>1, <1>5, <1>6 DEF TypeOK

LEMMA EndSeen ==
    ASSUME WizardInv, WizardInv', NEW c \in Calls, FinishRun(c)
    PROVE  Abstract!End
<1>1. TypeOK /\ TodoKept /\ PreviewFirst /\ RunningIffLive
  BY DEF WizardInv
<1>2. Live(c) /\ Batch(c) = {} /\ job' = FinalStatus(status) /\ status' = status
  BY DEF FinishRun, Live, Batch, rowVars
<1>3. job = "RUNNING" /\ StageOf(job) = "running"
  BY <1>1, <1>2 DEF RunningIffLive, StageOf
<1>4. AllBatches = {}
  BY <1>2, LiveBatchOnly
<1>5. AllBatches' = {}
  <2>1. queue' = queue /\ active' = active
    BY DEF FinishRun, runVars
  <2>2. QED
    BY <1>4, <2>1 DEF AllBatches, Batch
<1>6. ASSUME NEW r \in Rows PROVE status[r] \in Settled \cup {"FAILED"}
  <2>1. status[r] # "NONE"
    BY <1>1, <1>3 DEF PreviewFirst, TypeOK
  <2>2. status[r] # "DIFF_COMPUTED"
    BY <1>1, <1>2 DEF TodoKept
  <2>3. QED
    BY <1>1, <2>1, <2>2 DEF TypeOK, RowStatus, Settled
<1>7. \A r \in Rows : /\ Outcomes[r] = "ok" <=> status[r] # "FAILED"
                      /\ Outcomes[r] = "failed" <=> status[r] \notin Settled
                      /\ Outcomes[r] # "todo"
  BY <1>6 DEF Outcomes, OutcomeOf, Settled
<1>8. StageOf(FinalStatus(status)) =
        IF {r \in Rows : Outcomes[r] = "ok"} = Rows THEN "COMPLETED"
        ELSE IF {r \in Rows : Outcomes[r] = "failed"} = Rows THEN "FAILED"
        ELSE "PARTIAL_FAILURE"
  <2>1. {r \in Rows : status[r] # "NONE"} = Rows
    BY <1>6 DEF Settled
  <2>2. FinalStatus(status) =
          IF {r \in Rows : Outcomes[r] = "ok"} = Rows THEN "COMPLETED"
          ELSE IF {r \in Rows : Outcomes[r] = "failed"} = Rows THEN "FAILED"
          ELSE "PARTIAL_FAILURE"
    BY <1>7, <2>1 DEF FinalStatus
  <2>3. FinalStatus(status) \in Terminal
    BY FinalStatusTerminal
  <2>4. StageOf(FinalStatus(status)) = FinalStatus(status)
    BY <2>3 DEF StageOf, Terminal
  <2>5. QED
    BY <2>2, <2>4
<1>9. Outcomes' = Outcomes
  BY <1>2 DEF Outcomes
<1>10. {r \in Rows : Outcomes[r] = "todo"} = {}
  BY <1>7
<1>11. QED
  BY <1>2, <1>3, <1>4, <1>5, <1>8, <1>9, <1>10
     DEF Abstract!End, Abstract!Verdict, Abstract!With, AllBatches, Outcomes

LEMMA AbstractInit == Init => Abstract!Init
  BY DEF Init, Abstract!Init, StageOf, OutcomeOf, Batch

LEMMA AbstractStep ==
    ASSUME WizardInv, WizardInv', [PatientNext]_vars
    PROVE  [Abstract!Next]_(Abstract!vars)
<1>0. TypeOK /\ Resting /\ PreviewFirst
  BY DEF WizardInv
<1>1. ASSUME NEW r \in Rows, PreviewRow(r) PROVE Abstract!Prepare(r)
  <2>1. job = "PREVIEWING" /\ status[r] = "NONE" /\ UNCHANGED <<queue, active>>
    BY <1>0, <1>1 DEF PreviewRow, PreviewFirst, runVars
  <2>2. PICK s \in {"FAILED", "DIFF_COMPUTED"} : status' = [status EXCEPT ![r] = s]
    BY <1>1 DEF PreviewRow
  <2>3. Outcomes' = [Outcomes EXCEPT ![r] = OutcomeOf(s)] /\ Outcomes[r] = "none"
    BY <1>0, <2>1, <2>2 DEF Outcomes, OutcomeOf, TypeOK
  <2>4. OutcomeOf(s) \in {"todo", "failed"}
    BY <2>2 DEF OutcomeOf
  <2>5. AllBatches' = AllBatches
    BY <2>1 DEF AllBatches, Batch
  <2>6. {t \in Rows : Outcomes[t] = "none"} = {r} <=> \A t \in Rows \ {r} : status[t] # "NONE"
    BY <2>1 DEF Outcomes, OutcomeOf
  <2>7. job' = IF \A t \in Rows \ {r} : status[t] # "NONE" THEN "READY" ELSE "PREVIEWING"
    BY <1>1, <2>1 DEF PreviewRow
  <2>8. StageOf(job) = "preparing"
        /\ StageOf(job') = IF {t \in Rows : Outcomes[t] = "none"} = {r} THEN "open" ELSE "preparing"
    BY <2>1, <2>6, <2>7 DEF StageOf
  <2>9. QED
    BY <2>3, <2>4, <2>5, <2>8 DEF Abstract!Prepare, Abstract!With, AllBatches, Outcomes
<1>3. ASSUME NEW c \in Calls, Click(c) \/ Refuse(c) PROVE UNCHANGED Abstract!vars
  <2>1. UNCHANGED <<job, status, queue, active>>
    BY <1>3 DEF Click, CheckExecute, CheckRetry, Refuse, runVars, rowVars
  <2>2. AllBatches' = AllBatches
    BY <2>1 DEF AllBatches, Batch
  <2>3. QED
    BY <2>1, <2>2, Unseen
<1>4. ASSUME NEW c \in Calls, NEW r \in Rows, StartTask(c, r) \/ Commit(c, r)
      PROVE  UNCHANGED Abstract!vars
  <2>1. \A d \in Calls : Batch(d)' = Batch(d)
    BY <1>0, <1>4 DEF StartTask, Commit, Batch, TypeOK
  <2>2. UNCHANGED <<job, status>>
    BY <1>4 DEF StartTask, Commit, rowVars
  <2>3. AllBatches' = AllBatches
    BY <2>1 DEF AllBatches
  <2>4. QED
    BY <2>2, <2>3, Unseen
<1>5. ASSUME UNCHANGED vars PROVE UNCHANGED Abstract!vars
  <2>1. UNCHANGED <<job, status, queue, active>>
    BY <1>5 DEF vars, runVars, rowVars
  <2>2. AllBatches' = AllBatches
    BY <2>1 DEF AllBatches, Batch
  <2>3. QED
    BY <2>1, <2>2, Unseen
<1>6. QED
  BY <1>1, <1>3, <1>4, <1>5, SettleSeen, BeginSeen, EndSeen
     DEF PatientNext, Preview, Run, Task, Abstract!Next

(* Every behaviour of the engine under the wizard, with a user who waits,  *)
(* is one BulkUpdate promises.                                             *)
THEOREM Refinement == PatientSpec => ImplementsBulkUpdate
<1>1. WizardInv /\ WizardInv' /\ [PatientNext]_vars => [Abstract!Next]_(Abstract!vars)
  BY AbstractStep
<1>2. QED
  BY <1>1, AbstractInit, WizardInvariant, PTL DEF PatientSpec, ImplementsBulkUpdate, Abstract!Spec
-----------------------------------------------------------------------------
(* What a page shows of a run.                                             *)

(* A set of natural numbers that is not empty has a least member ...       *)
LEMMA LeastElement ==
    ASSUME NEW T, T \subseteq Nat, T # {}
    PROVE  \E x \in T : \A y \in T : x <= y
<1> DEFINE R == OpToRel(<, Nat)
<1>1. IsWellFoundedOn(R, Nat)
  BY NatLessThanWellFounded, Zenon
<1> HIDE DEF R
<1>2. \E x \in T : \A y \in T : ~(<<y, x>> \in R)
  BY <1>1, WFMin, Zenon
<1>3. ASSUME NEW x \in Nat, NEW y \in Nat, ~(<<y, x>> \in R) PROVE x <= y
  BY <1>3 DEF R, OpToRel
<1>4. QED
  BY <1>2, <1>3

(* ... and so a set with 0 and every successor of its members has all. *)
LEMMA SetInduction ==
    ASSUME NEW T, 0 \in T, \A n \in Nat : n \in T => n + 1 \in T
    PROVE  Nat \subseteq T
<1> SUFFICES ASSUME Nat \ T # {} PROVE FALSE
  OBVIOUS
<1>1. PICK n \in Nat \ T : \A m \in Nat \ T : n <= m
  BY LeastElement
<1>2. n # 0 /\ n - 1 \in Nat /\ (n - 1) + 1 = n
  OBVIOUS
<1>3. n - 1 \in T
  BY <1>1, <1>2
<1>4. QED
  BY <1>2, <1>3

(* h is what is seen by a page that shows v while it handles w. *)
IsSeen(h, v, w) ==
    h = [n \in 0 .. Len(w) |-> IF n = 0 THEN v ELSE Applied(h[n - 1], w[n])]

(* The equation of the recursive Seen has a solution, so Seen is one. *)
LEMMA SeenDefined ==
    ASSUME NEW v, NEW w \in Seq(Events)
    PROVE  IsSeen(Seen(v, w), v, w)
<1> DEFINE Upto(k, h) == /\ h = [n \in 0 .. k |-> h[n]]
                         /\ h[0] = v
                         /\ \A n \in 1 .. k : h[n] = Applied(h[n - 1], w[n])
           T == {k \in Nat : \E h : Upto(k, h)}
<1>1. 0 \in T
  <2>1. Upto(0, [n \in 0 .. 0 |-> v])
    OBVIOUS
  <2>2. QED
    BY <2>1
<1>2. ASSUME NEW k \in Nat, k \in T PROVE k + 1 \in T
  <2>1. PICK h : Upto(k, h)
    BY <1>2
  <2> DEFINE g == [n \in 0 .. (k + 1) |-> IF n = k + 1 THEN Applied(h[k], w[k + 1]) ELSE h[n]]
  <2>2. \A n \in 0 .. k : n \in 0 .. (k + 1) /\ n # k + 1
    OBVIOUS
  <2>3. \A n \in 0 .. k : g[n] = h[n]
    BY <2>2
  <2>4. k + 1 \in 0 .. (k + 1)
    OBVIOUS
  <2>5. g[k + 1] = Applied(h[k], w[k + 1])
    BY <2>4
  <2>6. g = [n \in 0 .. (k + 1) |-> g[n]]
    OBVIOUS
  <2> HIDE DEF g
  <2>7. g[0] = v
    BY <2>1, <2>3
  <2>8. ASSUME NEW n \in 1 .. (k + 1) PROVE g[n] = Applied(g[n - 1], w[n])
    <3>1. CASE n = k + 1
      <4>1. n - 1 = k /\ k \in 0 .. k
        BY <3>1
      <4>2. QED
        BY <2>3, <2>5, <3>1, <4>1
    <3>2. CASE n # k + 1
      <4>1. n \in 1 .. k /\ n \in 0 .. k /\ n - 1 \in 0 .. k
        BY <3>2
      <4>2. QED
        BY <2>1, <2>3, <4>1
    <3>3. QED
      BY <3>1, <3>2
  <2>9. k + 1 \in Nat /\ Upto(k + 1, g)
    BY <2>6, <2>7, <2>8
  <2> HIDE DEF Upto
  <2>10. QED
    BY <2>9
<1>3. Len(w) \in T
  <2> HIDE DEF T
  <2>1. Nat \subseteq T
    BY <1>1, <1>2, SetInduction
  <2>2. QED
    BY <2>1
<1>4. PICK h : Upto(Len(w), h)
  BY <1>3
<1>5. \A n \in 0 .. Len(w) : n # 0 => n \in 1 .. Len(w)
  OBVIOUS
<1>6. h = [n \in 0 .. Len(w) |-> IF n = 0 THEN v ELSE Applied(h[n - 1], w[n])]
  BY <1>4, <1>5, Zenon
<1>7. QED
  BY <1>6, Zenon DEF IsSeen, Seen

(* What Seen is at the snapshot and after each event. *)
LEMMA SeenAt ==
    ASSUME NEW v, NEW w \in Seq(Events)
    PROVE  /\ Seen(v, w)[0] = v
           /\ \A n \in 1 .. Len(w) : Seen(v, w)[n] = Applied(Seen(v, w)[n - 1], w[n])
<1> DEFINE h == Seen(v, w)
<1>1. h = [n \in 0 .. Len(w) |-> IF n = 0 THEN v ELSE Applied(h[n - 1], w[n])]
  BY SeenDefined DEF IsSeen
<1> HIDE DEF h
<1>2. 0 \in 0 .. Len(w) /\ \A n \in 1 .. Len(w) : n # 0 /\ n \in 0 .. Len(w)
  OBVIOUS
<1>3. h[0] = v /\ \A n \in 1 .. Len(w) : h[n] = Applied(h[n - 1], w[n])
  BY <1>1, <1>2, Zenon
<1>4. QED
  BY <1>3 DEF h

(* Nothing on the way: what is shown stays. *)
LEMMA SeenNothing ==
    ASSUME NEW v
    PROVE  Seen(v, <<>>)[0] = v
<1>1. <<>> \in Seq(Events)
  OBVIOUS
<1>2. QED
  BY <1>1, SeenAt

(* One more event is seen after all the others. *)
LEMMA SeenAppended ==
    ASSUME NEW v, NEW w \in Seq(Events), NEW e \in Events
    PROVE  /\ \A n \in 0 .. Len(w) : Seen(v, Append(w, e))[n] = Seen(v, w)[n]
           /\ Seen(v, Append(w, e))[Len(w) + 1] = Applied(Seen(v, w)[Len(w)], e)
<1> DEFINE x == Append(w, e)
           h == Seen(v, w)
           g == Seen(v, x)
<1>1. x \in Seq(Events) /\ Len(x) = Len(w) + 1 /\ x[Len(w) + 1] = e /\ \A n \in 1 .. Len(w) : x[n] = w[n]
  OBVIOUS
<1>2. h[0] = v /\ \A n \in 1 .. Len(w) : h[n] = Applied(h[n - 1], w[n])
  BY SeenAt
<1> HIDE DEF x
<1>3. g[0] = v /\ \A n \in 1 .. Len(x) : g[n] = Applied(g[n - 1], x[n])
  BY <1>1, SeenAt
<1> HIDE DEF h, g
<1> DEFINE T == {n \in Nat : n <= Len(w) => g[n] = h[n]}
<1>4. 0 \in T
  BY <1>2, <1>3
<1>5. ASSUME NEW n \in Nat, n \in T, n + 1 <= Len(w) PROVE g[n + 1] = h[n + 1]
  <2>1. n + 1 \in 1 .. Len(w) /\ n + 1 \in 1 .. Len(x) /\ (n + 1) - 1 = n /\ n <= Len(w)
    BY <1>1, <1>5
  <2>2. g[n] = h[n]
    BY <1>5, <2>1
  <2>3. h[n + 1] = Applied(h[n], w[n + 1])
    BY <1>2, <2>1
  <2>4. g[n + 1] = Applied(g[n], x[n + 1])
    BY <1>3, <2>1
  <2>5. QED
    BY <1>1, <2>1, <2>2, <2>3, <2>4
<1>6. \A n \in Nat : n \in T => n + 1 \in T
  BY <1>5
<1>7. Nat \subseteq T
  <2> HIDE DEF T
  <2>1. QED
    BY <1>4, <1>6, SetInduction
<1>8. \A n \in 0 .. Len(w) : g[n] = h[n]
  BY <1>7
<1>9. g[Len(w) + 1] = Applied(h[Len(w)], e)
  <2>1. Len(w) + 1 \in 1 .. Len(x) /\ (Len(w) + 1) - 1 = Len(w) /\ Len(w) \in 0 .. Len(w)
    BY <1>1
  <2>2. g[Len(w) + 1] = Applied(g[Len(w)], x[Len(w) + 1])
    BY <1>3, <2>1
  <2>3. QED
    BY <1>1, <1>8, <2>1, <2>2
<1>10. QED
  BY <1>8, <1>9 DEF x, g, h

(* Handling the first event leaves the same to be seen. *)
LEMMA SeenHandled ==
    ASSUME NEW v, NEW w \in Seq(Events), w # <<>>
    PROVE  \A n \in 0 .. Len(Tail(w)) :
              Seen(Applied(v, Head(w)), Tail(w))[n] = Seen(v, w)[n + 1]
<1> DEFINE t == Tail(w)
           u == Applied(v, Head(w))
           h == Seen(v, w)
           g == Seen(u, t)
<1>1. /\ t \in Seq(Events) /\ Len(t) \in Nat /\ Len(w) = Len(t) + 1 /\ Head(w) = w[1]
      /\ \A n \in 1 .. Len(t) : t[n] = w[n + 1]
  OBVIOUS
<1>2. h[0] = v /\ \A n \in 1 .. Len(w) : h[n] = Applied(h[n - 1], w[n])
  BY SeenAt
<1> HIDE DEF t
<1>3. g[0] = u /\ \A n \in 1 .. Len(t) : g[n] = Applied(g[n - 1], t[n])
  BY <1>1, SeenAt
<1> HIDE DEF h, g
<1> DEFINE T == {n \in Nat : n <= Len(t) => g[n] = h[n + 1]}
<1>4. 0 \in T
  <2>1. 1 \in 1 .. Len(w) /\ 1 - 1 = 0 /\ 0 + 1 = 1
    BY <1>1
  <2>2. h[1] = Applied(h[0], w[1])
    BY <1>2, <2>1
  <2>3. QED
    BY <1>1, <1>2, <1>3, <2>1, <2>2
<1>5. ASSUME NEW n \in Nat, n \in T, n + 1 <= Len(t) PROVE g[n + 1] = h[(n + 1) + 1]
  <2>1. n + 1 \in 1 .. Len(t) /\ (n + 1) + 1 \in 1 .. Len(w) /\ (n + 1) - 1 = n /\ ((n + 1) + 1) - 1 = n + 1 /\ n <= Len(t)
    BY <1>1, <1>5
  <2>2. g[n] = h[n + 1]
    BY <1>5, <2>1
  <2>3. h[(n + 1) + 1] = Applied(h[n + 1], w[(n + 1) + 1])
    BY <1>2, <2>1
  <2>4. g[n + 1] = Applied(g[n], t[n + 1])
    BY <1>3, <2>1
  <2>5. QED
    BY <1>1, <2>1, <2>2, <2>3, <2>4
<1>6. \A n \in Nat : n \in T => n + 1 \in T
  BY <1>5
<1>7. Nat \subseteq T
  <2> HIDE DEF T
  <2>1. QED
    BY <1>4, <1>6, SetInduction
<1>8. \A n \in 0 .. Len(t) : g[n] = h[n + 1]
  BY <1>1, <1>7
<1>9. QED
  BY <1>8 DEF t, g, h

-----------------------------------------------------------------------------
Fits(v) == v.job \in Terminal => v.job = FinalStatus(v.rows)

(* Whatever is still on the way, no state it takes the page through shows  *)
(* a verdict over rows it is not the verdict of.                           *)
AllFit ==
    \A p \in Pages : \A n \in 0 .. Len(wire[p]) :
        Seen(view[p], wire[p])[n] \in Views /\ Fits(Seen(view[p], wire[p])[n])

(* Nobody watches the preview, which publishes nothing. *)
QuietPreview == loop = "running" => \A p \in Pages : page[p] = "away"

PagesInv == ProgressTypeOK /\ AllFit /\ NothingMissed /\ QuietPreview

ProgressInv == WizardInv /\ PagesInv

(* Watching changes nothing: the engine's steps are PatientNext's. *)
LEMMA ProgressIsWizard == ASSUME [ProgressNext]_progressVars PROVE [PatientNext]_vars
<1> USE DEF progressVars
<1>1. CASE PreviewTold
  BY <1>1 DEF PreviewTold, PatientNext
<1>2. ASSUME NEW c \in Calls, loop = "over", Waited, Click(c) PROVE PatientNext
  BY <1>2 DEF PatientNext
<1>3. ASSUME NEW c \in Calls, RunTold(c) PROVE PatientNext
  BY <1>3 DEF RunTold, PatientNext, Run, Task
<1>4. CASE Browser
  BY <1>4, Zenon DEF Browser, Visit, Leave, Connect, Drop, Handle
<1>5. CASE UNCHANGED progressVars
  BY <1>5
<1>6. QED
  BY <1>1, <1>2, <1>3, <1>4, <1>5 DEF ProgressNext, Engine

(* All that is proved of the wizard's engine is true of the one watched. *)
THEOREM WatchedEngine == ProgressSpec => PatientSpec
<1>1. ProgressInit => Init
  BY DEF ProgressInit
<1>2. QED
  BY <1>1, ProgressIsWizard, PTL DEF ProgressSpec, PatientSpec

LEMMA PagesInvInit == ASSUME ProgressInit PROVE PagesInv
<1> USE DEF ProgressInit
<1>1. Blank \in Views /\ Fits(Blank)
  BY DEF Blank, Views, Fits, RowStatus, Terminal
<1>2. ProgressTypeOK
  <2>1. <<>> \in Seq(Events)
    OBVIOUS
  <2>2. QED
    BY <1>1, <2>1, ProgressAssumption DEF ProgressTypeOK
<1>3. AllFit
  <2> SUFFICES ASSUME NEW p \in Pages, NEW n \in 0 .. Len(wire[p])
               PROVE  Seen(view[p], wire[p])[n] \in Views /\ Fits(Seen(view[p], wire[p])[n])
    BY DEF AllFit
  <2>1. wire[p] = <<>> /\ view[p] = Blank
    OBVIOUS
  <2>2. n = 0
    BY <2>1
  <2>3. QED
    BY <1>1, <2>1, <2>2, SeenNothing
<1>4. NothingMissed /\ QuietPreview
  BY DEF NothingMissed, QuietPreview
<1>5. QED
  BY <1>2, <1>3, <1>4 DEF PagesInv

LEMMA NowFits == ASSUME WizardInv PROVE Now \in Views /\ Fits(Now)
  BY DEF WizardInv, TypeOK, VerdictSaved, Now, Views, Fits

(* An event that says what the step does keeps its listeners up to date. *)
LEMMA PublishTells ==
    ASSUME ProgressInv, WizardInv', NEW e \in Events, Publish(e), Applied(Now, e) = Now',
           UNCHANGED loop
    PROVE  PagesInv'
<1> USE DEF ProgressInv, PagesInv
<1>1. Now' \in Views /\ Fits(Now')
  BY DEF WizardInv, TypeOK, VerdictSaved, Now, Views, Fits
<1>2. wire \in [Pages -> Seq(Events)] /\ UNCHANGED <<page, view, drops>> /\ listening' \subseteq listening
  BY DEF Publish, ProgressTypeOK
<1>3. ASSUME NEW p \in Pages
      PROVE  /\ wire[p] \in Seq(Events) /\ wire'[p] \in Seq(Events)
             /\ p \in listening => wire'[p] = Append(wire[p], e) /\ Len(wire'[p]) = Len(wire[p]) + 1
             /\ p \notin listening => wire'[p] = wire[p]
  BY <1>2 DEF Publish
<1>4. ProgressTypeOK'
  BY <1>2, <1>3 DEF Publish, ProgressTypeOK
<1>5. ASSUME NEW p \in listening
      PROVE  /\ Seen(view[p], wire'[p])[Len(wire'[p])] = Now'
             /\ \A n \in 0 .. Len(wire[p]) : Seen(view[p], wire'[p])[n] = Seen(view[p], wire[p])[n]
  <2>1. p \in Pages
    BY DEF ProgressTypeOK
  <2>2. Seen(view[p], wire[p])[Len(wire[p])] = Now
    BY DEF NothingMissed
  <2> DEFINE v == view[p]
             w == wire[p]
             x == wire'[p]
  <2>3. w \in Seq(Events) /\ x = Append(w, e) /\ Len(x) = Len(w) + 1
    BY <1>3, <2>1
  <2> HIDE DEF v, w, x
  <2>4. /\ \A n \in 0 .. Len(w) : Seen(v, x)[n] = Seen(v, w)[n]
        /\ Seen(v, x)[Len(x)] = Applied(Seen(v, w)[Len(w)], e)
    BY <2>3, SeenAppended
  <2>5. QED
    BY <2>2, <2>4 DEF v, w, x
<1>6. AllFit'
  <2> SUFFICES ASSUME NEW p \in Pages, NEW n \in 0 .. Len(wire'[p])
               PROVE  Seen(view[p], wire'[p])[n] \in Views /\ Fits(Seen(view[p], wire'[p])[n])
    BY <1>2 DEF AllFit
  <2>1. CASE p \notin listening
    BY <1>3, <2>1 DEF AllFit
  <2>2. CASE p \in listening /\ n \in 0 .. Len(wire[p])
    BY <1>5, <2>2 DEF AllFit
  <2>3. CASE p \in listening /\ n = Len(wire'[p])
    BY <1>1, <1>5, <2>3
  <2>4. Len(wire[p]) \in Nat
    BY <1>3
  <2>5. QED
    BY <1>3, <2>1, <2>2, <2>3, <2>4
<1>7. NothingMissed'
  BY <1>2, <1>5 DEF NothingMissed
<1>8. QuietPreview'
  BY <1>2 DEF QuietPreview
<1>9. QED
  BY <1>4, <1>6, <1>7, <1>8

(* A step that publishes nothing changes nothing a listener is to know. *)
LEMMA UntoldKeeps ==
    ASSUME ProgressInv, UNCHANGED progress, Now' = Now \/ loop = "running",
           loop' = "running" => loop = "running"
    PROVE  PagesInv'
<1> USE DEF ProgressInv, PagesInv, progress
<1>1. ProgressTypeOK' /\ AllFit'
  BY DEF ProgressTypeOK, AllFit
<1>2. QuietPreview'
  BY DEF QuietPreview
<1>3. loop = "running" => listening = {}
  BY DEF QuietPreview, ProgressTypeOK
<1>4. NothingMissed'
  BY <1>3 DEF NothingMissed
<1>5. QED
  BY <1>1, <1>2, <1>4

LEMMA EngineTells ==
    ASSUME ProgressInv, WizardInv', Engine
    PROVE  PagesInv'
<1>1. TypeOK
  BY DEF ProgressInv, WizardInv
<1>2. CASE PreviewTold
  <2>1. loop = "running"
    BY <1>2 DEF PreviewTold, Preview, PreviewRow
  <2>2. QED
    BY <1>2, <2>1, UntoldKeeps DEF PreviewTold
<1>3. ASSUME NEW c \in Calls, Click(c), UNCHANGED progress PROVE PagesInv'
  <2>1. UNCHANGED <<job, status, loop>>
    BY <1>3 DEF Click, CheckExecute, CheckRetry, rowVars
  <2>2. QED
    BY <1>3, <2>1, UntoldKeeps DEF Now
<1>4. ASSUME NEW c \in Calls, NEW r \in Rows, StartTask(c, r) \/ Commit(c, r),
             UNCHANGED progress
      PROVE  PagesInv'
  <2>1. UNCHANGED <<job, status, loop>>
    BY <1>4 DEF StartTask, Commit, rowVars
  <2>2. QED
    BY <1>4, <2>1, UntoldKeeps DEF Now
<1>5. ASSUME NEW c \in Calls, Refuse(c), UNCHANGED progress PROVE PagesInv'
  <2>1. UNCHANGED <<job, status, loop>>
    BY <1>5 DEF Refuse, rowVars
  <2>2. QED
    BY <1>5, <2>1, UntoldKeeps DEF Now
<1>6. ASSUME NEW c \in Calls, StartRun(c) \/ FinishRun(c), Publish(JobUpdate(job')) PROVE PagesInv'
  <2>1. UNCHANGED <<status, loop>>
    BY <1>6 DEF StartRun, FinishRun, rowVars
  <2>2. job' \in JobStatus
    BY DEF WizardInv, TypeOK
  <2>3. JobUpdate(job') \in Events
    BY <2>2 DEF Events
  <2>4. Applied(Now, JobUpdate(job')) = Now'
    BY <2>1 DEF Applied, Now, JobUpdate
  <2>5. QED
    BY <1>6, <2>1, <2>3, <2>4, PublishTells
<1>7. ASSUME NEW c \in Calls, NEW r \in Rows, Succeed(c, r) \/ Skip(c, r) \/ Fail(c, r),
             Publish(RowUpdate(r, status'[r]))
      PROVE  PagesInv'
  <2>1. UNCHANGED <<job, loop>>
    BY <1>7 DEF Succeed, Skip, Fail, LeaveTask
  <2>2. PICK s : status' = [status EXCEPT ![r] = s]
    BY <1>7 DEF Succeed, Skip, Fail
  <2>3. status'[r] = s /\ status'[r] \in RowStatus
    BY <1>1, <2>2 DEF WizardInv, TypeOK
  <2>4. RowUpdate(r, status'[r]) \in Events
    BY <2>3 DEF Events
  <2>5. Applied(Now, RowUpdate(r, status'[r])) = Now'
    <3>1. Applied(Now, RowUpdate(r, s)) = [Now EXCEPT !.rows[r] = s]
      BY DEF Applied, RowUpdate
    <3>2. [Now EXCEPT !.rows[r] = s] = [job |-> job, rows |-> [status EXCEPT ![r] = s]]
      BY DEF Now
    <3>3. QED
      BY <2>1, <2>2, <2>3, <3>1, <3>2 DEF Now
  <2>6. QED
    BY <1>7, <2>1, <2>4, <2>5, PublishTells
<1>8. QED
  BY <1>2, <1>3, <1>4, <1>5, <1>6, <1>7 DEF ProgressInv, Engine, RunTold

LEMMA VisitFits == ASSUME ProgressInv, NEW q \in Pages, Visit(q) PROVE PagesInv'
<1> USE DEF Visit, ProgressInv, PagesInv
<1>1. Blank \in Views /\ Fits(Blank)
  BY DEF Blank, Views, Fits, RowStatus, Terminal
<1>2. ProgressTypeOK'
  BY <1>1 DEF ProgressTypeOK
<1>3. q \notin listening /\ wire[q] = <<>>
  BY DEF ProgressTypeOK
<1>4. \A p \in Pages : p # q => view'[p] = view[p]
  BY DEF ProgressTypeOK
<1>5. AllFit'
  <2> SUFFICES ASSUME NEW p \in Pages, NEW n \in 0 .. Len(wire[p])
               PROVE  Seen(view'[p], wire[p])[n] \in Views /\ Fits(Seen(view'[p], wire[p])[n])
    BY DEF AllFit
  <2>1. CASE p = q
    <3>1. wire[p] = <<>> /\ n = 0 /\ view'[p] = Blank
      BY <1>3, <2>1 DEF ProgressTypeOK
    <3>2. QED
      BY <1>1, <3>1, SeenNothing
  <2>2. CASE p # q
    BY <1>4, <2>2 DEF AllFit
  <2>3. QED
    BY <2>1, <2>2
<1>6. NothingMissed' /\ QuietPreview'
  <2>1. Now' = Now /\ UNCHANGED loop
    BY DEF vars, rowVars, Now
  <2>2. \A p \in listening : view'[p] = view[p]
    BY <1>3, <1>4 DEF ProgressTypeOK
  <2>3. QED
    BY <2>1, <2>2 DEF NothingMissed, QuietPreview
<1>7. QED
  BY <1>2, <1>5, <1>6

(* A connection that goes leaves the page with what it shows. *)
LEMMA HangupFits ==
    ASSUME ProgressInv, NEW q \in Pages, Hangup(q), UNCHANGED <<vars, view>>,
           NEW s \in {"away", "connecting", "lost"}, page' = [page EXCEPT ![q] = s],
           page[q] # "away", drops' \in 0 .. MaxDrops
    PROVE  PagesInv'
<1> USE DEF Hangup, ProgressInv, PagesInv
<1>0. <<>> \in Seq(Events)
  OBVIOUS
<1>1. ProgressTypeOK'
  BY <1>0 DEF ProgressTypeOK
<1>2. \A p \in Pages : p # q => wire'[p] = wire[p]
  BY DEF ProgressTypeOK
<1>3. wire'[q] = <<>>
  BY DEF ProgressTypeOK
<1>4. AllFit'
  <2> SUFFICES ASSUME NEW p \in Pages, NEW n \in 0 .. Len(wire'[p])
               PROVE  Seen(view[p], wire'[p])[n] \in Views /\ Fits(Seen(view[p], wire'[p])[n])
    BY DEF AllFit
  <2>1. CASE p = q
    <3>1. wire'[p] = <<>> /\ n = 0
      BY <1>3, <2>1
    <3>2. 0 \in 0 .. Len(wire[p])
      BY DEF ProgressTypeOK
    <3>3. Seen(view[p], wire[p])[0] = view[p]
      BY SeenAt DEF ProgressTypeOK
    <3>4. view[p] \in Views /\ Fits(view[p])
      BY <3>2, <3>3 DEF AllFit
    <3>5. QED
      BY <3>1, <3>4, SeenNothing
  <2>2. CASE p # q
    BY <1>2, <2>2 DEF AllFit
  <2>3. QED
    BY <2>1, <2>2
<1>5. NothingMissed' /\ QuietPreview'
  <2>1. Now' = Now /\ UNCHANGED loop
    BY DEF vars, rowVars, Now
  <2>2. \A p \in listening' : p \in listening /\ wire'[p] = wire[p]
    BY <1>2 DEF ProgressTypeOK
  <2>3. QuietPreview'
    BY <2>1 DEF QuietPreview
  <2>4. QED
    BY <2>1, <2>2, <2>3 DEF NothingMissed
<1>6. QED
  BY <1>1, <1>4, <1>5

(* The snapshot is what a new listener has to know. *)
LEMMA ConnectFits == ASSUME ProgressInv, NEW q \in Pages, Connect(q) PROVE PagesInv'
<1> USE DEF Connect, ProgressInv, PagesInv
<1>1. Now \in Views /\ Fits(Now)
  BY NowFits
<1>2. Snapshot \in Events /\ Applied(view[q], Snapshot) = Now
  BY <1>1 DEF Snapshot, Events, Applied
<1>3. <<Snapshot>> \in Seq(Events) /\ Len(<<Snapshot>>) = 1 /\ <<Snapshot>>[1] = Snapshot
  BY <1>2
<1>4. ProgressTypeOK'
  BY <1>3 DEF ProgressTypeOK
<1>5. wire'[q] = <<Snapshot>> /\ \A p \in Pages : p # q => wire'[p] = wire[p]
  BY DEF ProgressTypeOK
<1>6. Seen(view[q], wire'[q])[0] = view[q] /\ Seen(view[q], wire'[q])[1] = Now
  <2>1. /\ Seen(view[q], <<Snapshot>>)[0] = view[q]
        /\ \A n \in 1 .. 1 : Seen(view[q], <<Snapshot>>)[n] =
                               Applied(Seen(view[q], <<Snapshot>>)[n - 1], <<Snapshot>>[n])
    BY <1>3, SeenAt
  <2>2. Seen(view[q], <<Snapshot>>)[1] = Applied(Seen(view[q], <<Snapshot>>)[0], Snapshot)
    BY <1>3, <2>1
  <2>3. QED
    BY <1>2, <1>5, <2>1, <2>2
<1>7. view[q] \in Views /\ Fits(view[q])
  <2>1. 0 \in 0 .. Len(wire[q])
    BY DEF ProgressTypeOK
  <2>2. Seen(view[q], wire[q])[0] = view[q]
    BY SeenAt DEF ProgressTypeOK
  <2>3. QED
    BY <2>1, <2>2 DEF AllFit
<1>8. AllFit'
  <2> SUFFICES ASSUME NEW p \in Pages, NEW n \in 0 .. Len(wire'[p])
               PROVE  Seen(view[p], wire'[p])[n] \in Views /\ Fits(Seen(view[p], wire'[p])[n])
    BY DEF AllFit
  <2>1. CASE p = q
    <3>1. Len(wire'[p]) = 1
      BY <1>3, <1>5, <2>1
    <3>2. n \in 0 .. 1
      BY <3>1, Zenon
    <3>3. n = 0 \/ n = 1
      BY <3>2
    <3>4. QED
      BY <1>1, <1>6, <1>7, <2>1, <3>3
  <2>2. CASE p # q
    BY <1>5, <2>2 DEF AllFit
  <2>3. QED
    BY <2>1, <2>2
<1>9. Now' = Now /\ UNCHANGED loop
  BY DEF vars, rowVars, Now
<1>10. NothingMissed'
  <2> SUFFICES ASSUME NEW p \in listening' PROVE Seen(view[p], wire'[p])[Len(wire'[p])] = Now
    BY <1>9 DEF NothingMissed
  <2>1. CASE p = q
    BY <1>3, <1>5, <1>6, <2>1
  <2>2. CASE p # q
    BY <1>5, <2>2 DEF NothingMissed, ProgressTypeOK
  <2>3. QED
    BY <2>1, <2>2
<1>11. QuietPreview'
  BY <1>9 DEF QuietPreview
<1>12. QED
  BY <1>4, <1>8, <1>10, <1>11

(* Handling an event leaves the same to be seen. *)
LEMMA HandleFits == ASSUME ProgressInv, NEW q \in Pages, Handle(q) PROVE PagesInv'
<1> USE DEF ProgressInv, PagesInv
<1> DEFINE w == wire[q]
           v == view[q]
<1>1. page[q] = "open" /\ w \in Seq(Events) /\ w # <<>> /\ view' = [view EXCEPT ![q] = Applied(v, Head(w))]
  BY DEF Handle, ProgressTypeOK
<1>2. Len(Tail(w)) \in Nat /\ Len(w) = Len(Tail(w)) + 1 /\ Tail(w) \in Seq(Events)
  BY <1>1
<1>3. view'[q] = Applied(v, Head(w)) /\ \A p \in Pages : p # q => view'[p] = view[p]
  BY <1>1 DEF ProgressTypeOK
<1>4. UNCHANGED <<vars, drops>>
  BY DEF Handle
<1>5. Now' = Now /\ UNCHANGED loop
  BY <1>4 DEF vars, rowVars, Now
<1>6. \A p \in Pages : p # q => wire'[p] = wire[p] /\ (p \in listening' => p \in listening)
  BY DEF Handle, Hangup, ProgressTypeOK
<1>7. \/ wire'[q] = Tail(w) /\ UNCHANGED <<page, listening>>
      \/ wire'[q] = <<>> /\ page' = [page EXCEPT ![q] = "closed"] /\ listening' = listening \ {q}
  BY DEF Handle, Hangup, ProgressTypeOK
<1>8. \A n \in 0 .. Len(Tail(w)) : Seen(view'[q], Tail(w))[n] = Seen(v, w)[n + 1]
  <2> HIDE DEF v, w
  <2>1. QED
    BY <1>1, <1>3, SeenHandled
<1>9. \A n \in 0 .. Len(Tail(w)) :
         Seen(view'[q], Tail(w))[n] \in Views /\ Fits(Seen(view'[q], Tail(w))[n])
  <2>1. \A n \in 0 .. Len(Tail(w)) : n + 1 \in 0 .. Len(w)
    BY <1>2
  <2>2. QED
    BY <1>8, <2>1 DEF AllFit
<1>10. view'[q] \in Views /\ Fits(view'[q])
  <2> DEFINE t == Tail(w)
  <2>0. t \in Seq(Events)
    BY <1>2
  <2>1. 0 \in 0 .. Len(t) /\ Seen(view'[q], t)[0] = view'[q]
    <3> HIDE DEF t
    <3>1. QED
      BY <2>0, SeenAt
  <2>2. QED
    BY <1>9, <2>1
<1>11. ProgressTypeOK'
  <2>0. <<>> \in Seq(Events)
    OBVIOUS
  <2>1. wire' \in [Pages -> Seq(Events)]
    BY <1>2, <2>0 DEF Handle, Hangup, ProgressTypeOK
  <2>2. view' \in [Pages -> Views]
    BY <1>1, <1>10 DEF ProgressTypeOK
  <2>3. page' \in [Pages -> {"away", "connecting", "open", "closed", "lost"}] /\ listening' \subseteq Pages
    BY <1>7 DEF ProgressTypeOK
  <2>4. ASSUME NEW p \in Pages, p \in listening' \/ wire'[p] # <<>> PROVE page'[p] = "open"
    BY <1>1, <1>6, <1>7, <2>4 DEF ProgressTypeOK
  <2>5. QED
    BY <1>4, <2>1, <2>2, <2>3, <2>4 DEF ProgressTypeOK
<1>12. AllFit'
  <2> SUFFICES ASSUME NEW p \in Pages, NEW n \in 0 .. Len(wire'[p])
               PROVE  Seen(view'[p], wire'[p])[n] \in Views /\ Fits(Seen(view'[p], wire'[p])[n])
    BY DEF AllFit
  <2>1. CASE p # q
    BY <1>3, <1>6, <2>1 DEF AllFit
  <2>2. CASE p = q /\ wire'[q] = Tail(w)
    BY <1>9, <2>2
  <2>3. CASE p = q /\ wire'[q] = <<>>
    <3>1. n = 0
      BY <2>3
    <3>2. QED
      BY <1>10, <2>3, <3>1, SeenNothing
  <2>4. QED
    BY <1>7, <2>1, <2>2, <2>3
<1>13. NothingMissed'
  <2> SUFFICES ASSUME NEW p \in listening' PROVE Seen(view'[p], wire'[p])[Len(wire'[p])] = Now
    BY <1>5 DEF NothingMissed
  <2>1. p \in Pages
    BY <1>11 DEF ProgressTypeOK
  <2>2. CASE p # q
    BY <1>3, <1>6, <2>1, <2>2 DEF NothingMissed
  <2>3. CASE p = q
    <3>1. wire'[q] = Tail(w) /\ q \in listening
      BY <1>7, <2>3
    <3>2. Seen(v, w)[Len(w)] = Now
      BY <3>1 DEF NothingMissed
    <3>3. Len(Tail(w)) \in 0 .. Len(Tail(w))
      BY <1>2
    <3>4. Seen(view'[q], Tail(w))[Len(Tail(w))] = Seen(v, w)[Len(Tail(w)) + 1]
      BY <1>8, <3>3
    <3>5. QED
      BY <1>2, <2>3, <3>1, <3>2, <3>4
  <2>4. QED
    BY <2>2, <2>3
<1>14. QuietPreview'
  BY <1>1, <1>5, <1>7 DEF QuietPreview
<1>15. QED
  BY <1>11, <1>12, <1>13, <1>14

LEMMA PagesInvStep ==
    ASSUME ProgressInv, WizardInv', [ProgressNext]_progressVars
    PROVE  PagesInv'
<1>1. ASSUME NEW q \in Pages, Leave(q) PROVE PagesInv'
  <2>1. drops' \in 0 .. MaxDrops
    BY <1>1 DEF Leave, ProgressInv, PagesInv, ProgressTypeOK
  <2>2. QED
    BY <1>1, <2>1, HangupFits DEF Leave
<1>2. ASSUME NEW q \in Pages, Drop(q) PROVE PagesInv'
  <2>1. drops' \in 0 .. MaxDrops
    BY <1>2, ProgressAssumption DEF Drop, ProgressInv, PagesInv, ProgressTypeOK
  <2>2. PICK s \in {"connecting", "lost"} : page' = [page EXCEPT ![q] = s]
    BY <1>2 DEF Drop
  <2>3. QED
    BY <1>2, <2>1, <2>2, HangupFits DEF Drop
<1>3. CASE UNCHANGED progressVars
  <2>1. UNCHANGED progress /\ Now' = Now /\ UNCHANGED loop
    BY <1>3 DEF progressVars, vars, rowVars, Now
  <2>2. QED
    BY <2>1, UntoldKeeps
<1>4. QED
  BY <1>1, <1>2, <1>3, EngineTells, VisitFits, ConnectFits, HandleFits DEF ProgressNext, Browser

(* The inductive invariant of the watched engine. *)
THEOREM ProgressInvariant == ProgressSpec => []ProgressInv
<1>1. WizardInv /\ WizardInv' /\ PagesInv /\ [ProgressNext]_progressVars => PagesInv'
  BY PagesInvStep DEF ProgressInv
<1>2. ProgressSpec => []WizardInv
  BY WatchedEngine, WizardInvariant, PTL
<1>3. ProgressInit => PagesInv
  BY PagesInvInit
<1>4. ProgressInv <=> WizardInv /\ PagesInv
  BY DEF ProgressInv
<1>5. QED
  BY <1>1, <1>2, <1>3, <1>4, PTL DEF ProgressSpec

(* A listener misses nothing: what its page will show, once all that is on *)
(* the way is handled, is what is saved.                                   *)
THEOREM Told == ProgressSpec => []NothingMissed
<1>1. ProgressInv => NothingMissed
  BY DEF ProgressInv, PagesInv
<1>2. QED
  BY <1>1, ProgressInvariant, PTL

(* A page never shows a verdict over rows it is not the verdict of. *)
THEOREM VerdictShownFits == ProgressSpec => []VerdictFitsRows
<1>1. ASSUME ProgressInv, NEW p \in Pages PROVE Fits(view[p])
  <2>1. 0 \in 0 .. Len(wire[p]) /\ wire[p] \in Seq(Events)
    BY <1>1 DEF ProgressInv, PagesInv, ProgressTypeOK
  <2>2. Seen(view[p], wire[p])[0] = view[p]
    BY <2>1, SeenAt
  <2>3. QED
    BY <1>1, <2>1, <2>2 DEF ProgressInv, PagesInv, AllFit
<1>2. ProgressInv => VerdictFitsRows
  BY <1>1 DEF VerdictFitsRows, Fits
<1>3. QED
  BY <1>2, ProgressInvariant, PTL
=============================================================================
