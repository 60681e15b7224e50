--------------------------- MODULE JobEngineCrash ---------------------------
(***************************************************************************)
(* The job engine over the database file.  The engine's rows live in an    *)
(* in-memory SQLite database; db.ts saves a serialized copy of the whole   *)
(* of it from time to time and index.ts loads the last copy at boot.       *)
(* GitHub keeps what has landed.  The client is the wizard's, and its user *)
(* waits for each answer (Waited).                                         *)
(***************************************************************************)
EXTENDS JobEngineWizard

CONSTANT MaxCrashes    \* how often the process may die (a bound)

ASSUME CrashAssumption == MaxCrashes \in Nat

VARIABLES
    disk,       \* the copy in the file
    crashes     \* how often the process has died

crashVars == <<vars, disk, crashes>>

Serialized == [job |-> job, status |-> status, preview |-> preview,
             attempts |-> attempts, commitSha |-> commitSha]

CrashInit == Init /\ disk = Serialized /\ crashes = 0

(* Mutant: the job is saved without its rows. *)
FlushJobOnly ==
    /\ disk' = [disk EXCEPT !.job = job]
    /\ UNCHANGED <<vars, crashes>>

(* flushNow: serialize is one call, so the copy is of one moment. *)
Flush ==
    /\ disk' = Serialized
    /\ UNCHANGED <<vars, crashes>>

(* The process dies and main runs again: requests, runs and timers are     *)
(* gone and the rows are the file's, with job j and row statuses st.       *)
Reboot(j, st) ==
    /\ crashes < MaxCrashes
    /\ crashes' = crashes + 1
    /\ job' = j
    /\ status' = st
    /\ preview' = disk.preview
    /\ attempts' = disk.attempts
    /\ commitSha' = disk.commitSha
    /\ loop' = "over"
    /\ phase' = [c \in Calls |-> IF phase[c] = "idle" THEN "idle" ELSE "ended"]
    /\ queue' = [c \in Calls |-> {}]
    /\ active' = [c \in Calls |-> {}]
    /\ base' = [c \in Calls |-> [r \in Rows |-> 0]]
    /\ made' = [c \in Calls |-> [r \in Rows |-> 0]]
    /\ UNCHANGED <<kind, landed, faults, disk>>

(* Mutant: boot puts every row back in the queue. *)
CrashRequeues ==
    Reboot("READY", [r \in Rows |-> IF disk.status[r] = "NONE" THEN "NONE" ELSE "DIFF_COMPUTED"])

(* Nothing at boot looks at the job: both are the file's. *)
Crash == Reboot(disk.job, disk.status)

CrashNext ==
    \/ PatientNext /\ UNCHANGED <<disk, crashes>>
    \/ Flush
    \/ Crash

CrashSpec == CrashInit /\ [][CrashNext]_crashVars
-----------------------------------------------------------------------------
CrashTypeOK ==
    /\ TypeOK
    /\ disk \in [job : JobStatus, status : [Rows -> RowStatus], preview : [Rows -> Previews],
                 attempts : [Rows -> Nat], commitSha : [Rows -> Nat]]
    /\ crashes \in Nat

(* The file is a moment of the database: a verdict in it is the verdict of *)
(* the rows in it.                                                         *)
DiskVerdictMatchesRows == disk.job \in Terminal => disk.job = FinalStatus(disk.status)

(* What the file calls SUCCESS or SKIPPED is never executed again, crash   *)
(* or not: only work the file has not heard of can be done twice.          *)
DurableRowsNotRunAgain ==
    \A r \in Rows : disk.status[r] \in Settled => ~InFlight(r) /\ status[r] = disk.status[r]
=============================================================================
