--------------------------- MODULE EncryptedStore ---------------------------
(***************************************************************************)
(* How the in-memory database reaches its file and comes back: openDatabase*)
(* (db.ts), loadEncryptedDatabase, flush, finalizeLegacyMigration and      *)
(* cleanupStaleTempFiles (encryptedStore.ts), system call by system call,  *)
(* for one process at a time.  The process may be killed and the power may *)
(* fail between any two of them.                                           *)
(*                                                                         *)
(* A database is the number of changes made to it.  Encryption is the form *)
(* of a file; a file that was cut off, or whose data did not reach the     *)
(* disk, is "torn": its GCM tag does not verify.                           *)
(***************************************************************************)
EXTENDS Naturals

CONSTANTS
    MaxChanges,    \* how many changes are made to the database (a bound)
    MaxFaults,     \* how often a system call fails (a bound)
    MaxKills,      \* how often the process is killed (a bound)
    MaxOutages     \* how often the power fails (a bound)

ASSUME StoreAssumption ==
    MaxChanges \in Nat /\ MaxFaults \in Nat /\ MaxKills \in Nat /\ MaxOutages \in Nat

VARIABLES
    dir,        \* the database file and the sidecars of a legacy one
    journal,    \* dir as the disk is sure to have it after a power failure
    temp,       \* the temporary file of this process
    litter,     \* temporary files of earlier attempts and processes
    unremoved,  \* how many removals have failed since the last sweep
    stage,      \* "down", "boot" (openDatabase) or "serving"
    step,       \* the point in flush, or around it
    db,         \* the in-memory database
    image,      \* what flush has serialized
    legacy,     \* wasLegacyPlaintext
    faults, kills, outages

budget == <<faults, kills, outages>>
files == <<temp, litter, unremoved>>
memory == <<db, image, legacy>>
vars == <<dir, journal, files, stage, step, memory, budget>>

(* "unsynced": encrypted and readable, but its data need not be on disk.   *)
Forms == {"absent", "plain", "encrypted", "unsynced", "torn"}

(* "wal" is the database with what a legacy instance has committed to its  *)
(* -wal file but not checkpointed, 0 when there are no sidecars.           *)
Dir == [form : Forms, base : Nat, wal : Nat]

File(form, base, wal) == [form |-> form, base |-> base, wal |-> wal]

(* What loadEncryptedDatabase makes of a directory: VACUUM INTO through    *)
(* SQLite merges the sidecars of a plaintext file; nothing reads those of  *)
(* an encrypted one.                                                       *)
Loadable(d) == IF d.form = "plain" /\ d.wal # 0 THEN d.wal ELSE d.base

(* What a power failure may leave of a file. *)
Lost(d) == IF d.form = "unsynced" THEN [d EXCEPT !.form = "torn"] ELSE d

NoTemp == "none"
-----------------------------------------------------------------------------
(* A fresh install, a plaintext database with and without committed frames *)
(* in its sidecar, or an encrypted one.                                    *)
Init ==
    /\ dir \in {File("absent", 0, 0), File("plain", 1, 0), File("plain", 1, 2),
                File("encrypted", 1, 0)}
    /\ journal = dir
    /\ temp = NoTemp
    /\ litter = 0
    /\ unremoved = 0
    /\ stage = "down"
    /\ step = "ready"
    /\ db = 0
    /\ image = 0
    /\ legacy = "no"
    /\ faults = 0 /\ kills = 0 /\ outages = 0

(* n system calls fail in this step. *)
Faults(n) ==
    /\ faults + n <= MaxFaults
    /\ faults' = faults + n
    /\ UNCHANGED <<kills, outages>>

(* rmSync of the temporary file, in a step in which n other calls fail: if *)
(* it fails too, nobody hears of it and the file stays.                    *)
Unlink(n) ==
    /\ temp' = NoTemp
    /\ \/ Faults(n) /\ UNCHANGED <<litter, unremoved>>
       \/ /\ temp # NoTemp
          /\ Faults(n + 1)
          /\ litter' = litter + 1
          /\ unremoved' = unremoved + 1

(* The process exits: its memory is gone. *)
Exit ==
    /\ stage' = "down"
    /\ step' = "ready"
    /\ db' = 0
    /\ image' = 0
    /\ legacy' = "no"

(* openDatabase up to the load.  A plaintext file is vacuumed into a       *)
(* temporary one; a torn one throws, at every start.                       *)
Load ==
    /\ dir.form # "torn"
    /\ stage' = "boot"
    /\ IF dir.form = "plain"
       THEN legacy' = "yes" /\ step' = "vacuumed" /\ temp' = "plain" /\ UNCHANGED db
       ELSE legacy' = "no" /\ step' = "ready" /\ db' = dir.base /\ UNCHANGED temp
    /\ UNCHANGED <<dir, journal, image, budget>>

(* cleanupStaleTempFiles comes first. *)
Boot == stage = "down" /\ Load /\ litter' = 0 /\ unremoved' = 0

(* The sweep stops at a file it cannot remove, or the database file cannot *)
(* be read: openDatabase throws and the process exits.                     *)
BootFails ==
    /\ stage = "down"
    /\ Faults(1)
    /\ \/ litter' \in 1 .. litter /\ UNCHANGED unremoved
       \/ litter' = 0 /\ unremoved' = 0
    /\ UNCHANGED <<dir, journal, temp, stage, step, memory>>

(* Directory changes reach the disk in order, some time: the journal may   *)
(* or may not have caught up with the one before.                          *)
Replace(d) == dir' = d /\ journal' \in {journal, dir}

(* Mutant: the sidecars are deleted before the flush. *)
ReadVacuumedFinal ==
    /\ step = "vacuumed"
    /\ Unlink(0)
    /\ db' = Loadable(dir)
    /\ step' = "ready"
    /\ Replace([dir EXCEPT !.wal = 0])
    /\ UNCHANGED <<stage, image, legacy>>

(* The vacuumed copy is read and removed. *)
ReadVacuumed ==
    /\ step = "vacuumed"
    /\ Unlink(0)
    /\ db' = Loadable(dir)
    /\ step' = "ready"
    /\ UNCHANGED <<dir, journal, stage, image, legacy>>

Change ==
    /\ stage = "serving"
    /\ step = "ready"
    /\ db < MaxChanges
    /\ db' = db + 1
    /\ UNCHANGED <<dir, journal, files, stage, step, image, legacy, budget>>

(* flush: serialize, open. *)
Open ==
    /\ stage # "down"
    /\ step = "ready"
    /\ image' = db
    /\ temp' = "empty"
    /\ step' = "opened"
    /\ UNCHANGED <<dir, journal, litter, unremoved, stage, db, legacy, budget>>

(* writeSync wrote every byte ... *)
WriteTemp ==
    /\ step = "opened"
    /\ temp' = "whole"
    /\ step' = "written"
    /\ UNCHANGED <<dir, journal, litter, unremoved, stage, memory, budget>>

(* ... or fewer than it was given, which flush throws for. *)
WriteShort ==
    /\ step = "opened"
    /\ Faults(1)
    /\ temp' = "short"
    /\ step' = "short"
    /\ UNCHANGED <<dir, journal, litter, unremoved, stage, memory>>

(* Mutant: without the fsync. *)
SyncSkipped ==
    /\ step = "written"
    /\ step' = "synced"
    /\ UNCHANGED <<dir, journal, files, stage, memory, budget>>

Sync ==
    /\ step = "written"
    /\ temp' = IF temp = "whole" THEN "durable" ELSE temp
    /\ step' = "synced"
    /\ UNCHANGED <<dir, journal, litter, unremoved, stage, memory, budget>>

(* renameSync publishes the file; openDatabase goes on to the sidecars, or *)
(* is done.                                                                *)
Rename ==
    /\ step = "synced"
    /\ temp' = NoTemp
    /\ Replace(File(CASE temp = "durable" -> "encrypted" [] temp = "whole" -> "unsynced" [] OTHER -> "torn",
                    image, dir.wal))
    /\ IF stage = "boot" /\ legacy = "yes"
       THEN step' = "flushed" /\ UNCHANGED stage
       ELSE step' = "ready" /\ stage' = "serving"
    /\ UNCHANGED <<litter, unremoved, memory, budget>>

(* flush throws: serving, db.ts keeps the changes for the next attempt;    *)
(* in openDatabase, the process exits.                                     *)
Thrown ==
    /\ stage # "down"
    /\ step \in {"ready", "opened", "short", "written", "synced"}
    /\ IF stage = "boot"
       THEN Exit
       ELSE step' = "ready" /\ UNCHANGED <<stage, memory>>
    /\ UNCHANGED <<dir, journal>>

(* A short write is a failure already. *)
Failing == IF step = "short" THEN 0 ELSE 1

(* Mutant: a failed attempt leaves its temporary file. *)
FlushFailsLittering ==
    /\ Thrown
    /\ Faults(Failing)
    /\ temp' = NoTemp
    /\ litter' = IF temp = NoTemp THEN litter ELSE litter + 1
    /\ UNCHANGED unremoved

FlushFails == Thrown /\ Unlink(Failing)

(* VACUUM INTO throws, or the copy cannot be read. *)
VacuumFails ==
    /\ step = "vacuumed"
    /\ Unlink(1)
    /\ Exit
    /\ UNCHANGED <<dir, journal>>

(* finalizeLegacyMigration: a sidecar that cannot be deleted is logged.    *)
Finalize ==
    /\ step = "flushed"
    /\ step' = "ready"
    /\ stage' = "serving"
    /\ \/ Replace([dir EXCEPT !.wal = 0]) /\ UNCHANGED budget
       \/ Faults(1) /\ UNCHANGED <<dir, journal>>
    /\ UNCHANGED <<files, memory>>

(* Whatever ends the process leaves its temporary file. *)
Die ==
    /\ stage # "down"
    /\ Exit
    /\ temp' = NoTemp
    /\ litter' = IF temp = NoTemp THEN litter ELSE litter + 1
    /\ UNCHANGED unremoved

Kill ==
    /\ kills < MaxKills
    /\ kills' = kills + 1
    /\ Die
    /\ UNCHANGED <<dir, journal, faults, outages>>

(* The disk has the directory as it was, or as it was before the journal   *)
(* caught up; what was renamed unsynced may be gone.                       *)
Outage ==
    /\ outages < MaxOutages
    /\ outages' = outages + 1
    /\ Die
    /\ \E d \in {journal, dir} : dir' \in {d, Lost(d)}
    /\ journal' = dir'
    /\ UNCHANGED <<faults, kills>>

Flush == Open \/ WriteTemp \/ WriteShort \/ Sync \/ Rename \/ FlushFails

Next ==
    \/ Boot \/ BootFails \/ ReadVacuumed \/ VacuumFails \/ Flush \/ Finalize
    \/ Change \/ Kill \/ Outage

Spec == Init /\ [][Next]_vars
-----------------------------------------------------------------------------
(* Whatever is interrupted where, the next start finds a complete file     *)
(* (security-and-privacy.md:25-27: "an interrupted write leaves the        *)
(* previous complete file intact rather than a half-written one").         *)
AlwaysOpens == \A d \in {dir, journal} : d.form \notin {"unsynced", "torn"}

(* Temporary files do not pile up with failing attempts, dying processes   *)
(* or failing starts: there is at most one more than removals have failed  *)
(* since the last sweep, that of a process that died, and while a process  *)
(* runs there is none more (encryptedStore.ts:159-162, 116-119).           *)
LitterBounded == litter <= unremoved + (IF stage = "down" THEN 1 ELSE 0)

(* A served database has no plaintext sidecar beside it, unless deleting   *)
(* it failed (security-and-privacy.md:91-94: the first startup after       *)
(* upgrading "deletes the leftover plaintext app.db-wal/app.db-shm files").*)
(* It does not hold: a start after a kill between the rename and Finalize  *)
(* finds an encrypted file, and takes it for no upgrade.                   *)
SidecarsGone == stage = "serving" /\ faults = 0 => dir.wal = 0
-----------------------------------------------------------------------------
(* The inductive invariant: the point in flush says what the temporary     *)
(* file and the image are, and a process that has loaded a directory holds *)
(* what the next one would load.                                           *)
StoreTypeOK ==
    /\ dir \in Dir /\ journal \in Dir
    /\ temp \in {NoTemp, "plain", "empty", "short", "whole", "durable"}
    /\ litter \in Nat /\ unremoved \in Nat /\ db \in Nat /\ image \in Nat
    /\ stage \in {"down", "boot", "serving"}
    /\ step \in {"ready", "vacuumed", "opened", "short", "written", "synced", "flushed"}
    /\ legacy \in {"yes", "no"}
    /\ faults \in Nat /\ kills \in Nat /\ outages \in Nat

TempFollowsStep ==
    /\ step = "opened" => temp = "empty"
    /\ step = "short" => temp = "short"
    /\ step = "written" => temp = "whole"
    /\ step = "synced" => temp = "durable"

StepFitsStage ==
    /\ stage = "down" => step = "ready"
    /\ step \in {"vacuumed", "flushed"} => stage = "boot"
    /\ stage = "serving" => dir.form = "encrypted"
    /\ step = "flushed" => dir.form = "encrypted"

LoadedIsStored ==
    /\ step \in {"opened", "short", "written", "synced"} => image = db
    /\ stage = "boot" /\ step # "vacuumed" => db = Loadable(dir)

StoreInv ==
    /\ StoreTypeOK /\ AlwaysOpens /\ LitterBounded
    /\ TempFollowsStep /\ StepFitsStage /\ LoadedIsStored
=============================================================================
