------------------------ MODULE EncryptedStoreProofs ------------------------
(***************************************************************************)
(* Theorems about EncryptedStore, for any number of changes, faults, kills *)
(* and power failures, and its refinement of DurableStore.                 *)
(***************************************************************************)
EXTENDS StoreRefinement, TLAPS

(* The directories openDatabase may meet satisfy the invariant. *)
LEMMA StoreInvInit == Init => StoreInv
BY DEF Init, StoreInv, StoreTypeOK, AlwaysOpens, LitterBounded, TempFollowsStep, StepFitsStage,
       LoadedIsStored, Dir, Forms, File, NoTemp

(* Every step of a process, and every way it can end, keeps it. *)
LEMMA StoreInvStep == StoreInv /\ [Next]_vars => StoreInv'
<1> SUFFICES ASSUME StoreInv, [Next]_vars
             PROVE  StoreInv'
    OBVIOUS
<1> USE DEF StoreInv, StoreTypeOK, AlwaysOpens, LitterBounded, TempFollowsStep, StepFitsStage,
            LoadedIsStored, Dir, Forms, NoTemp, budget, files, memory, Faults
<1> DEFINE Goal == StoreInv
<1> SUFFICES Goal'
    OBVIOUS
<1>1. CASE Boot
    BY <1>1 DEF Boot, Load, Loadable
<1>2. CASE ReadVacuumed
    BY <1>2 DEF ReadVacuumed, Unlink, Loadable
<1>3. CASE VacuumFails
    BY <1>3 DEF VacuumFails, Unlink, Exit
<1>4. CASE Open
    BY <1>4 DEF Open
<1>5. CASE WriteTemp \/ WriteShort
    BY <1>5 DEF WriteTemp, WriteShort, Loadable
<1>6. CASE Sync
    BY <1>6 DEF Sync
<1>7. CASE Rename
    <2>1. /\ temp = "durable" /\ stage # "down" /\ image = db
          /\ dir' = [form |-> "encrypted", base |-> db, wal |-> dir.wal]
          /\ journal' \in {journal, dir}
        BY <1>7 DEF Rename, Replace, File
    <2> QED
        BY <1>7, <2>1 DEF Rename, Loadable
<1>8. CASE FlushFails
    BY <1>8 DEF FlushFails, Thrown, Unlink, Failing, Exit, Loadable
<1>9. CASE Finalize
    <2>1. /\ dir' \in Dir /\ dir'.form = dir.form /\ dir'.base = dir.base
          /\ journal' \in {journal, dir}
        BY <1>9 DEF Finalize, Replace
    <2>2. /\ step = "flushed" /\ step' = "ready" /\ stage' = "serving"
          /\ UNCHANGED <<temp, litter, unremoved, db, image, legacy>>
        BY <1>9 DEF Finalize
    <2>3. faults' \in Nat /\ kills' \in Nat /\ outages' \in Nat
        BY <1>9 DEF Finalize
    <2> QED
        BY <2>1, <2>2, <2>3 DEF Loadable
<1>10. CASE Change
    BY <1>10 DEF Change
<1>11. CASE Kill
    BY <1>11 DEF Kill, Die, Exit
<1>12. CASE Outage
    <2>1. dir' \in {dir, journal} /\ journal' = dir'
        BY <1>12 DEF Outage, Lost
    <2> QED
        BY <1>12, <2>1 DEF Outage, Die, Exit
<1>13. CASE BootFails
    BY <1>13 DEF BootFails
<1>14. CASE UNCHANGED vars
    BY <1>14 DEF vars, Loadable
<1> HIDE DEF Goal
<1> QED
    BY <1>1, <1>2, <1>3, <1>4, <1>5, <1>6, <1>7, <1>8, <1>9, <1>10, <1>11, <1>12, <1>13,
       <1>14
    DEF Next, Flush

(* The invariant of openDatabase and flush. *)
THEOREM StoreInvariant == Spec => []StoreInv
<1> QED
    BY StoreInvInit, StoreInvStep, PTL DEF Spec

(* The next start finds a complete file, whatever was interrupted. *)
THEOREM FileOpens == Spec => []AlwaysOpens
<1>1. StoreInv => AlwaysOpens
    BY DEF StoreInv
<1> QED
    BY <1>1, StoreInvariant, PTL

(* Temporary files pile up only as far as removing them fails: beyond one  *)
(* for each removal that failed since the last sweep there is at most one. *)
THEOREM LitterStaysBounded == Spec => []LitterBounded
<1>1. StoreInv => LitterBounded
    BY DEF StoreInv
<1> QED
    BY <1>1, StoreInvariant, PTL

(* A directory openDatabase may meet is a copy nobody has loaded. *)
LEMMA DurableInit == Init => Durable!Init
BY DEF Init, Durable!Init, Loadable, File

(* Every step is one of the store's, or none it can see. *)
LEMMA DurableStep ==
    ASSUME StoreInv, StoreInv', [Next]_vars
    PROVE  [Durable!Next]_(Durable!vars)
<1> USE DEF StoreInv, StoreTypeOK, StepFitsStage, LoadedIsStored, Dir, Forms, files, memory
<1> DEFINE Goal == [Durable!Next]_(Durable!vars)
<1> SUFFICES Goal
    OBVIOUS
<1> USE DEF Durable!Next, Durable!vars, Durable!Start, Durable!Change, Durable!Save,
            Durable!Settle, Durable!Rewrite, Durable!Die, Durable!Outage
<1>1. CASE Boot
    BY <1>1 DEF Boot, Load
<1>2. CASE ReadVacuumed
    BY <1>2 DEF ReadVacuumed
<1>3. CASE VacuumFails
    BY <1>3 DEF VacuumFails, Exit
<1>4. CASE Open \/ WriteTemp \/ WriteShort \/ Sync
    BY <1>4 DEF Open, WriteTemp, WriteShort, Sync, Loadable
<1>5. CASE Rename
    <2>1. /\ temp = "durable" /\ stage # "down" /\ image = db /\ db' = db
          /\ dir' = [form |-> "encrypted", base |-> db, wal |-> dir.wal]
        BY <1>5 DEF Rename, Replace, File, TempFollowsStep
    <2>2. Loadable(dir)' = db
        BY <2>1 DEF Loadable
    <2>3. stage = "boot" => Loadable(dir) = db
        BY <1>5 DEF Rename
    <2>4. stage' \in {stage, "serving"}
        BY <1>5 DEF Rename
    <2>5. Loadable(journal)' \in {Loadable(journal), Loadable(dir)}
        BY <1>5 DEF Rename, Replace, Loadable
    <2> QED
        BY <2>1, <2>2, <2>3, <2>4, <2>5
<1>6. CASE FlushFails
    BY <1>6 DEF FlushFails, Thrown, Exit
<1>7. CASE Finalize
    <2>1. /\ stage = "boot" /\ stage' = "serving" /\ db' = db
          /\ dir'.form = "encrypted" /\ dir'.base = dir.base /\ dir.form = "encrypted"
        BY <1>7 DEF Finalize, Replace
    <2>2. Loadable(dir) = db /\ Loadable(dir)' = db
        BY <1>7, <2>1 DEF Finalize, Loadable
    <2>3. Loadable(journal)' \in {Loadable(journal), Loadable(dir)}
        BY <1>7 DEF Finalize, Replace, Loadable
    <2> QED
        BY <2>1, <2>2, <2>3
<1>8. CASE Change
    BY <1>8 DEF Change
<1>9. CASE Kill
    BY <1>9 DEF Kill, Die, Exit
<1>10. CASE Outage
    <2>1. dir' \in {dir, journal} /\ journal' = dir' /\ stage' = "down"
        BY <1>10 DEF Outage, Lost, AlwaysOpens, Die, Exit
    <2>2. /\ Loadable(dir)' \in {Loadable(dir), Loadable(journal)}
          /\ Loadable(journal)' = Loadable(dir)'
        BY <2>1 DEF Loadable
    <2> QED
        BY <2>1, <2>2
<1>11. CASE BootFails
    BY <1>11 DEF BootFails
<1>12. CASE UNCHANGED vars
    BY <1>12 DEF vars
<1> HIDE DEF Goal
<1> QED
    BY <1>1, <1>2, <1>3, <1>4, <1>5, <1>6, <1>7, <1>8, <1>9, <1>10, <1>11, <1>12
    DEF Next, Flush

(* openDatabase and flush are the store the rest of the process relies on, *)
(* whatever is interrupted.                                                *)
THEOREM StoreRefines == Spec => ImplementsDurableStore
<1>1. StoreInv /\ StoreInv' /\ [Next]_vars => [Durable!Next]_(Durable!vars)
    BY DurableStep
<1> QED
    BY <1>1, DurableInit, StoreInvariant, PTL DEF Spec, ImplementsDurableStore, Durable!Spec
=============================================================================
