-------------------------- MODULE AutoFlushProofs --------------------------
(***************************************************************************)
(* Theorems about AutoFlush, for every debounce, cap and retry delay.      *)
(***************************************************************************)
EXTENDS AutoFlush, TLAPS

(* openDatabase hands over a database that is in its file. *)
LEMMA FlushInvInit == Init => FlushInv
BY DEF Init, FlushInv, FlushTypeOK, UnsavedScheduled, WaitBounded, BackoffKept, StopSavesAll

(* The delay onWrite arms never takes the first write past the cap. *)
LEMMA DelayWithinCap ==
    ASSUME NEW a \in Nat
    PROVE  /\ Lesser(Debounce, Remaining(a)) \in Nat
           /\ a <= MaxDelay => a + Lesser(Debounce, Remaining(a)) <= MaxDelay
BY FlushAssumption DEF FlushAssumption, Lesser, Remaining

(* Every step keeps the invariant. *)
LEMMA FlushInvStep == FlushInv /\ [Next]_vars => FlushInv'
<1> SUFFICES ASSUME FlushInv, [Next]_vars
             PROVE  FlushInv'
    OBVIOUS
<1> USE FlushAssumption DEF FlushAssumption
<1> DEFINE Goal == FlushInv
<1> SUFFICES Goal'
    OBVIOUS
<1>1. CASE Write
    <2>1. /\ Lesser(Debounce, Remaining(age)) \in Nat
          /\ age <= MaxDelay => age + Lesser(Debounce, Remaining(age)) <= MaxDelay
        BY DelayWithinCap DEF FlushInv, FlushTypeOK
    <2>2. dirty = "no" => age = 0
        BY DEF FlushInv
    <2>3. failing = "no" => age <= MaxDelay
        BY <1>1, <2>2 DEF Write, FlushInv, FlushTypeOK, WaitBounded
    <2>4. CASE failing = "yes"
        BY <1>1, <2>4 DEF Write, FlushInv, FlushTypeOK, UnsavedScheduled, WaitBounded, BackoffKept,
                          StopSavesAll, Running, bufferVars, timerVars
    <2>5. CASE failing = "no"
        BY <1>1, <2>1, <2>3, <2>5
        DEF Write, Arm, FlushInv, FlushTypeOK, UnsavedScheduled, WaitBounded, BackoffKept,
            StopSavesAll, Running, bufferVars, timerVars
    <2> QED
        BY <2>4, <2>5 DEF FlushInv, FlushTypeOK
<1>2. CASE Tick
    BY <1>2 DEF Tick, Lesser, FlushInv, FlushTypeOK, UnsavedScheduled, WaitBounded, BackoffKept,
                StopSavesAll, Running
<1>3. CASE Fire
    BY <1>3 DEF Fire, Due, Saved, Kept, Arm, Disarm, bufferVars, FlushInv, FlushTypeOK,
                UnsavedScheduled, WaitBounded, BackoffKept, StopSavesAll, Running
<1>4. CASE Leave
    BY <1>4 DEF Leave, FinalFlush, bufferVars, timerVars, FlushInv, FlushTypeOK,
                UnsavedScheduled, WaitBounded, BackoffKept, StopSavesAll, Running
<1>5. CASE CloseDb
    BY <1>5 DEF CloseDb, Saved, Kept, Disarm, bufferVars, FlushInv, FlushTypeOK,
                UnsavedScheduled, WaitBounded, BackoffKept, StopSavesAll, Running
<1>6. CASE Signal
    BY <1>6 DEF Signal, FinalFlush, bufferVars, timerVars, FlushInv, FlushTypeOK,
                UnsavedScheduled, WaitBounded, BackoffKept, StopSavesAll, Running
<1>7. CASE UNCHANGED vars
    BY <1>7 DEF vars, bufferVars, timerVars, FlushInv, FlushTypeOK, UnsavedScheduled,
                WaitBounded, BackoffKept, StopSavesAll, Running
<1> HIDE DEF Goal
<1> QED
    BY <1>1, <1>2, <1>3, <1>4, <1>5, <1>6, <1>7 DEF Next

(* Whatever is not in the file has a timer, its age is known, and a clean  *)
(* buffer means a saved database: the invariant of wireAutoFlush.          *)
THEOREM FlushInvariant == Spec => []FlushInv
<1> QED
    BY FlushInvInit, FlushInvStep, PTL DEF Spec

(* No write is ever without a timer that will save it. *)
THEOREM NothingForgotten == Spec => []UnsavedScheduled
<1>1. FlushInv => UnsavedScheduled
    BY DEF FlushInv
<1> QED
    BY <1>1, FlushInvariant, PTL

(* AUTO_FLUSH_MAX_DELAY_MS caps the wait of every write while flushing     *)
(* works.                                                                  *)
THEOREM CapHolds == Spec => []WaitBounded
<1>1. FlushInv => WaitBounded
    BY DEF FlushInv
<1> QED
    BY <1>1, FlushInvariant, PTL

(* AUTO_FLUSH_RETRY_DELAY_MS separates attempts while flushing fails. *)
THEOREM RetriesApart == Spec => []BackoffKept
<1>1. FlushInv => BackoffKept
    BY DEF FlushInv
<1> QED
    BY <1>1, FlushInvariant, PTL

(* A stop whose last flush worked loses no write. *)
THEOREM StopLosesNothing == Spec => []StopSavesAll
<1>1. FlushInv => StopSavesAll
    BY DEF FlushInv
<1> QED
    BY <1>1, FlushInvariant, PTL
=============================================================================
