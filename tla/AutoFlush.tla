----------------------------- MODULE AutoFlush -----------------------------
(***************************************************************************)
(* When the in-memory database reaches its file: wireAutoFlush (db.ts) and *)
(* the final flushes of index.ts and cli/interactiveCli.ts.  Writing the   *)
(* file is one step here; EncryptedStore has its parts.                    *)
(*                                                                         *)
(* Time is relative: a timer counts down, ages count up, to just past the  *)
(* largest value anything compares them with.  Timers fire when they are   *)
(* due: an event loop blocked for longer is not modelled.                  *)
(***************************************************************************)
EXTENDS Naturals

CONSTANTS
    Debounce,    \* AUTO_FLUSH_DEBOUNCE_MS
    MaxDelay,    \* AUTO_FLUSH_MAX_DELAY_MS
    Retry,       \* AUTO_FLUSH_RETRY_DELAY_MS
    MaxWrites,   \* how many writes are made (a bound)
    MaxFaults    \* how often writing the file fails (a bound)

ASSUME FlushAssumption ==
    /\ Debounce \in Nat \ {0} /\ MaxDelay \in Nat \ {0} /\ Retry \in Nat \ {0}
    /\ MaxWrites \in Nat /\ MaxFaults \in Nat

VARIABLES
    db,          \* content of the in-memory database: the writes made to it
    file,        \* content of the file
    dirty,       \* dirty; firstDirtyAt is undefined exactly while it is "no"
    age,         \* time since firstDirtyAt, 0 while not dirty
    timer,       \* is a timer armed?
    left,        \* time until it is due, 0 while none is
    failing,     \* flushFailing
    rest,        \* observed: time since an attempt failed, 0 while not failing
    life,        \* "open"; "stopping" while the CLI awaits app.close(); then
                 \* "stopped", or "lost" when the last flush failed
    faults

bufferVars == <<dirty, age>>
timerVars  == <<timer, left>>
vars == <<db, file, bufferVars, timerVars, failing, rest, life, faults>>

Running == life \in {"open", "stopping"}

Lesser(m, n) == IF m < n THEN m ELSE n
Remaining(a) == IF a < MaxDelay THEN MaxDelay - a ELSE 0
-----------------------------------------------------------------------------
(* openDatabase has flushed before it wires anything. *)
Init ==
    /\ db = 0
    /\ file = 0
    /\ dirty = "no"
    /\ age = 0
    /\ timer = "off"
    /\ left = 0
    /\ failing = "no"
    /\ rest = 0
    /\ life = "open"
    /\ faults = 0

Arm(delay) == timer' = "on" /\ left' = delay

Disarm == timer' = "off" /\ left' = 0

(* Mutant: the delay is the debounce window alone. *)
WriteUncapped ==
    /\ Running
    /\ db < MaxWrites
    /\ db' = db + 1
    /\ dirty' = "yes"
    /\ IF failing = "yes"
       THEN UNCHANGED timerVars
       ELSE Arm(Debounce)
    /\ UNCHANGED <<file, age, failing, rest, life, faults>>

(* Mutant: a write reschedules whether or not flushing fails. *)
WriteHasty ==
    /\ Running
    /\ db < MaxWrites
    /\ db' = db + 1
    /\ dirty' = "yes"
    /\ Arm(Lesser(Debounce, Remaining(age)))
    /\ UNCHANGED <<file, age, failing, rest, life, faults>>

(* A statement that writes, and onWrite. *)
Write ==
    /\ Running
    /\ db < MaxWrites
    /\ db' = db + 1
    /\ dirty' = "yes"
    /\ IF failing = "yes"
       THEN UNCHANGED timerVars
       ELSE Arm(Lesser(Debounce, Remaining(age)))
    /\ UNCHANGED <<file, age, failing, rest, life, faults>>

Tick ==
    /\ Running
    /\ timer = "on" => left > 0
    /\ left' = IF timer = "on" THEN left - 1 ELSE left
    /\ age' = IF dirty = "yes" THEN Lesser(age + 1, MaxDelay + 1) ELSE age
    /\ rest' = IF failing = "yes" THEN Lesser(rest + 1, Retry + 1) ELSE rest
    /\ <<left, age, rest>>' # <<left, age, rest>>
    /\ UNCHANGED <<db, file, dirty, timer, failing, life, faults>>

(* flushNow, when flush returns. *)
Saved ==
    /\ file' = db
    /\ dirty' = "no"
    /\ age' = 0
    /\ failing' = "no"
    /\ rest' = 0
    /\ UNCHANGED faults

(* flushNow, when flush throws. *)
Kept ==
    /\ faults < MaxFaults
    /\ faults' = faults + 1
    /\ failing' = "yes"
    /\ rest' = 0
    /\ UNCHANGED <<file, bufferVars>>

Due == Running /\ timer = "on" /\ left = 0

(* Mutant: nothing is armed after a failed attempt. *)
FireOnce ==
    /\ Due
    /\ (Saved \/ Kept) /\ Disarm
    /\ UNCHANGED <<db, life>>

(* Mutant: an attempt that failed counts as done. *)
FireForgetful ==
    /\ Due
    /\ \/ Saved /\ Disarm
       \/ /\ faults < MaxFaults
          /\ faults' = faults + 1
          /\ dirty' = "no"
          /\ age' = 0
          /\ Disarm
          /\ UNCHANGED <<file, failing, rest>>
    /\ UNCHANGED <<db, life>>

(* The timer fires: one is armed only while something is dirty. *)
Fire ==
    /\ Due
    /\ (Saved /\ Disarm) \/ (Kept /\ Arm(Retry))
    /\ UNCHANGED <<db, life>>

(* safeFinalFlush: flush past wireAutoFlush, whose state does not change. *)
FinalFlush ==
    /\ \/ file' = db /\ UNCHANGED faults
       \/ faults < MaxFaults /\ faults' = faults + 1 /\ UNCHANGED file
    /\ UNCHANGED <<db, bufferVars, timerVars, failing, rest>>

(* Menu "exit" or "port": flush, then await app.close(), in which requests *)
(* still under way may write.                                              *)
Leave ==
    /\ life = "open"
    /\ life' = "stopping"
    /\ FinalFlush

(* Mutant: db.close() is the original one. *)
CloseDbOnly ==
    /\ life = "stopping"
    /\ life' = "stopped"
    /\ Disarm
    /\ UNCHANGED <<db, file, bufferVars, failing, rest, faults>>

(* After it: db.close() flushes what is dirty and disarms the timer. *)
CloseDb ==
    /\ life = "stopping"
    /\ \/ dirty = "no" /\ life' = "stopped" /\ UNCHANGED <<file, bufferVars, failing, rest, faults>>
       \/ dirty = "yes" /\ life' = "stopped" /\ Saved
       \/ dirty = "yes" /\ life' = "lost" /\ Kept
    /\ Disarm
    /\ UNCHANGED db

(* SIGINT or SIGTERM: flush and exit. *)
Signal ==
    /\ Running
    /\ FinalFlush
    /\ life' = IF file' = db THEN "stopped" ELSE "lost"

Next == Write \/ Tick \/ Fire \/ Leave \/ CloseDb \/ Signal

(* Time passes, and a timer that is due fires; nobody has to stop it.      *)
Fairness == WF_vars(Tick) /\ WF_vars(Fire)

Spec == Init /\ [][Next]_vars
FairSpec == Spec /\ Fairness
-----------------------------------------------------------------------------
FlushTypeOK ==
    /\ db \in Nat /\ file \in Nat /\ age \in Nat /\ left \in Nat /\ rest \in Nat
    /\ faults \in Nat
    /\ dirty \in {"yes", "no"}
    /\ timer \in {"on", "off"}
    /\ failing \in {"yes", "no"}
    /\ life \in {"open", "stopping", "stopped", "lost"}

(* A write that is not in the file has a timer that will save it, whatever *)
(* failed before.                                                          *)
UnsavedScheduled == Running /\ file # db => dirty = "yes" /\ timer = "on"

(* While flushing works, no write waits longer than the cap, however the   *)
(* writes that follow it push the debounce timer on.                       *)
WaitBounded == Running /\ failing = "no" /\ dirty = "yes" => age + left <= MaxDelay

(* While flushing fails, attempts are Retry apart, however many writes are *)
(* made meanwhile (the comment in onWrite).                                *)
BackoffKept == Running /\ failing = "yes" => timer = "on" /\ rest + left = Retry

(* A stop whose last flush worked leaves nothing behind, also what was     *)
(* written between the final flush and db.close().                         *)
StopSavesAll == life = "stopped" => file = db

(* What a failing disk held back is saved once it works again. *)
EventuallySaved == (file # db) ~> (file = db \/ ~Running)

(* The inductive invariant. *)
FlushInv ==
    /\ FlushTypeOK
    /\ UnsavedScheduled
    /\ WaitBounded
    /\ BackoffKept
    /\ StopSavesAll
    /\ Running => (timer = "on" <=> dirty = "yes")
    /\ dirty = "no" => age = 0 /\ failing = "no"
=============================================================================
