------------------------ MODULE JobEngineRefinement ------------------------
(***************************************************************************)
(* The job engine, used the way the wizard uses it by a user who waits for *)
(* each answer (PatientSpec), implements BulkUpdate: requests, snapshots   *)
(* and tasks disappear, a started run is the batch.                        *)
(***************************************************************************)
EXTENDS JobEngineWizard

StageOf(j) ==
    CASE j = "PREVIEWING" -> "preparing"
      [] j = "READY" -> "open"
      [] j = "RUNNING" -> "running"
      [] OTHER -> j

OutcomeOf(s) ==
    CASE s = "NONE" -> "none"
      [] s = "DIFF_COMPUTED" -> "todo"
      [] s = "FAILED" -> "failed"
      [] OTHER -> "ok"

Abstract == INSTANCE BulkUpdate WITH
    stage <- StageOf(job),
    outcome <- [r \in Rows |-> OutcomeOf(status[r])],
    batch <- UNION {Batch(c) : c \in Calls}

(* Safety: every step of the engine is a step of the promise, or nothing   *)
(* the promise speaks of.                                                  *)
ImplementsBulkUpdate == Abstract!Spec

(* Liveness: preparing, settling and ending are not put off for ever.      *)
CarriesOutBulkUpdate == Abstract!Progress
=============================================================================
