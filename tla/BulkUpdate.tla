----------------------------- MODULE BulkUpdate -----------------------------
(***************************************************************************)
(* What a bulk-update job promises, without requests, snapshots or tasks:  *)
(* every repository is prepared, then the job is carried out in batches;   *)
(* a batch is everything still to do, or everything that failed; a row in  *)
(* a batch gets one outcome; "ok" is final; and the verdict means what the *)
(* comment over computeJobFinalStatus (jobQueue.ts:25-28) says it means.   *)
(***************************************************************************)
EXTENDS FiniteSets

CONSTANT Rows

VARIABLES
    stage,      \* "preparing", "open", "running" or the verdict
    outcome,    \* of each row: "none", "todo", "failed" or "ok"
    batch       \* the rows of the current batch without an outcome yet

vars == <<stage, outcome, batch>>

With(o) == {r \in Rows : outcome[r] = o}

Verdict ==
    IF With("ok") = Rows THEN "COMPLETED"
    ELSE IF With("failed") = Rows THEN "FAILED"
    ELSE "PARTIAL_FAILURE"

Init ==
    /\ stage = "preparing"
    /\ outcome = [r \in Rows |-> "none"]
    /\ batch = {}

(* The job is open with its last row. *)
Prepare(r) ==
    /\ stage = "preparing"
    /\ outcome[r] = "none"
    /\ \E o \in {"todo", "failed"} : outcome' = [outcome EXCEPT ![r] = o]
    /\ stage' = IF With("none") = {r} THEN "open" ELSE "preparing"
    /\ UNCHANGED batch

Begin ==
    /\ \/ stage = "open" /\ batch' = With("todo")
       \/ stage \in {"PARTIAL_FAILURE", "FAILED"} /\ batch' = With("failed")
    /\ batch' # {}
    /\ stage' = "running"
    /\ UNCHANGED outcome

Settle(r) ==
    /\ r \in batch
    /\ batch' = batch \ {r}
    /\ \E o \in {"ok", "failed"} : outcome' = [outcome EXCEPT ![r] = o]
    /\ UNCHANGED stage

(* A job ends only once it has come round to every row. *)
End ==
    /\ stage = "running"
    /\ batch = {}
    /\ With("todo") = {}
    /\ stage' = Verdict
    /\ UNCHANGED <<outcome, batch>>

Next == Begin \/ End \/ \E r \in Rows : Prepare(r) \/ Settle(r)

Work == End \/ \E r \in Rows : Prepare(r) \/ Settle(r)

Spec == Init /\ [][Next]_vars

Progress == WF_vars(Work)
=============================================================================
