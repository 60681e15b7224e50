---------------------------- MODULE DurableStore ----------------------------
(***************************************************************************)
(* What db.ts promises the rest of the process: the database is in memory, *)
(* a copy of one moment of it is on disk, the process may die at any time, *)
(* and a process that starts has the copy; a power failure may bring an    *)
(* earlier one back.  JobEngineCrash assumes it, without power failures.   *)
(***************************************************************************)
EXTENDS Naturals

VARIABLES
    mem,       \* the database, 0 while no process has loaded it
    stored,    \* the copy
    older,     \* the copy the disk is sure to have: this one or an earlier one
    up         \* "yes" while a process serves the database

vars == <<mem, stored, older, up>>

Init == mem = 0 /\ stored \in Nat /\ older = stored /\ up = "no"

(* The disk may catch up whenever the file is written. *)
Settle == older' \in {older, stored}

Start == up = "no" /\ up' = "yes" /\ mem' = stored /\ Settle /\ UNCHANGED stored

Change == up = "yes" /\ mem' = mem + 1 /\ UNCHANGED <<stored, older, up>>

Save == up = "yes" /\ stored' = mem /\ Settle /\ UNCHANGED <<mem, up>>

Rewrite == Settle /\ UNCHANGED <<mem, stored, up>>

Die == up' = "no" /\ mem' = 0 /\ UNCHANGED <<stored, older>>

Outage == up' = "no" /\ mem' = 0 /\ stored' \in {stored, older} /\ older' = stored'

Next == Start \/ Change \/ Save \/ Rewrite \/ Die \/ Outage

Spec == Init /\ [][Next]_vars
=============================================================================
