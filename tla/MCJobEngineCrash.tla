-------------------------- MODULE MCJobEngineCrash --------------------------
(* Small instances of JobEngineCrash. *)
EXTENDS JobEngineCrash, TLC

Symmetry == Permutations(Rows) \cup Permutations(Calls)
=============================================================================
