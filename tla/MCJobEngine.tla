---------------------------- MODULE MCJobEngine ----------------------------
(* Small instances of JobEngine, of the wizard and of its refinement.  The *)
(* rows of the runs without liveness, and their requests, are              *)
(* interchangeable.                                                        *)
EXTENDS JobEngineRefinement, TLC

Symmetry == Permutations(Rows) \cup Permutations(Calls)
=============================================================================
