--------------------------- MODULE MCJobProgress ---------------------------
(* A small instance of JobProgress. *)
EXTENDS JobProgress
=============================================================================
