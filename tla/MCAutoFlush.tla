---------------------------- MODULE MCAutoFlush ----------------------------
(* A small instance of AutoFlush. *)
EXTENDS AutoFlush
=============================================================================
