---------------------------- MODULE MCChangeForm ----------------------------
(* A small instance of ChangeForm: which repository is which does not matter. *)
EXTENDS ChangeForm, TLC

Symmetry == Permutations(Repos)
=============================================================================
