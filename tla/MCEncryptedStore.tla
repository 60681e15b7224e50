-------------------------- MODULE MCEncryptedStore --------------------------
(* Small instances of EncryptedStore and its refinement. *)
EXTENDS StoreRefinement
=============================================================================
