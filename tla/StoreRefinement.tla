-------------------------- MODULE StoreRefinement --------------------------
(***************************************************************************)
(* Interrupted anywhere, and with any system call failing, EncryptedStore  *)
(* is a DurableStore: a copy is what a directory would be loaded as.       *)
(***************************************************************************)
EXTENDS EncryptedStore

Durable == INSTANCE DurableStore WITH
    mem <- IF stage = "serving" THEN db ELSE 0,
    stored <- Loadable(dir),
    older <- Loadable(journal),
    up <- IF stage = "serving" THEN "yes" ELSE "no"

(* Publishing the file is the only step that changes the copy, and a start *)
(* has the copy: also the first one after an upgrade, with its sidecars.   *)
ImplementsDurableStore == Durable!Spec
=============================================================================
