----------------------------- MODULE MCInventory -----------------------------
(***************************************************************************)
(* Model-checking instance of Inventory and DirtyIntents.  Paths are       *)
(* numbers because the inventory orders them.                              *)
(***************************************************************************)
EXTENDS Inventory
=============================================================================
