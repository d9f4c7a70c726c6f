---------------------------- MODULE MCInventory ----------------------------
(***************************************************************************)
(* Small instances of Inventory: two buckets of up to three objects, in    *)
(* pages of two.                                                           *)
(***************************************************************************)
EXTENDS Inventory

MCModes == BOOLEAN
=============================================================================
