--------------------------- MODULE MCInventorySync ---------------------------
(* Instances of InventorySync for TLC. *)
EXTENDS InventorySync, TLC
===============================================================================
