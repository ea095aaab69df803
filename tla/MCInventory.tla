----------------------------- MODULE MCInventory -----------------------------
(***************************************************************************)
(* Instances of Inventory for TLC.                                         *)
(***************************************************************************)
EXTENDS Inventory

InventorySymmetry == Permutations(Request) \cup Permutations(Branch)

=============================================================================
