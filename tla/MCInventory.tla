---------------------------- MODULE MCInventory ----------------------------
(***************************************************************************)
(* Instances of Inventory for TLC.                                         *)
(***************************************************************************)
EXTENDS Inventory, TLC

\* The request slots are interchangeable: they only say who holds a lock.
ClientSymmetry == Permutations(Client)

=============================================================================
