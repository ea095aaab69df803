----------------------------- MODULE MCRegistry -----------------------------
(***************************************************************************)
(* Instances of Registry for TLC.                                          *)
(***************************************************************************)
EXTENDS Registry, TLC

RegistrySymmetry == Permutations(Request) \cup Permutations(Name)

=============================================================================
