------------------------------ MODULE MCItems -------------------------------
(***************************************************************************)
(* The list of items for TLC: two businesses and two requests whose        *)
(* questions and writes overlap.                                           *)
(***************************************************************************)
EXTENDS Items, TLC

Symmetry ==
  Permutations(Caller) \cup Permutations(Business) \cup Permutations(Name)
    \cup Permutations(Unit)
=============================================================================
