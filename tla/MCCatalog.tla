----------------------------- MODULE MCCatalog ------------------------------
(***************************************************************************)
(* The catalogue for TLC: two businesses, two requests, two costs and two  *)
(* prices, so that a request may mix the price of one offer with the cost  *)
(* of the other.                                                           *)
(***************************************************************************)
EXTENDS Catalog, TLC

Symmetry ==
  Permutations(Request) \cup Permutations(Business)
=============================================================================
