------------------------------- MODULE MCSeed -------------------------------
(***************************************************************************)
(* The seed for TLC: one business in the plan and one that is not, two     *)
(* calls that may overlap, and a client.                                   *)
(***************************************************************************)
EXTENDS Seed

MCPlan == <<"test">>
=============================================================================
