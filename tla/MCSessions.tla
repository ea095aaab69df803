----------------------------- MODULE MCSessions -----------------------------
(***************************************************************************)
(* Small instances of Sessions for TLC.                                    *)
(***************************************************************************)
EXTENDS Sessions, TLC

\* Every account belongs to the one business of the instance.
OneTenant == [u \in User |-> CHOOSE t \in Tenant : TRUE]

\* Requests are interchangeable.
RequestSymmetry == Permutations(Request)

=============================================================================
