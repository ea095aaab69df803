----------------------------- MODULE MCGateway ------------------------------
(***************************************************************************)
(* The gateway for TLC: two requests in flight, each as it should be or    *)
(* wrong in one or two ways.                                               *)
(***************************************************************************)
EXTENDS Gateway

Good ==
  [does |-> "change", safe |-> FALSE, origin |-> "ours", token |-> "good", tenants |-> {"own"},
   valid |-> TRUE]

\* Of whom nothing is known.
Anyone(does) == [Good EXCEPT !.does = does, !.token = "none", !.tenants = {}]

MCSent ==
  {Good, [Good EXCEPT !.does = "read", !.safe = TRUE, !.origin = "foreign"],
   [Good EXCEPT !.does = "create"], [Good EXCEPT !.does = "configure"],
   [Good EXCEPT !.origin = "foreign"], [Good EXCEPT !.token = "bad"],
   [Good EXCEPT !.tenants = {"own", "other"}],
   [Good EXCEPT !.valid = FALSE, !.origin = "none"]}
  \cup {Anyone(does) : does \in Public}

=============================================================================
