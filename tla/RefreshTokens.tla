---------------------------- MODULE RefreshTokens ----------------------------
(***************************************************************************)
(* What the authentication of the API promises about refresh tokens, said  *)
(* without requests, rows, locks or clocks: every token belongs to the     *)
(* family of one login, it can be exchanged once for one successor of the  *)
(* same family, and a token that was closed never works again.             *)
(*                                                                         *)
(* Sessions implements this specification (ImplementsRefreshTokens).       *)
(***************************************************************************)
CONSTANTS Token,   \* the refresh tokens the API may ever hand out
          None     \* no token

VARIABLES family,  \* the login each token comes from, None until handed out
          live     \* the tokens that can still be exchanged

vars == <<family, live>>

-----------------------------------------------------------------------------

Init ==
  /\ family = [t \in Token |-> None]
  /\ live = {}

\* A login hands out the first token of a new family.
Login(t) ==
  /\ family[t] = None
  /\ family' = [family EXCEPT ![t] = t]
  /\ live' = live \cup {t}

\* A live token is exchanged: it dies and its successor is born in one step.
Redeem(t, successor) ==
  /\ t \in live
  /\ family[successor] = None
  /\ family' = [family EXCEPT ![successor] = family[t]]
  /\ live' = (live \ {t}) \cup {successor}

\* A logout, an alarm, the end of an account or the cleaning of old rows.
Close(S) ==
  /\ live' = live \ S
  /\ UNCHANGED family

Next ==
  \/ \E t \in Token : Login(t)
  \/ \E t, successor \in Token : Redeem(t, successor)
  \/ \E S \in SUBSET Token : Close(S)

Spec == Init /\ [][Next]_vars

=============================================================================
