----------------------------- MODULE StockBook -----------------------------
(***************************************************************************)
(* What the stock operations of an inventory item promise when nobody else *)
(* touches the item: stock enters in batches and leaves them oldest expiry *)
(* first, one branch at a time, never more than there is.                  *)
(***************************************************************************)
EXTENDS Naturals

CONSTANTS
  Batch,      \* ids of batches
  Branch,
  Day,        \* dates
  NoExpiry    \* expiry of what never expires, after every day

VARIABLES
  shelf,      \* branch of each batch received, by id
  expiry,     \* its expiry
  onHand,     \* units left in it
  asOf        \* the date of the withdrawal under way

vars == <<shelf, expiry, onHand, asOf>>

Received == DOMAIN shelf

Init ==
  /\ shelf = <<>>
  /\ expiry = <<>>
  /\ onHand = <<>>
  /\ asOf \in Day

With(f, b, v) == [x \in DOMAIN f \cup {b} |-> IF x = b THEN v ELSE f[x]]

\* A delivery is a new batch.
Receive(b) ==
  /\ b \notin Received
  /\ \E x \in Branch : shelf' = With(shelf, b, x)
  /\ \E d \in Day \cup {NoExpiry} : expiry' = With(expiry, b, d)
  /\ onHand' = With(onHand, b, onHand'[b])
  /\ onHand'[b] > 0
  /\ UNCHANGED asOf

\* A withdrawal names its date before it takes anything.
Name(day) ==
  /\ asOf' = day
  /\ UNCHANGED <<shelf, expiry, onHand>>

\* Batches of branch x from which units can leave on that date.
Usable(x) == {b \in Received : shelf[b] = x /\ onHand[b] > 0 /\ asOf <= expiry[b]}

\* Units leave usable batches only, and none leaves a batch while one that
\* expires earlier still has some.
Withdraw(x) ==
  /\ Received # {}
  /\ UNCHANGED <<shelf, expiry, asOf>>
  /\ onHand' # onHand
  /\ DOMAIN onHand' = Received
  /\ \A b \in Received :
       /\ onHand'[b] \in 0 .. onHand[b]
       /\ onHand'[b] < onHand[b] =>
            /\ b \in Usable(x)
            /\ \A c \in Usable(x) : expiry[c] < expiry[b] => onHand'[c] = 0

Next ==
  \/ \E b \in Batch : Receive(b)
  \/ \E day \in Day : Name(day)
  \/ \E x \in Branch : Withdraw(x)

Spec == Init /\ [][Next]_vars

=============================================================================
