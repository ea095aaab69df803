----------------------------- MODULE SeedProofs -----------------------------
(***************************************************************************)
(* Proofs about the seed: whatever calls overlap and whatever clients      *)
(* insert, a removal takes its businesses away whole; and whatever they    *)
(* left, a call that is alone and meets no failure puts the plan in place. *)
(*                                                                         *)
(* Every table has an anchor, a table its foreign keys always name and     *)
(* whose rows cannot go before its own: the branches for movements and     *)
(* batches, the items for recipes, the business for the rest.  The         *)
(* invariant says that no row is without its anchor and that no row that   *)
(* stays has an anchor that goes: a statement that would leave one fails,  *)
(* and nobody inserts a row under an anchor that is going.  So when the    *)
(* businesses themselves are gone, nothing of theirs is left.              *)
(*                                                                         *)
(* Of a call that is alone a second invariant (AloneInv) says how far it   *)
(* has come: what its removal has emptied, and which slugs its creation    *)
(* has completed, has under way, and has not begun.                        *)
(***************************************************************************)
EXTENDS Seed, FiniteSetTheorems, WellFoundedInduction, TLAPS

Anchor(t) ==
  IF t \in {"movements", "batches"} THEN "branches"
  ELSE IF t = "recipes" THEN "items"
  ELSE "tenants"

AnchorOf(x) == [table |-> Anchor(x.table), of |-> x.of]

-----------------------------------------------------------------------------
(***************************************************************************)
(* The invariant.                                                          *)
(***************************************************************************)

Record ==
  [phase : Phase, at : Nat, turn : Nat, chosen : SUBSET Nat, made : SUBSET Nat,
   doomed : SUBSET [table : Table, of : Nat], alone : BOOLEAN, faulty : BOOLEAN]

\* A removal in its transaction: what it has deleted is of the businesses it
\* chose, what is left of them keeps its anchor, and after the last statement
\* the businesses themselves are gone.
Deleting(r) ==
  /\ run[r].at \in 1 .. Len(Deletes) + 1
  /\ \A b \in run[r].chosen : business[b] \in ToSet(Plan)
  /\ \A x \in run[r].doomed : x \in rows /\ x.of \in run[r].chosen
  /\ \A x \in Remaining(r) : AnchorOf(x) \notin run[r].doomed
  /\ run[r].at > Len(Deletes) => \A x \in Remaining(r) : x.table # "tenants"

\* A creation, somewhere in its saves.
Creating(r) ==
  /\ run[r].at \in 1 .. Len(Saves)
  /\ run[r].turn \in 1 .. Len(Plan)
  /\ run[r].at > 1 => run[r].made # {}

RunFits(r) ==
  /\ run[r].chosen \cup run[r].made \subseteq 1 .. Newest
  /\ IF IsAt(r, "delete") THEN Deleting(r) ELSE run[r].doomed = {}
  /\ IsAt(r, "create") => Creating(r)

Anchored == \A x \in rows : AnchorOf(x) \in rows

TablesOk ==
  /\ business \in Seq(Slug)
  /\ closed \subseteq 1 .. Newest
  /\ rows \subseteq [table : Table, of : 1 .. Newest]
  /\ written \in 0 .. MaxClient
  /\ Anchored

\* No row is deleted by two open transactions.
Apart == \A q, r \in Run : q # r => run[q].doomed \cap run[r].doomed = {}

IInv ==
  /\ TablesOk
  /\ run \in [Run -> Record]
  /\ \A r \in Run : RunFits(r)
  /\ Apart

-----------------------------------------------------------------------------
(***************************************************************************)
(* Tables and their anchors.                                               *)
(***************************************************************************)

LEMMA LengthsAre ==
  /\ Len(Deletes) = 10 /\ Deletes[10] = "tenants"
  /\ Len(Saves) = 8 /\ Saves[1] = {"tenants"}
BY DEF Deletes, Saves

LEMMA TablesAre ==
  Table = {"sessions", "movements", "recipes", "products", "categories", "batches",
           "items", "users", "branches", "tenants", "prices"}
<1>1. DOMAIN Deletes = 1 .. 10
  BY DEF Deletes
<1>2. ToSet(Deletes) = {Deletes[i] : i \in 1 .. 10}
  BY <1>1 DEF ToSet
<1>3. 1 .. 10 = {1, 2, 3, 4, 5, 6, 7, 8, 9, 10}
  OBVIOUS
<1>4. ToSet(Deletes) =
        {"sessions", "movements", "recipes", "products", "categories", "batches",
         "items", "users", "branches", "tenants"}
  BY <1>2, <1>3 DEF Deletes
<1>5. QED
  BY <1>4 DEF Table

\* A foreign key of every table names its anchor.
LEMMA AnchorsRestrict ==
  ASSUME NEW t \in Table, t # "tenants"
  PROVE  Anchor(t) \in Restricting(t) /\ Anchor(t) \in Table
<1>1. CASE t = "sessions"
  BY <1>1, TablesAre DEF Anchor, Restricting
<1>2. CASE t \in {"movements", "batches"}
  BY <1>2, TablesAre DEF Anchor, Restricting
<1>3. CASE t = "recipes"
  BY <1>3, TablesAre DEF Anchor, Restricting
<1>4. CASE t = "prices"
  BY <1>4, TablesAre DEF Anchor, Restricting
<1>5. CASE t = "products"
  BY <1>5, TablesAre DEF Anchor, Restricting
<1>6. CASE t = "users"
  BY <1>6, TablesAre DEF Anchor, Restricting
<1>7. CASE t \in {"categories", "items", "branches"}
  BY <1>7, TablesAre DEF Anchor, Restricting
<1>8. QED
  BY <1>1, <1>2, <1>3, <1>4, <1>5, <1>6, <1>7, TablesAre

\* Following the anchors leads to the business in three steps at most.
LEMMA AnchorsEnd ==
  ASSUME NEW t \in Table
  PROVE  Anchor(Anchor(Anchor(t))) = "tenants" /\ Anchor("tenants") = "tenants"
BY DEF Anchor

\* No save after the first brings the anchor of one of its rows.
LEMMA SavesNeedAnchors ==
  ASSUME NEW i \in 2 .. 8, NEW t \in Saves[i]
  PROVE  t \in Table /\ t # "tenants" /\ Anchor(t) \notin Saves[i]
<1>1. i \in {2, 3, 4, 5, 6, 7, 8}
  OBVIOUS
<1>2. CASE i = 2
  BY <1>2, TablesAre DEF Saves, Anchor
<1>3. CASE i = 3
  BY <1>3, TablesAre DEF Saves, Anchor
<1>4. CASE i = 4
  BY <1>4, TablesAre DEF Saves, Anchor
<1>5. CASE i = 5
  BY <1>5, TablesAre DEF Saves, Anchor
<1>6. CASE i = 6
  BY <1>6, TablesAre DEF Saves, Anchor
<1>7. CASE i = 7
  BY <1>7, TablesAre DEF Saves, Anchor
<1>8. CASE i = 8
  BY <1>8, TablesAre DEF Saves, Anchor
<1>9. QED
  BY <1>1, <1>2, <1>3, <1>4, <1>5, <1>6, <1>7, <1>8

\* The anchor of a row is one of its parents.
LEMMA AnchorIsParent ==
  ASSUME NEW x, x.table \in Table, x.table # "tenants"
  PROVE  AnchorOf(x) \in Parents(x)
BY AnchorsRestrict DEF Parents, In, AnchorOf

\* A row of a business is not without the business.
Housed == \A x \in rows : [table |-> "tenants", of |-> x.of] \in rows

LEMMA NoOrphans == TablesOk => Housed
<1>1. SUFFICES ASSUME TablesOk, NEW x \in rows
               PROVE  [table |-> "tenants", of |-> x.of] \in rows
  BY DEF Housed
<1>2. x \in [table : Table, of : 1 .. Newest]
  BY <1>1 DEF TablesOk
<1>3. AnchorOf(x) \in rows
  BY <1>1 DEF TablesOk, Anchored
<1>4. AnchorOf(AnchorOf(x)) \in rows
  BY <1>1, <1>3 DEF TablesOk, Anchored
<1>5. AnchorOf(AnchorOf(AnchorOf(x))) \in rows
  BY <1>1, <1>4 DEF TablesOk, Anchored
<1>6. AnchorOf(AnchorOf(AnchorOf(x))) = [table |-> "tenants", of |-> x.of]
  BY <1>2, AnchorsEnd DEF AnchorOf
<1>7. QED
  BY <1>5, <1>6

-----------------------------------------------------------------------------
(***************************************************************************)
(* What a step does to the calls.                                          *)
(***************************************************************************)

\* A call of which others notice at most that they are not alone.
Same(q) ==
  /\ run'[q].phase = run[q].phase /\ run'[q].at = run[q].at
  /\ run'[q].turn = run[q].turn /\ run'[q].chosen = run[q].chosen
  /\ run'[q].made = run[q].made /\ run'[q].doomed = run[q].doomed

\* Call r becomes s and the others stay.
Moves(r, s) ==
  /\ run' \in [Run -> Record]
  /\ run'[r] = s
  /\ \A q \in Run \ {r} : Same(q)

LEMMA NoticedSame ==
  ASSUME run \in [Run -> Record], NEW S, NEW q \in Run
  PROVE  /\ Noticed(S)[q] \in Record
         /\ Noticed(S)[q].phase = run[q].phase /\ Noticed(S)[q].at = run[q].at
         /\ Noticed(S)[q].turn = run[q].turn /\ Noticed(S)[q].chosen = run[q].chosen
         /\ Noticed(S)[q].made = run[q].made /\ Noticed(S)[q].doomed = run[q].doomed
<1>1. run[q] \in Record
  OBVIOUS
<1>2. CASE q \in S \/ IsAt(q, "idle")
  BY <1>1, <1>2 DEF Noticed
<1>3. CASE ~(q \in S \/ IsAt(q, "idle"))
  <2>1. Noticed(S)[q] = [run[q] EXCEPT !.alone = FALSE]
    BY <1>3 DEF Noticed
  <2>2. QED
    BY <1>1, <2>1 DEF Record
<1>4. QED
  BY <1>2, <1>3

LEMMA BecomesMoves ==
  ASSUME run \in [Run -> Record], NEW r \in Run, NEW s \in Record, Becomes(r, s)
  PROVE  Moves(r, s)
<1>1. run' \in [Run -> Record]
  BY DEF Becomes
<1>2. run'[r] = s
  BY DEF Becomes
<1>3. ASSUME NEW q \in Run \ {r}  PROVE  run'[q] = run[q]
  BY DEF Becomes
<1>4. QED
  BY <1>1, <1>2, <1>3 DEF Moves, Same

LEMMA BecomesNoticedMoves ==
  ASSUME run \in [Run -> Record], NEW r \in Run, NEW s \in Record, BecomesNoticed(r, s)
  PROVE  Moves(r, s)
<1>1. run' = [q \in Run |-> IF q = r THEN s ELSE Noticed({r})[q]]
  BY DEF BecomesNoticed, Noticed
<1>2. \A q \in Run : Noticed({r})[q] \in Record
  BY NoticedSame
<1>3. run' \in [Run -> Record]
  BY <1>1, <1>2
<1>4. run'[r] = s
  BY <1>1
<1>5. ASSUME NEW q \in Run \ {r}  PROVE  Same(q)
  <2>1. run'[q] = Noticed({r})[q]
    BY <1>1
  <2>2. QED
    BY <2>1, NoticedSame DEF Same
<1>6. QED
  BY <1>3, <1>4, <1>5 DEF Moves

LEMMA ClientMoves ==
  ASSUME run \in [Run -> Record], ClientWrites
  PROVE  run' \in [Run -> Record] /\ \A q \in Run : Same(q)
<1>1. run' = Noticed({})
  BY DEF ClientWrites
<1>2. run' = [q \in Run |-> Noticed({})[q]]
  BY <1>1 DEF Noticed
<1>3. \A q \in Run : Noticed({})[q] \in Record
  BY NoticedSame
<1>4. run' \in [Run -> Record]
  BY <1>2, <1>3
<1>5. ASSUME NEW q \in Run  PROVE  Same(q)
  <2>1. run'[q] = Noticed({})[q]
    BY <1>2
  <2>2. QED
    BY <2>1, NoticedSame DEF Same
<1>6. QED
  BY <1>4, <1>5

\* What others do to the tables without disturbing call q: businesses are only
\* added, what q has deleted is still there for others to see, and a new row of
\* a business that q removes stands on an anchor that q has not deleted.
Spared(q) ==
  /\ Newest <= Newest'
  /\ \A b \in 1 .. Newest : business'[b] = business[b]
  /\ run[q].doomed \subseteq rows'
  /\ \A x \in rows' \ rows :
       x.of \in run[q].chosen => AnchorOf(x) \notin run[q].doomed /\ x.table # "tenants"

LEMMA SparedFits ==
  ASSUME NEW q \in Run, run \in [Run -> Record], business \in Seq(Slug),
         business' \in Seq(Slug), RunFits(q), Same(q), Spared(q)
  PROVE  RunFits(q)'
<1>1. Newest \in Nat /\ Newest' \in Nat
  BY DEF Newest
<1>2. 1 .. Newest \subseteq 1 .. Newest'
  BY <1>1 DEF Spared
<1>3. (run[q].chosen \cup run[q].made \subseteq 1 .. Newest)'
  BY <1>2 DEF RunFits, Same
<1>4. IsAt(q, "delete")' <=> IsAt(q, "delete")
  BY DEF IsAt, Same
<1>5. IsAt(q, "create")' <=> IsAt(q, "create")
  BY DEF IsAt, Same
<1>6. ASSUME IsAt(q, "create")  PROVE  Creating(q)'
  BY <1>6 DEF RunFits, Creating, Same
<1>7. ASSUME IsAt(q, "delete")  PROVE  Deleting(q)'
  <2>1. Deleting(q)
    BY <1>7 DEF RunFits
  <2>2. \A x \in run'[q].doomed : x \in rows' /\ x.of \in run'[q].chosen
    BY <2>1 DEF Deleting, Same, Spared
  <2>3. \A b \in run'[q].chosen : business'[b] \in ToSet(Plan)
    BY <2>1 DEF Deleting, Same, Spared, RunFits
  <2>4. ASSUME NEW x \in Remaining(q)'  PROVE  x \in Remaining(q) \/ x \in rows' \ rows
    BY <2>4 DEF Remaining, Same
  <2>5. ASSUME NEW x \in Remaining(q)'  PROVE  x.of \in run[q].chosen
    BY <2>5 DEF Remaining, Same
  <2>6. ASSUME NEW x \in Remaining(q)'  PROVE  AnchorOf(x) \notin run'[q].doomed
    BY <2>1, <2>4, <2>5, <2>6 DEF Deleting, Same, Spared
  <2>7. ASSUME run'[q].at > Len(Deletes), NEW x \in Remaining(q)'  PROVE  x.table # "tenants"
    BY <2>1, <2>4, <2>5, <2>7 DEF Deleting, Same, Spared
  <2>8. run'[q].at \in 1 .. Len(Deletes) + 1
    BY <2>1 DEF Deleting, Same
  <2>9. QED
    BY <2>2, <2>3, <2>6, <2>7, <2>8 DEF Deleting
<1>8. ~IsAt(q, "delete") => run'[q].doomed = {}
  BY DEF RunFits, Same
<1>9. QED
  BY <1>3, <1>4, <1>5, <1>6, <1>7, <1>8 DEF RunFits

\* A step of call r keeps the invariant if it leaves the tables and r itself
\* in order and spares the other calls.
LEMMA StepKeeps ==
  ASSUME IInv, NEW r \in Run, NEW s \in Record, Moves(r, s), TablesOk',
         RunFits(r)', \A q \in Run \ {r} : Spared(q),
         \A q \in Run \ {r} : s.doomed \cap run[q].doomed = {}
  PROVE  IInv'
<1>1. ASSUME NEW q \in Run \ {r}  PROVE  RunFits(q)'
  BY <1>1, SparedFits DEF IInv, TablesOk, Moves
<1>2. \A q \in Run : RunFits(q)'
  BY <1>1
<1>3. ASSUME NEW p \in Run, NEW q \in Run, p # q
      PROVE  run'[p].doomed \cap run'[q].doomed = {}
  <2>1. CASE p = r
    <3>1. run'[q].doomed = run[q].doomed
      BY <1>3, <2>1 DEF Moves, Same
    <3>2. QED
      BY <1>3, <2>1, <3>1 DEF Moves
  <2>2. CASE q = r
    <3>1. run'[p].doomed = run[p].doomed
      BY <1>3, <2>2 DEF Moves, Same
    <3>2. QED
      BY <1>3, <2>2, <3>1 DEF Moves
  <2>3. CASE p # r /\ q # r
    <3>1. run'[p].doomed = run[p].doomed /\ run'[q].doomed = run[q].doomed
      BY <2>3 DEF Moves, Same
    <3>2. QED
      BY <1>3, <3>1 DEF IInv, Apart
  <2>4. QED
    BY <2>1, <2>2, <2>3
<1>4. QED
  BY <1>2, <1>3 DEF IInv, Apart, Moves

-----------------------------------------------------------------------------
(***************************************************************************)
(* One lemma for each action.                                              *)
(***************************************************************************)

\* A step that leaves the tables alone spares every other call.
LEMMA TablesStay ==
  ASSUME IInv, UNCHANGED <<business, closed, rows, written>>
  PROVE  TablesOk' /\ \A q \in Run : Spared(q)
<1>1. TablesOk'
  BY DEF IInv, TablesOk, Anchored, Newest
<1>2. Newest \in Nat /\ Newest' = Newest
  BY DEF IInv, TablesOk, Newest
<1>3. ASSUME NEW q \in Run  PROVE  run[q].doomed \subseteq rows
  BY <1>3 DEF IInv, RunFits, Deleting
<1>4. QED
  BY <1>1, <1>2, <1>3 DEF Spared

\* A call that goes on without a transaction.
LEMMA WithoutTransaction ==
  ASSUME IInv, NEW r \in Run, NEW s \in Record, Moves(r, s),
         UNCHANGED <<business, closed, rows, written>>,
         s.phase # "delete", s.doomed = {},
         s.chosen \cup s.made \subseteq 1 .. Newest,
         s.phase = "create" => /\ s.at \in 1 .. Len(Saves)
                               /\ s.turn \in 1 .. Len(Plan)
                               /\ s.at > 1 => s.made # {}
  PROVE  IInv'
<1>1. TablesOk' /\ \A q \in Run : Spared(q)
  BY TablesStay
<1>2. RunFits(r)'
  BY DEF RunFits, Moves, IsAt, Creating, Newest
<1>3. QED
  BY <1>1, <1>2, StepKeeps

LEMMA IdleIsRecord == Idle \in Record
BY DEF Idle, Record, Phase

LEMMA FailedIs ==
  ASSUME run \in [Run -> Record], NEW r \in Run
  PROVE  /\ Failed(r) \in Record
         /\ Failed(r).phase = "failed" /\ Failed(r).doomed = {}
         /\ Failed(r).chosen = run[r].chosen /\ Failed(r).made = run[r].made
         /\ Failed(r).alone = run[r].alone
BY DEF Failed, Record, Phase

LEMMA PlanHasFirst == Len(Plan) \in Nat /\ 1 \in 1 .. Len(Plan)
BY PlanAssumption

LEMMA CallKeeps ==
  ASSUME IInv, NEW r \in Run, Call(r)
  PROVE  IInv'
<1> DEFINE s == [Idle EXCEPT !.phase = "select", !.alone = \A q \in Run : ~InFlight(q)]
<1>1. s \in Record /\ s.phase = "select" /\ s.doomed = {} /\ s.chosen = {} /\ s.made = {}
  <2>1. (\A q \in Run : ~InFlight(q)) \in BOOLEAN
    OBVIOUS
  <2>2. QED
    BY <2>1 DEF Idle, Record, Phase
<1>2. BecomesNoticed(r, s) /\ UNCHANGED <<business, closed, rows, written>>
  BY DEF Call
<1> HIDE DEF s
<1>3. Moves(r, s)
  BY <1>1, <1>2, BecomesNoticedMoves DEF IInv
<1>4. QED
  BY <1>1, <1>2, <1>3, WithoutTransaction

LEMMA SelectKeeps ==
  ASSUME IInv, NEW r \in Run, Select(r)
  PROVE  IInv'
<1> DEFINE chosen == {b \in Businesses : business[b] \in ToSet(Plan)}
           c == [run[r] EXCEPT !.phase = "create", !.at = 1, !.turn = 1]
           d == [run[r] EXCEPT !.phase = "delete", !.at = 1, !.chosen = chosen]
<1>0. UNCHANGED <<business, closed, rows, written>>
  BY DEF Select
<1>1. run[r] \in Record /\ run[r].phase = "select" /\ RunFits(r) /\ run[r].doomed = {}
  BY DEF IInv, Select, IsAt, RunFits
<1>2. CASE chosen = {}
  <2>1. /\ c \in Record /\ c.phase = "create" /\ c.doomed = {} /\ c.at = 1 /\ c.turn = 1
        /\ c.chosen = run[r].chosen /\ c.made = run[r].made
    BY <1>1 DEF Record, Phase
  <2>2. Becomes(r, c)
    BY <1>2 DEF Select
  <2> HIDE DEF c
  <2>3. Moves(r, c)
    BY <2>1, <2>2, BecomesMoves DEF IInv
  <2>4. c.chosen \cup c.made \subseteq 1 .. Newest
    BY <1>1, <2>1 DEF RunFits
  <2>5. QED
    BY <1>0, <2>1, <2>3, <2>4, PlanHasFirst, LengthsAre, WithoutTransaction
<1>3. CASE chosen # {}
  <2>1. chosen \subseteq 1 .. Newest
    BY DEF Businesses, IInv, TablesOk
  <2>2. chosen \in SUBSET Nat
    BY DEF Businesses, BusinessId
  <2>3. \A b \in chosen : business[b] \in ToSet(Plan)
    OBVIOUS
  <2>4. Becomes(r, d)
    BY <1>3 DEF Select
  <2> HIDE DEF chosen
  <2>5. /\ d \in Record /\ d.phase = "delete" /\ d.doomed = {} /\ d.at = 1
        /\ d.chosen = chosen /\ d.made = run[r].made
    BY <1>1, <2>2 DEF Record, Phase
  <2> HIDE DEF d
  <2>6. Moves(r, d)
    BY <2>4, <2>5, BecomesMoves DEF IInv
  <2>7. TablesOk' /\ \A q \in Run : Spared(q)
    BY <1>0, TablesStay
  <2>8. Deleting(r)'
    BY <1>0, <2>3, <2>5, <2>6, LengthsAre DEF Deleting, Moves
  <2>9. RunFits(r)'
    BY <1>0, <1>1, <2>1, <2>5, <2>6, <2>8 DEF RunFits, Moves, IsAt, Newest
  <2>10. QED
    BY <2>5, <2>6, <2>7, <2>9, StepKeeps
<1>4. QED
  BY <1>2, <1>3

\* A call that fails, or whose answer has been read.
LEMMA FailingKeeps ==
  ASSUME IInv, NEW r \in Run, Becomes(r, Failed(r)),
         UNCHANGED <<business, closed, rows, written>>
  PROVE  IInv'
<1>1. Moves(r, Failed(r))
  BY FailedIs, BecomesMoves DEF IInv
<1>2. Failed(r).chosen \cup Failed(r).made \subseteq 1 .. Newest
  BY FailedIs DEF IInv, RunFits
<1>3. QED
  BY <1>1, <1>2, FailedIs, WithoutTransaction DEF IInv

LEMMA DeleteKeeps ==
  ASSUME IInv, NEW r \in Run, Delete(r)
  PROVE  IInv'
<1> DEFINE along == Along(Deletes[run[r].at])
           d == [run[r] EXCEPT !.at = @ + 1, !.doomed = @ \cup Targets(r)]
<1>0. UNCHANGED <<business, closed, rows, written>>
  BY DEF Delete
<1>1. CASE Dangling(r) # {}
  BY <1>0, <1>1, FailingKeeps DEF Delete
<1>2. CASE Dangling(r) = {}
  <2>1. run[r] \in Record /\ Deleting(r) /\ RunFits(r) /\ run[r].at \in 1 .. 10
    BY LengthsAre DEF IInv, Delete, RunFits, Deleting
  <2>2. Targets(r) \subseteq rows /\ \A x \in Targets(r) : x.of \in run[r].chosen
    BY DEF Targets, Remaining
  <2>3. rows \subseteq [table : Table, of : Nat]
    BY DEF IInv, TablesOk
  <2>4. run[r].doomed \cup Targets(r) \in SUBSET [table : Table, of : Nat]
    BY <2>1, <2>2, <2>3 DEF Record
  <2>5. Becomes(r, d) /\ run[r].phase = "delete"
    BY <1>2 DEF Delete, IsAt
  <2>6. /\ d \in Record /\ d.phase = "delete" /\ d.at = run[r].at + 1
        /\ d.chosen = run[r].chosen /\ d.made = run[r].made
        /\ d.doomed = run[r].doomed \cup Targets(r)
    <3>1. run[r].at \in Nat /\ run[r].at + 1 \in Nat
      BY <2>1
    <3>2. d.at = run[r].at + 1
      BY <2>1 DEF Record
    <3>3. d.doomed = run[r].doomed \cup Targets(r)
      BY <2>1 DEF Record
    <3>4. d.phase = "delete" /\ d.chosen = run[r].chosen /\ d.made = run[r].made
      BY <2>1, <2>5 DEF Record
    <3>5. d \in Record
      BY <2>1, <2>4, <3>1 DEF Record
    <3>6. QED
      BY <3>2, <3>3, <3>4, <3>5
  <2> HIDE DEF d
  <2>7. Moves(r, d)
    BY <2>5, <2>6, BecomesMoves DEF IInv
  <2>8. TablesOk' /\ \A q \in Run : Spared(q)
    BY <1>0, TablesStay
  <2>9. Remaining(r)' = Remaining(r) \ Targets(r)
    BY <1>0, <2>6, <2>7 DEF Remaining, Moves
  <2>10. ASSUME NEW x \in Remaining(r) \ Targets(r)  PROVE  AnchorOf(x) \notin d.doomed
    <3>1. x \in rows /\ x.table \in Table /\ x.table \notin along
      BY <2>3 DEF Remaining, Targets
    <3>2. AnchorOf(x) \notin run[r].doomed
      BY <2>1 DEF Deleting
    <3>3. ASSUME AnchorOf(x) \in Targets(r)  PROVE  FALSE
      <4>1. Anchor(x.table) \in along
        BY <3>3 DEF Targets, AnchorOf
      <4>2. x.table # "tenants"
        BY <3>1, <4>1, AnchorsEnd
      <4>3. Anchor(x.table) \in Restricting(x.table)
        BY <3>1, <4>2, AnchorsRestrict
      <4>4. x \in Dangling(r)
        BY <3>1, <4>1, <4>3 DEF Dangling
      <4>5. QED
        BY <1>2, <4>4
    <3>4. QED
      BY <2>6, <3>2, <3>3
  <2>11. ASSUME d.at > Len(Deletes), NEW x \in Remaining(r) \ Targets(r)
         PROVE  x.table # "tenants"
    <3>1. run[r].at = 10
      BY <2>1, <2>6, <2>11, LengthsAre
    <3>2. "tenants" \in along
      BY <3>1, LengthsAre DEF Along
    <3>3. QED
      BY <3>2 DEF Targets
  <2>12. Deleting(r)'
    <3>1. \A x \in Remaining(r)' : AnchorOf(x) \notin run'[r].doomed
      BY <2>7, <2>9, <2>10 DEF Moves
    <3>2. run'[r].at > Len(Deletes) => \A x \in Remaining(r)' : x.table # "tenants"
      BY <2>7, <2>9, <2>11 DEF Moves
    <3>3. run'[r].at \in 1 .. Len(Deletes) + 1
      BY <2>1, <2>6, <2>7, LengthsAre DEF Moves
    <3>4. \A b \in run'[r].chosen : business'[b] \in ToSet(Plan)
      BY <1>0, <2>1, <2>6, <2>7 DEF Moves, Deleting
    <3>5. \A x \in run'[r].doomed : x \in rows' /\ x.of \in run'[r].chosen
      BY <1>0, <2>1, <2>2, <2>6, <2>7 DEF Moves, Deleting
    <3>6. QED
      BY <3>1, <3>2, <3>3, <3>4, <3>5 DEF Deleting
  <2>13. RunFits(r)'
    BY <1>0, <2>1, <2>6, <2>7, <2>12 DEF RunFits, Moves, IsAt, Newest
  <2>14. ASSUME NEW q \in Run \ {r}  PROVE  d.doomed \cap run[q].doomed = {}
    <3>1. run[r].doomed \cap run[q].doomed = {}
      BY DEF IInv, Apart
    <3>2. Targets(r) \cap run[q].doomed = {}
      BY DEF Delete, DeleteWaits, DoomedBy
    <3>3. QED
      BY <2>6, <3>1, <3>2
  <2>15. QED
    BY <2>6, <2>7, <2>8, <2>13, <2>14, StepKeeps
<1>3. QED
  BY <1>1, <1>2

\* What the last statement leaves to be committed: all the rows of the chosen
\* businesses.
LEMMA RemovesAll ==
  ASSUME IInv, NEW r \in Run, IsAt(r, "delete"), run[r].at > Len(Deletes)
  PROVE  run[r].doomed = {x \in rows : x.of \in run[r].chosen}
<1>1. Deleting(r)
  BY DEF IInv, RunFits
<1>2. ASSUME NEW x \in Remaining(r)  PROVE  AnchorOf(x) \in Remaining(r)
  <2>1. x \in rows /\ x.of \in run[r].chosen
    BY DEF Remaining
  <2>2. AnchorOf(x) \in rows
    BY <2>1 DEF IInv, TablesOk, Anchored
  <2>3. AnchorOf(x).of = x.of
    BY DEF AnchorOf
  <2>4. AnchorOf(x) \notin run[r].doomed
    BY <1>1 DEF Deleting
  <2>5. QED
    BY <2>1, <2>2, <2>3, <2>4 DEF Remaining
<1>3. ASSUME NEW x \in Remaining(r)  PROVE  FALSE
  <2>1. AnchorOf(AnchorOf(AnchorOf(x))) \in Remaining(r)
    BY <1>2
  <2>2. x.table \in Table
    BY DEF Remaining, IInv, TablesOk
  <2>3. AnchorOf(AnchorOf(AnchorOf(x))).table = "tenants"
    BY <2>2, AnchorsEnd DEF AnchorOf
  <2>4. QED
    BY <1>1, <2>1, <2>3 DEF Deleting
<1>4. QED
  BY <1>1, <1>3 DEF Remaining, Deleting

LEMMA CommitKeeps ==
  ASSUME IInv, NEW r \in Run, Commit(r)
  PROVE  IInv'
<1> DEFINE c == [run[r] EXCEPT !.phase = "create", !.at = 1, !.turn = 1,
                               !.chosen = {}, !.doomed = {}]
<1>1. run[r] \in Record /\ RunFits(r)
  BY DEF IInv
<1>2. c \in Record
  BY <1>1 DEF Record, Phase
<1>3. c.phase = "create" /\ c.at = 1 /\ c.turn = 1
  BY <1>1 DEF Record
<1>4. c.chosen = {} /\ c.doomed = {} /\ c.made = run[r].made
  BY <1>1 DEF Record
<1>5. /\ BecomesNoticed(r, c) /\ UNCHANGED <<business, closed, written>>
      /\ rows' = rows \ run[r].doomed
  BY DEF Commit
<1> HIDE DEF c
<1>6. Moves(r, c)
  BY <1>2, <1>5, BecomesNoticedMoves DEF IInv
<1>7. run[r].doomed = {x \in rows : x.of \in run[r].chosen}
  BY RemovesAll DEF Commit
<1>8. TablesOk'
  <2>1. Anchored'
    <3>1. ASSUME NEW x \in rows'  PROVE  AnchorOf(x) \in rows'
      <4>1. x \in rows /\ x.of \notin run[r].chosen
        BY <1>5, <1>7
      <4>2. AnchorOf(x) \in rows /\ AnchorOf(x).of = x.of
        BY <4>1 DEF IInv, TablesOk, Anchored, AnchorOf
      <4>3. QED
        BY <1>5, <1>7, <4>1, <4>2
    <3>2. QED
      BY <3>1 DEF Anchored
  <2>2. QED
    BY <1>5, <2>1 DEF IInv, TablesOk, Newest
<1>9. ASSUME NEW q \in Run \ {r}  PROVE  Spared(q)
  <2>1. run[q].doomed \subseteq rows
    BY DEF IInv, RunFits, Deleting
  <2>2. run[q].doomed \cap run[r].doomed = {}
    BY DEF IInv, Apart
  <2>3. Newest \in Nat /\ Newest' = Newest
    BY <1>5 DEF IInv, TablesOk, Newest
  <2>4. QED
    BY <1>5, <2>1, <2>2, <2>3 DEF Spared
<1>10. RunFits(r)'
  <2>1. run'[r].chosen \cup run'[r].made \subseteq 1 .. Newest'
    BY <1>1, <1>4, <1>5, <1>6 DEF RunFits, Moves, Newest
  <2>2. Creating(r)'
    BY <1>3, <1>6, PlanHasFirst, LengthsAre DEF Creating, Moves
  <2>3. QED
    BY <1>3, <1>4, <1>6, <2>1, <2>2 DEF RunFits, Moves, IsAt
<1>11. QED
  BY <1>2, <1>4, <1>6, <1>8, <1>9, <1>10, StepKeeps

\* After a save the creation goes on or has ended.
LEMMA AfterSaveIs ==
  ASSUME run \in [Run -> Record], NEW r \in Run, IsAt(r, "create"), Creating(r),
         NEW made \in SUBSET Nat, made # {}
  PROVE  LET s == AfterSave(r, made)
         IN /\ s \in Record
            /\ s.phase \in {"create", "ok"}
            /\ s.chosen = run[r].chosen /\ s.made = made /\ s.doomed = run[r].doomed
            /\ s.phase = "create" => s.at \in 1 .. Len(Saves) /\ s.turn \in 1 .. Len(Plan)
<1> DEFINE m == [run[r] EXCEPT !.made = made]
<1>1. run[r] \in Record /\ run[r].phase = "create"
  BY DEF IsAt
<1>2. m \in Record /\ m.made = made
  BY <1>1 DEF Record
<1>3. /\ m.phase = "create" /\ m.at = run[r].at /\ m.turn = run[r].turn
      /\ m.chosen = run[r].chosen /\ m.doomed = run[r].doomed
  BY <1>1 DEF Record
<1>4. m.at \in 1 .. 8 /\ m.turn \in 1 .. Len(Plan)
  BY <1>3, LengthsAre DEF Creating
<1> HIDE DEF m
<1>5. AfterSave(r, made) =
        IF m.at < 8 THEN [m EXCEPT !.at = @ + 1]
        ELSE IF m.turn < Len(Plan) THEN [m EXCEPT !.at = 1, !.turn = @ + 1]
        ELSE [m EXCEPT !.phase = "ok"]
  BY LengthsAre DEF AfterSave, m
<1>6. CASE m.at < 8
  <2>1. AfterSave(r, made) = [m EXCEPT !.at = m.at + 1]
    BY <1>5, <1>6
  <2>2. m.at + 1 \in 1 .. 8 /\ m.at + 1 \in Nat
    BY <1>4, <1>6
  <2>3. QED
    BY <1>2, <1>3, <1>4, <2>1, <2>2, LengthsAre DEF Record
<1>7. CASE ~(m.at < 8) /\ m.turn < Len(Plan)
  <2>1. AfterSave(r, made) = [m EXCEPT !.at = 1, !.turn = m.turn + 1]
    BY <1>5, <1>7
  <2>2. m.turn + 1 \in 1 .. Len(Plan) /\ m.turn + 1 \in Nat
    BY <1>4, <1>7, PlanHasFirst
  <2> DEFINE n == [m EXCEPT !.at = 1, !.turn = m.turn + 1]
  <2>3. n \in Record
    BY <1>2, <2>2 DEF Record
  <2>4. n.at = 1 /\ n.turn = m.turn + 1
    BY <1>2 DEF Record
  <2>5. n.phase = m.phase /\ n.chosen = m.chosen /\ n.made = m.made /\ n.doomed = m.doomed
    BY <1>2 DEF Record
  <2>6. AfterSave(r, made) = n
    BY <2>1
  <2> HIDE DEF n
  <2>7. QED
    BY <1>2, <1>3, <2>2, <2>3, <2>4, <2>5, <2>6, LengthsAre
<1>8. CASE ~(m.at < 8) /\ ~(m.turn < Len(Plan))
  <2>1. AfterSave(r, made) = [m EXCEPT !.phase = "ok"]
    BY <1>5, <1>8
  <2>2. QED
    BY <1>2, <1>3, <1>4, <2>1 DEF Record, Phase
<1>9. QED
  BY <1>6, <1>7, <1>8

\* The business at the turn is the newest of those the call has made.
LEMMA HasGreatest ==
  ASSUME NEW n \in Nat, NEW T \in SUBSET (1 .. n), T # {}
  PROVE  \E b \in T : \A c \in T : c <= b
<1> DEFINE N == 1 .. n
           R == StrictSubsetOrdering(N)
           Above == {b .. n : b \in T}
<1>1. IsFiniteSet(N) /\ Above # {} /\ Above \subseteq SUBSET N
  <2>1. PICK b \in T : TRUE
    OBVIOUS
  <2>2. b .. n \in Above
    BY <2>1
  <2>3. ASSUME NEW c \in T  PROVE  c .. n \subseteq N
    BY <2>3
  <2>4. IsFiniteSet(N)
    BY FS_Interval
  <2> HIDE DEF N
  <2>5. QED
    BY <2>2, <2>3, <2>4
<1>2. IsWellFoundedOn(R, SUBSET N)
  BY <1>1, FS_StrictSubsetOrderingWellFounded, FS_FiniteSubsetsOfFinite
<1>3. PICK A \in Above : \A B \in Above : <<B, A>> \notin R
  <2> HIDE DEF R, N, Above
  <2> QED
    BY <1>1, <1>2, WFMin
<1>4. PICK b \in T : A = b .. n
  OBVIOUS
<1>5. ASSUME NEW c \in T, c > b  PROVE  FALSE
  <2>1. c .. n \subseteq A /\ c .. n # A
    BY <1>4, <1>5
  <2>2. c .. n \in Above
    OBVIOUS
  <2>3. <<c .. n, A>> \in R
    BY <1>1, <2>1, <2>2 DEF StrictSubsetOrdering
  <2>4. QED
    BY <1>3, <2>2, <2>3
<1>6. QED
  BY <1>5

\* Tables to which rows are added on their anchors.
LEMMA TablesGrow ==
  ASSUME IInv, rows \subseteq rows',
         \A x \in rows' \ rows : /\ x \in [table : Table, of : 1 .. Newest']
                                /\ AnchorOf(x) \in rows',
         business' \in Seq(Slug), Newest <= Newest',
         closed' \subseteq 1 .. Newest', written' \in 0 .. MaxClient
  PROVE  TablesOk'
<1>1. Newest \in Nat /\ Newest' \in Nat
  BY DEF IInv, TablesOk, Newest
<1>2. 1 .. Newest \subseteq 1 .. Newest'
  BY <1>1
<1>3. rows \subseteq [table : Table, of : 1 .. Newest']
  BY <1>2 DEF IInv, TablesOk
<1>4. Anchored'
  BY DEF Anchored, IInv, TablesOk
<1>5. QED
  BY <1>3, <1>4 DEF TablesOk

LEMMA SaveBusinessKeeps ==
  ASSUME IInv, NEW r \in Run, SaveBusiness(r)
  PROVE  IInv'
<1> DEFINE slug == Plan[run[r].turn]
           made == run[r].made \cup {Newest + 1}
           s == AfterSave(r, made)
           x == [table |-> "tenants", of |-> Newest + 1]
<1>1. run[r] \in Record /\ RunFits(r) /\ Creating(r) /\ IsAt(r, "create")
  BY DEF IInv, SaveBusiness, RunFits
<1>2. CASE Holders(slug) # {}
  BY <1>2, FailingKeeps DEF SaveBusiness
<1>3. CASE Holders(slug) = {}
  <2>1. business' = Append(business, slug) /\ rows' = rows \cup {x}
    BY <1>3 DEF SaveBusiness
  <2>2. BecomesNoticed(r, s) /\ UNCHANGED <<closed, written>>
    BY <1>3 DEF SaveBusiness
  <2>3. slug \in Slug
    BY <1>1, PlanAssumption DEF Creating
  <2>4. Newest \in Nat /\ business \in Seq(Slug)
    BY DEF IInv, TablesOk, Newest
  <2>5. business' \in Seq(Slug) /\ Newest' = Newest + 1
    BY <2>1, <2>3, <2>4 DEF Newest
  <2>6. \A b \in 1 .. Newest : business'[b] = business[b]
    BY <2>1, <2>3, <2>4 DEF Newest
  <2>7. made \in SUBSET Nat /\ made # {} /\ made \subseteq 1 .. Newest'
    BY <1>1, <2>4, <2>5 DEF RunFits, Record
  <2> HIDE DEF slug, made
  <2>8. /\ s \in Record /\ s.phase \in {"create", "ok"}
        /\ s.chosen = run[r].chosen /\ s.made = made /\ s.doomed = run[r].doomed
        /\ s.phase = "create" => s.at \in 1 .. Len(Saves) /\ s.turn \in 1 .. Len(Plan)
    BY <1>1, <2>7, AfterSaveIs DEF IInv
  <2> HIDE DEF s
  <2>9. Moves(r, s)
    BY <2>2, <2>8, BecomesNoticedMoves DEF IInv
  <2>10. TablesOk'
    <3>1. x \in [table : Table, of : 1 .. Newest']
      BY <2>4, <2>5, TablesAre
    <3>2. AnchorOf(x) = x
      BY DEF AnchorOf, Anchor
    <3>3. closed' \subseteq 1 .. Newest' /\ written' \in 0 .. MaxClient
      BY <2>2, <2>4, <2>5 DEF IInv, TablesOk
    <3>4. Newest <= Newest'
      BY <2>4, <2>5
    <3> HIDE DEF x
    <3>5. QED
      BY <2>1, <2>5, <3>1, <3>2, <3>3, <3>4, TablesGrow
  <2>11. ASSUME NEW q \in Run \ {r}  PROVE  Spared(q)
    <3>1. run[q].chosen \subseteq 1 .. Newest
      BY DEF IInv, RunFits
    <3>2. run[q].doomed \subseteq rows
      BY DEF IInv, RunFits, Deleting
    <3>3. x.of \notin run[q].chosen
      BY <2>4, <3>1
    <3>4. Newest <= Newest'
      BY <2>4, <2>5
    <3> HIDE DEF x
    <3>5. QED
      BY <2>1, <2>6, <3>2, <3>3, <3>4 DEF Spared
  <2>12. RunFits(r)'
    <3>1. run[r].doomed = {}
      BY <1>1 DEF RunFits, IsAt
    <3>2. run[r].chosen \subseteq 1 .. Newest'
      BY <1>1, <2>4, <2>5 DEF RunFits
    <3>3. run'[r] = s
      BY <2>9 DEF Moves
    <3>4. s.phase = "create" => Creating(r)'
      BY <2>7, <2>8, <3>3 DEF Creating
    <3>5. QED
      BY <2>7, <2>8, <3>1, <3>2, <3>3, <3>4 DEF RunFits, IsAt
  <2>13. s.doomed = {}
    BY <1>1, <2>8 DEF RunFits, IsAt
  <2>14. QED
    BY <2>8, <2>9, <2>10, <2>11, <2>12, <2>13, StepKeeps
<1>4. QED
  BY <1>2, <1>3

\* The rows of the save at hand belong to a business the call has made.
LEMMA SavedAre ==
  ASSUME IInv, NEW r \in Run, IsAt(r, "create"), run[r].at > 1
  PROVE  /\ Saved(r) \subseteq [table : Table, of : 1 .. Newest]
         /\ \A x \in Saved(r) : x.table # "tenants" /\ AnchorOf(x) \in Needed(Saved(r))
<1> DEFINE b == CHOOSE b \in run[r].made : \A c \in run[r].made : c <= b
           tables == Saves[run[r].at]
<1>1. Creating(r) /\ run[r].made \subseteq 1 .. Newest /\ Newest \in Nat
  BY DEF IInv, RunFits, TablesOk, Newest
<1>2. run[r].made # {} /\ run[r].at \in 2 .. 8
  BY <1>1, LengthsAre DEF Creating
<1>3. b \in 1 .. Newest
  BY <1>1, <1>2, HasGreatest
<1> HIDE DEF b
<1>4. Saved(r) = {[table |-> t, of |-> b] : t \in tables}
  BY DEF Saved, In, b
<1>5. ASSUME NEW x \in Saved(r)
      PROVE  /\ x \in [table : Table, of : 1 .. Newest]
             /\ x.table # "tenants"
             /\ AnchorOf(x) \in Needed(Saved(r))
  <2>1. PICK t \in tables : x = [table |-> t, of |-> b]
    BY <1>4
  <2>2. t \in Table /\ t # "tenants" /\ Anchor(t) \notin tables
    BY <1>2, SavesNeedAnchors
  <2>3. x.table = t /\ x.of = b
    BY <2>1
  <2>4. AnchorOf(x) \in Parents(x)
    BY <2>2, <2>3, AnchorIsParent
  <2>5. AnchorOf(x) \notin Saved(r)
    BY <1>4, <2>2, <2>3 DEF AnchorOf
  <2>6. AnchorOf(x) \in Needed(Saved(r))
    BY <2>4, <2>5 DEF Needed
  <2>7. x \in [table : Table, of : 1 .. Newest]
    BY <1>3, <2>1, <2>2
  <2>8. QED
    BY <2>2, <2>3, <2>6, <2>7
<1>6. QED
  BY <1>5

LEMMA SaveKeeps ==
  ASSUME IInv, NEW r \in Run, Save(r)
  PROVE  IInv'
<1> DEFINE s == AfterSave(r, run[r].made)
<1>1. run[r] \in Record /\ RunFits(r) /\ Creating(r) /\ IsAt(r, "create") /\ run[r].at > 1
  BY DEF IInv, Save, RunFits
<1>2. run[r].made \in SUBSET Nat /\ run[r].made # {}
  BY <1>1 DEF Record, Creating
<1>3. /\ s \in Record /\ s.phase \in {"create", "ok"}
      /\ s.chosen = run[r].chosen /\ s.made = run[r].made /\ s.doomed = run[r].doomed
      /\ s.phase = "create" => s.at \in 1 .. Len(Saves) /\ s.turn \in 1 .. Len(Plan)
  BY <1>1, <1>2, AfterSaveIs DEF IInv
<1>4. s.doomed = {}
  BY <1>1, <1>3 DEF RunFits, IsAt
<1>5. s.chosen \cup s.made \subseteq 1 .. Newest
  BY <1>1, <1>3 DEF RunFits
<1>6. UNCHANGED <<business, closed, written>>
  BY DEF Save
<1>7. CASE Needed(Saved(r)) \subseteq rows
  <2>1. rows' = rows \cup Saved(r) /\ BecomesNoticed(r, s)
    BY <1>7 DEF Save
  <2> HIDE DEF s
  <2>2. Moves(r, s)
    BY <1>3, <2>1, BecomesNoticedMoves DEF IInv
  <2>3. Newest \in Nat /\ Newest' = Newest
    BY <1>6 DEF IInv, TablesOk, Newest
  <2>4. ASSUME NEW x \in rows' \ rows
        PROVE  /\ x \in [table : Table, of : 1 .. Newest] /\ x.table # "tenants"
               /\ AnchorOf(x) \in Needed(Saved(r)) /\ AnchorOf(x) \in rows
    BY <1>1, <1>7, <2>1, <2>4, SavedAre
  <2>5. TablesOk'
    <3>1. rows \subseteq rows' /\ Newest <= Newest'
      BY <2>1, <2>3
    <3>2. business' \in Seq(Slug) /\ closed' \subseteq 1 .. Newest' /\ written' \in 0 .. MaxClient
      BY <1>6, <2>3 DEF IInv, TablesOk
    <3>3. QED
      BY <2>3, <2>4, <3>1, <3>2, TablesGrow
  <2>6. ASSUME NEW q \in Run \ {r}  PROVE  Spared(q)
    <3>1. run[q].doomed \subseteq rows
      BY DEF IInv, RunFits, Deleting
    <3>2. \A x \in Needed(Saved(r)) : x \notin run[q].doomed
      BY DEF Save, DoomedBy
    <3>3. QED
      BY <1>6, <2>1, <2>3, <2>4, <3>1, <3>2 DEF Spared
  <2>7. RunFits(r)'
    <3>1. run'[r] = s
      BY <2>2 DEF Moves
    <3>2. s.phase = "create" => Creating(r)'
      BY <1>2, <1>3, <3>1 DEF Creating
    <3>3. QED
      BY <1>3, <1>4, <1>5, <2>3, <3>1, <3>2 DEF RunFits, IsAt
  <2>8. QED
    BY <1>3, <1>4, <2>2, <2>5, <2>6, <2>7, StepKeeps
<1>8. CASE ~(Needed(Saved(r)) \subseteq rows)
  <2>1. rows' = rows
    BY <1>8 DEF Save
  <2>2. CASE BestEffort(Saves[run[r].at])
    <3>1. Becomes(r, s)
      BY <1>8, <2>2 DEF Save
    <3> HIDE DEF s
    <3>2. Moves(r, s)
      BY <1>3, <3>1, BecomesMoves DEF IInv
    <3>3. QED
      BY <1>2, <1>3, <1>4, <1>5, <1>6, <2>1, <3>2, WithoutTransaction
  <2>3. CASE ~BestEffort(Saves[run[r].at])
    <3>1. Becomes(r, Failed(r))
      BY <1>8, <2>3 DEF Save
    <3>2. QED
      BY <1>6, <2>1, <3>1, FailingKeeps
  <2>4. QED
    BY <2>2, <2>3
<1>9. QED
  BY <1>7, <1>8

LEMMA BreaksKeeps ==
  ASSUME IInv, NEW r \in Run, Breaks(r)
  PROVE  IInv'
<1>1. run[r] \in Record /\ RunFits(r)
  BY DEF IInv
<1>2. UNCHANGED <<business, closed, rows, written>>
  BY DEF Breaks
<1>3. CASE IsAt(r, "create") /\ run[r].at > 1 /\ BestEffort(Saves[run[r].at])
  <2> DEFINE m == AfterSave(r, run[r].made)
             s == [m EXCEPT !.faulty = TRUE]
  <2>1. Creating(r) /\ run[r].made \in SUBSET Nat /\ run[r].made # {}
    BY <1>1, <1>3 DEF RunFits, Creating, Record
  <2>2. /\ m \in Record /\ m.phase \in {"create", "ok"}
        /\ m.chosen = run[r].chosen /\ m.made = run[r].made /\ m.doomed = run[r].doomed
        /\ m.phase = "create" => m.at \in 1 .. Len(Saves) /\ m.turn \in 1 .. Len(Plan)
    BY <1>3, <2>1, AfterSaveIs DEF IInv
  <2>3. Becomes(r, s)
    BY <1>3 DEF Breaks
  <2> HIDE DEF m
  <2>4. s \in Record
    BY <2>2 DEF Record
  <2>5. s.phase = m.phase /\ s.at = m.at /\ s.turn = m.turn
    BY <2>2 DEF Record
  <2>6. s.chosen = m.chosen /\ s.made = m.made /\ s.doomed = m.doomed
    BY <2>2 DEF Record
  <2> HIDE DEF s
  <2>7. Moves(r, s)
    BY <2>3, <2>4, BecomesMoves DEF IInv
  <2>8. s.doomed = {} /\ s.chosen \cup s.made \subseteq 1 .. Newest
    BY <1>1, <1>3, <2>2, <2>6 DEF RunFits, IsAt
  <2>9. QED
    BY <1>2, <2>1, <2>2, <2>4, <2>5, <2>6, <2>7, <2>8, WithoutTransaction
<1>4. CASE ~(IsAt(r, "create") /\ run[r].at > 1 /\ BestEffort(Saves[run[r].at]))
  <2> DEFINE f == Failed(r)
             s == [f EXCEPT !.faulty = TRUE]
  <2>1. /\ f \in Record /\ f.phase = "failed" /\ f.doomed = {}
        /\ f.chosen = run[r].chosen /\ f.made = run[r].made
    BY FailedIs DEF IInv
  <2>2. Becomes(r, s)
    BY <1>4 DEF Breaks
  <2> HIDE DEF f
  <2>3. s \in Record
    BY <2>1 DEF Record
  <2>4. s.phase = "failed" /\ s.doomed = {} /\ s.chosen = f.chosen /\ s.made = f.made
    BY <2>1 DEF Record
  <2> HIDE DEF s
  <2>5. Moves(r, s)
    BY <2>2, <2>3, BecomesMoves DEF IInv
  <2>6. s.chosen \cup s.made \subseteq 1 .. Newest
    BY <1>1, <2>1, <2>4 DEF RunFits
  <2>7. QED
    BY <1>2, <2>3, <2>4, <2>5, <2>6, WithoutTransaction
<1>5. QED
  BY <1>3, <1>4

LEMMA AnsweredKeeps ==
  ASSUME IInv, NEW r \in Run, Answered(r)
  PROVE  IInv'
<1>1. Moves(r, Idle)
  BY IdleIsRecord, BecomesMoves DEF IInv, Answered
<1>2. Idle.phase = "idle" /\ Idle.doomed = {} /\ Idle.chosen = {} /\ Idle.made = {}
  BY DEF Idle
<1>3. QED
  BY <1>1, <1>2, IdleIsRecord, WithoutTransaction DEF Answered

(***************************************************************************)
(* Clients.                                                                *)
(***************************************************************************)

\* A write of a client keeps the invariant if it leaves the tables in order and
\* spares every call.
LEMMA ClientKeeps ==
  ASSUME IInv, ClientWrites, TablesOk', \A q \in Run : Spared(q)
  PROVE  IInv'
<1>1. run' \in [Run -> Record] /\ \A q \in Run : Same(q)
  BY ClientMoves DEF IInv
<1>2. \A q \in Run : RunFits(q)'
  BY <1>1, SparedFits DEF IInv, TablesOk
<1>3. Apart'
  BY <1>1 DEF IInv, Apart, Same
<1>4. QED
  BY <1>1, <1>2, <1>3 DEF IInv

LEMMA WrittenStaysBounded ==
  ASSUME IInv, ClientWrites
  PROVE  written' \in 0 .. MaxClient
BY SeedBounds DEF IInv, TablesOk, ClientWrites

LEMMA ClientInsertsKeeps ==
  ASSUME IInv, NEW x \in Row, ClientInserts(x)
  PROVE  IInv'
<1>1. /\ rows' = rows \cup {x} /\ ClientWrites /\ UNCHANGED <<business, closed>>
      /\ x.table # "tenants" /\ x.of <= Newest /\ Parents(x) \subseteq rows
      /\ \A q \in Run : run[q].doomed \cap Parents(x) = {}
  BY DEF ClientInserts
<1>2. Newest \in Nat /\ Newest' = Newest
  BY <1>1 DEF IInv, TablesOk, Newest
<1>3. x.table \in Table /\ x \in [table : Table, of : 1 .. Newest]
  BY <1>1, <1>2, SeedBounds DEF Row, BusinessId
<1>4. AnchorOf(x) \in Parents(x)
  BY <1>1, <1>3, AnchorIsParent
<1>5. TablesOk'
  <2>1. rows \subseteq rows' /\ Newest <= Newest' /\ AnchorOf(x) \in rows'
    BY <1>1, <1>2, <1>4
  <2>2. business' \in Seq(Slug) /\ closed' \subseteq 1 .. Newest'
    BY <1>1, <1>2 DEF IInv, TablesOk
  <2>3. \A y \in rows' \ rows : y = x
    BY <1>1
  <2>4. QED
    BY <1>1, <1>2, <1>3, <2>1, <2>2, <2>3, TablesGrow, WrittenStaysBounded
<1>6. ASSUME NEW q \in Run  PROVE  Spared(q)
  <2>1. run[q].doomed \subseteq rows
    BY DEF IInv, RunFits, Deleting
  <2>2. AnchorOf(x) \notin run[q].doomed
    BY <1>1, <1>4
  <2>3. QED
    BY <1>1, <1>2, <2>1, <2>2 DEF Spared
<1>7. QED
  BY <1>1, <1>5, <1>6, ClientKeeps

LEMMA CloseBusinessKeeps ==
  ASSUME IInv, NEW b \in BusinessId, CloseBusiness(b)
  PROVE  IInv'
<1>1. /\ closed' = closed \cup {b} /\ ClientWrites /\ UNCHANGED <<business, rows>>
      /\ b \in Businesses
  BY DEF CloseBusiness
<1>2. Newest \in Nat /\ Newest' = Newest
  BY <1>1 DEF IInv, TablesOk, Newest
<1>3. b \in 1 .. Newest
  BY <1>1 DEF Businesses, IInv, TablesOk
<1>4. TablesOk'
  BY <1>1, <1>2, <1>3, WrittenStaysBounded DEF IInv, TablesOk, Anchored
<1>5. ASSUME NEW q \in Run  PROVE  Spared(q)
  <2>1. run[q].doomed \subseteq rows
    BY DEF IInv, RunFits, Deleting
  <2>2. QED
    BY <1>1, <1>2, <2>1 DEF Spared
<1>6. QED
  BY <1>1, <1>4, <1>5, ClientKeeps

-----------------------------------------------------------------------------
(***************************************************************************)
(* The invariant holds.                                                    *)
(***************************************************************************)

\* SetToSeq lists a finite set.
LEMMA SlugsAreListed ==
  /\ SetToSeq(Slug) \in Seq(Slug)
  /\ Len(SetToSeq(Slug)) = Cardinality(Slug)
  /\ Cardinality(Slug) \in Nat
<1> DEFINE n == Cardinality(Slug)
<1>1. n \in Nat
  BY SeedBounds, FS_CardinalityType
<1>2. ExistsBijection(1 .. n, Slug)
  BY SeedBounds, FS_CardinalityType
<1>3. \E f \in [1 .. n -> Slug] : IsInjective(f)
  BY <1>2 DEF ExistsBijection, Bijection, Injection, IsInjective
<1>4. SetToSeq(Slug) \in [1 .. n -> Slug]
  BY <1>3 DEF SetToSeq
<1>5. QED
  BY <1>1, <1>4

LEMMA InitKeeps == Init => IInv
<1>1. SUFFICES ASSUME Init PROVE IInv
  OBVIOUS
<1>2. business \in Seq(Slug) /\ Newest = Cardinality(Slug) /\ Newest \in Nat
  BY <1>1, SlugsAreListed DEF Init, Newest
<1>3. ASSUME NEW x \in rows
      PROVE  x \in [table : Table, of : 1 .. Newest] /\ AnchorOf(x) \in rows
  <2>1. PICK b \in 1 .. Newest : x \in Planned(b)
    BY <1>1, <1>2 DEF Init
  <2>2. PICK t \in Table \ {"sessions"} : x = [table |-> t, of |-> b]
    BY <2>1 DEF Planned, In
  <2>3. Anchor(t) \in Table \ {"sessions"}
    BY TablesAre DEF Anchor
  <2>4. AnchorOf(x) = [table |-> Anchor(t), of |-> b]
    BY <2>2 DEF AnchorOf
  <2>5. AnchorOf(x) \in Planned(b)
    BY <2>3, <2>4 DEF Planned, In
  <2>6. AnchorOf(x) \in rows
    BY <1>1, <1>2, <2>1, <2>5 DEF Init
  <2>7. QED
    BY <2>2, <2>6
<1>4. TablesOk
  <2>1. closed \subseteq 1 .. Newest /\ written \in 0 .. MaxClient
    BY <1>1, SeedBounds DEF Init
  <2>2. QED
    BY <1>2, <1>3, <2>1 DEF TablesOk, Anchored
<1>5. run \in [Run -> Record]
  BY <1>1, IdleIsRecord DEF Init
<1>6. ASSUME NEW r \in Run
      PROVE  /\ run[r].phase = "idle" /\ run[r].doomed = {}
             /\ run[r].chosen = {} /\ run[r].made = {}
  BY <1>1 DEF Init, Idle
<1>7. \A r \in Run : RunFits(r)
  BY <1>6 DEF RunFits, IsAt
<1>8. Apart
  BY <1>6 DEF Apart
<1>9. QED
  BY <1>4, <1>5, <1>7, <1>8 DEF IInv

\* The steps of a call and of a client, one by one.
LEMMA NextKeeps == IInv /\ [Next]_vars => IInv'
<1>1. SUFFICES ASSUME IInv, [Next]_vars PROVE IInv'
  OBVIOUS
<1>2. ASSUME NEW r \in Run, Call(r)  PROVE  IInv'
  BY <1>1, <1>2, CallKeeps
<1>3. ASSUME NEW r \in Run, Select(r)  PROVE  IInv'
  BY <1>1, <1>3, SelectKeeps
<1>4. ASSUME NEW r \in Run, Delete(r)  PROVE  IInv'
  BY <1>1, <1>4, DeleteKeeps
<1>5. ASSUME NEW r \in Run, Commit(r)  PROVE  IInv'
  BY <1>1, <1>5, CommitKeeps
<1>6. ASSUME NEW r \in Run, SaveBusiness(r)  PROVE  IInv'
  BY <1>1, <1>6, SaveBusinessKeeps
<1>7. ASSUME NEW r \in Run, Save(r)  PROVE  IInv'
  BY <1>1, <1>7, SaveKeeps
<1>8. ASSUME NEW r \in Run, Deadlocked(r)  PROVE  IInv'
  BY <1>1, <1>8, FailingKeeps DEF Deadlocked
<1>9. ASSUME NEW r \in Run, Answered(r)  PROVE  IInv'
  BY <1>1, <1>9, AnsweredKeeps
<1>10. ASSUME NEW r \in Run, Breaks(r)  PROVE  IInv'
  BY <1>1, <1>10, BreaksKeeps
<1>11. ASSUME NEW x \in Row, ClientInserts(x)  PROVE  IInv'
  BY <1>1, <1>11, ClientInsertsKeeps
<1>12. ASSUME NEW b \in BusinessId, CloseBusiness(b)  PROVE  IInv'
  BY <1>1, <1>12, CloseBusinessKeeps
<1>13. ASSUME UNCHANGED vars  PROVE  IInv'
  BY <1>1, <1>13 DEF vars, IInv, TablesOk, Anchored, RunFits, Deleting, Creating, Apart,
                     Remaining, IsAt, Newest
<1>14. QED
  BY <1>1, <1>2, <1>3, <1>4, <1>5, <1>6, <1>7, <1>8, <1>9, <1>10, <1>11, <1>12, <1>13
  DEF Next, RunStep

\* The invariant of every behaviour of the seed.
THEOREM SeedInvariant == Spec => []IInv
BY InitKeeps, NextKeeps, PTL DEF Spec

(***************************************************************************)
(* Businesses go whole.                                                    *)
(***************************************************************************)

\* Rows disappear with a commit only.
LEMMA OnlyCommitsRemove ==
  ASSUME IInv, [Next]_vars, ~\E r \in Run : Commit(r)
  PROVE  rows \subseteq rows'
<1>1. ASSUME NEW r \in Run, Call(r) \/ Breaks(r)  PROVE  rows' = rows
  BY <1>1 DEF Call, Breaks
<1>2. ASSUME NEW r \in Run, RunStep(r)  PROVE  rows \subseteq rows'
  BY <1>2 DEF RunStep, Select, Delete, SaveBusiness, Save, Deadlocked, Answered
<1>3. ASSUME NEW x \in Row, ClientInserts(x)  PROVE  rows \subseteq rows'
  BY <1>3 DEF ClientInserts
<1>4. ASSUME NEW b \in BusinessId, CloseBusiness(b)  PROVE  rows' = rows
  BY <1>4 DEF CloseBusiness
<1>5. QED
  BY <1>1, <1>2, <1>3, <1>4 DEF Next, vars

\* The removal takes businesses of the plan away whole, whatever is inserted
\* into them meanwhile, and leaves no row without its business
\* (removeTenantsBySlug), for any number of calls that overlap.
THEOREM BusinessesGoWhole == Spec => DeletesWholeBusinesses
<1> DEFINE gone == rows \ rows'
<1>1. ASSUME IInv, NEW r \in Run, Commit(r)
      PROVE  \A x \in gone : business[x.of] \in ToSet(Plan) /\ RowsOf(x.of) \subseteq gone
  <2>1. run[r].doomed = {x \in rows : x.of \in run[r].chosen}
    BY <1>1, RemovesAll DEF Commit
  <2>2. rows' = rows \ run[r].doomed
    BY <1>1 DEF Commit
  <2>3. Deleting(r)
    BY <1>1 DEF IInv, RunFits, Commit
  <2>4. QED
    BY <2>1, <2>2, <2>3 DEF Deleting, RowsOf
<1>2. ASSUME IInv, [Next]_vars
      PROVE  \A x \in gone : business[x.of] \in ToSet(Plan) /\ RowsOf(x.of) \subseteq gone
  <2>1. CASE \E r \in Run : Commit(r)
    BY <1>1, <1>2, <2>1
  <2>2. CASE ~\E r \in Run : Commit(r)
    BY <1>2, <2>2, OnlyCommitsRemove
  <2>3. QED
    BY <2>1, <2>2
<1>3. IInv => Housed
  BY NoOrphans DEF IInv
<1>4. ASSUME IInv, IInv', [Next]_vars, Housed'
      PROVE  /\ \A x \in gone : business[x.of] \in ToSet(Plan) /\ RowsOf(x.of) \subseteq gone
             /\ \A x \in rows' : [table |-> "tenants", of |-> x.of] \in rows'
  BY <1>2, <1>4 DEF Housed
<1>5. QED
  BY <1>3, <1>4, SeedInvariant, PTL DEF Spec, DeletesWholeBusinesses

-----------------------------------------------------------------------------
(***************************************************************************)
(* Types.  Call lets a call in only if the bound leaves room for a whole   *)
(* plan of businesses, so the invariant counts the businesses that the     *)
(* calls in flight may still create.                                       *)
(***************************************************************************)

\* The turns of the plan whose business a call may still create.
OwedBy(c) ==
  {k \in 1 .. Len(Plan) :
     /\ c.phase \notin {"idle", "ok", "failed"}
     /\ c.phase = "create" => IF c.at = 1 THEN c.turn <= k ELSE c.turn < k}

Promised == {s \in Run \X (1 .. Len(Plan)) : s[2] \in OwedBy(run[s[1]])}

Room == Newest \in 1 .. MaxBusiness /\ Newest + Cardinality(Promised) <= MaxBusiness

LEMMA PromisedIsFinite ==
  /\ IsFiniteSet(Run \X (1 .. Len(Plan)))
  /\ IsFiniteSet(Promised) /\ Cardinality(Promised) \in Nat
<1>1. IsFiniteSet(1 .. Len(Plan))
  BY PlanHasFirst, FS_Interval
<1>2. IsFiniteSet(Run \X (1 .. Len(Plan)))
  BY <1>1, SeedBounds, FS_Product
<1>3. Promised \in SUBSET (Run \X (1 .. Len(Plan)))
  BY DEF Promised
<1>4. IsFiniteSet(Promised)
  BY <1>2, <1>3, FS_Subset
<1>5. QED
  BY <1>2, <1>4, FS_CardinalityType

LEMMA SameOwes ==
  ASSUME NEW q \in Run, Same(q)
  PROVE  OwedBy(run'[q]) = OwedBy(run[q])
BY DEF OwedBy, Same

\* A step that creates no business and owes no more than before.
LEMMA RoomStays ==
  ASSUME Room, Newest' = Newest, \A q \in Run : OwedBy(run'[q]) \subseteq OwedBy(run[q])
  PROVE  Room'
<1>1. PICK P : P = Promised
  OBVIOUS
<1>2. PICK Q : Q = Promised'
  OBVIOUS
<1>3. Q \in SUBSET P
  BY <1>1, <1>2 DEF Promised
<1>4. IsFiniteSet(P) /\ Cardinality(P) \in Nat
  BY <1>1, PromisedIsFinite
<1>5. Cardinality(Q) <= Cardinality(P) /\ Cardinality(Q) \in Nat
  BY <1>3, <1>4, FS_Subset, FS_CardinalityType
<1>6. Newest \in Nat /\ MaxBusiness \in Nat
  BY SeedBounds DEF Room
<1>7. Newest + Cardinality(Q) <= MaxBusiness
  BY <1>1, <1>4, <1>5, <1>6 DEF Room
<1>8. QED
  BY <1>2, <1>7 DEF Room

LEMMA MovesStays ==
  ASSUME Room, NEW r \in Run, NEW s, Moves(r, s), UNCHANGED business,
         OwedBy(s) \subseteq OwedBy(run[r])
  PROVE  Room'
<1>1. Newest' = Newest
  BY DEF Newest
<1>2. \A q \in Run : OwedBy(run'[q]) \subseteq OwedBy(run[q])
  BY SameOwes DEF Moves
<1>3. QED
  BY <1>1, <1>2, RoomStays

\* A call that has not begun to create may still create the whole plan.
LEMMA OwesAll ==
  ASSUME NEW c \in Record, c.phase \in {"select", "delete"}
  PROVE  OwedBy(c) = 1 .. Len(Plan)
BY DEF OwedBy

LEMMA OwesNothing ==
  ASSUME NEW c \in Record, c.phase \in {"idle", "ok", "failed"}
  PROVE  OwedBy(c) = {}
BY DEF OwedBy

\* After a save the call may create what comes after its turn.
LEMMA AfterSaveOwes ==
  ASSUME run \in [Run -> Record], NEW r \in Run, IsAt(r, "create"), Creating(r),
         NEW made \in SUBSET Nat
  PROVE  \A k \in OwedBy(AfterSave(r, made)) : run[r].turn < k
<1> DEFINE m == [run[r] EXCEPT !.made = made]
<1>1. run[r] \in Record /\ run[r].phase = "create"
  BY DEF IsAt
<1>2. m \in Record /\ m.phase = "create" /\ m.at = run[r].at /\ m.turn = run[r].turn
  BY <1>1 DEF Record
<1>3. m.at \in 1 .. 8 /\ m.turn \in Nat /\ Len(Plan) \in Nat
  BY <1>2, LengthsAre, PlanHasFirst DEF Creating
<1> HIDE DEF m
<1>4. AfterSave(r, made) =
        IF m.at < 8 THEN [m EXCEPT !.at = @ + 1]
        ELSE IF m.turn < Len(Plan) THEN [m EXCEPT !.at = 1, !.turn = @ + 1]
        ELSE [m EXCEPT !.phase = "ok"]
  BY LengthsAre DEF AfterSave, m
<1>5. CASE m.at < 8
  <2> DEFINE n == [m EXCEPT !.at = m.at + 1]
  <2>1. n.phase = "create" /\ n.at = m.at + 1 /\ n.turn = m.turn
    BY <1>2 DEF Record
  <2>2. AfterSave(r, made) = n
    BY <1>4, <1>5
  <2> HIDE DEF n
  <2>3. QED
    BY <1>2, <1>3, <2>1, <2>2 DEF OwedBy
<1>6. CASE ~(m.at < 8) /\ m.turn < Len(Plan)
  <2> DEFINE n == [m EXCEPT !.at = 1, !.turn = m.turn + 1]
  <2>1. n.phase = "create" /\ n.at = 1 /\ n.turn = m.turn + 1
    BY <1>2 DEF Record
  <2>2. AfterSave(r, made) = n
    BY <1>4, <1>6
  <2> HIDE DEF n
  <2>3. QED
    BY <1>2, <1>3, <2>1, <2>2 DEF OwedBy
<1>7. CASE ~(m.at < 8) /\ ~(m.turn < Len(Plan))
  <2> DEFINE n == [m EXCEPT !.phase = "ok"]
  <2>1. n.phase = "ok"
    BY <1>2 DEF Record
  <2>2. AfterSave(r, made) = n
    BY <1>4, <1>7
  <2> HIDE DEF n
  <2>3. QED
    BY <2>1, <2>2 DEF OwedBy
<1>8. QED
  BY <1>5, <1>6, <1>7

LEMMA FailingRoom ==
  ASSUME Room, IInv, NEW r \in Run, Becomes(r, Failed(r)), UNCHANGED business
  PROVE  Room'
<1>1. Moves(r, Failed(r))
  BY FailedIs, BecomesMoves DEF IInv
<1>2. OwedBy(Failed(r)) = {}
  BY FailedIs, OwesNothing DEF IInv
<1>3. QED
  BY <1>1, <1>2, MovesStays

LEMMA CallRoom ==
  ASSUME Room, IInv, NEW r \in Run, Call(r)
  PROVE  Room'
<1> DEFINE s == [Idle EXCEPT !.phase = "select", !.alone = \A q \in Run : ~InFlight(q)]
<1>1. s \in Record /\ s.phase = "select"
  <2>1. (\A q \in Run : ~InFlight(q)) \in BOOLEAN
    OBVIOUS
  <2>2. QED
    BY <2>1 DEF Idle, Record, Phase
<1>2. BecomesNoticed(r, s) /\ UNCHANGED business
  BY DEF Call
<1> HIDE DEF s
<1>3. Moves(r, s)
  BY <1>1, <1>2, BecomesNoticedMoves DEF IInv
<1>4. PICK busy : busy = {q \in Run : InFlight(q)} \cup {r}
  OBVIOUS
<1>5. PICK promised : promised = Promised'
  OBVIOUS
<1>6. promised \subseteq busy \X (1 .. Len(Plan))
  <2>1. ASSUME NEW t \in promised  PROVE  t[1] \in busy /\ t[2] \in 1 .. Len(Plan)
    <3>1. t \in Run \X (1 .. Len(Plan)) /\ t[2] \in OwedBy(run'[t[1]])
      BY <1>5, <2>1 DEF Promised
    <3>2. CASE t[1] = r
      BY <1>4, <3>1, <3>2
    <3>3. CASE t[1] # r
      <4>1. OwedBy(run'[t[1]]) = OwedBy(run[t[1]])
        BY <1>3, <3>1, <3>3, SameOwes DEF Moves
      <4>2. InFlight(t[1])
        BY <3>1, <4>1 DEF OwedBy, InFlight
      <4>3. QED
        BY <1>4, <3>1, <4>2
    <3>4. QED
      BY <3>2, <3>3
  <2>2. promised \subseteq Run \X (1 .. Len(Plan))
    BY <1>5 DEF Promised
  <2>3. QED
    BY <2>1, <2>2
<1>7. IsFiniteSet(busy) /\ Cardinality(busy) \in Nat
  <2>1. busy \in SUBSET Run
    BY <1>4
  <2>2. QED
    BY <2>1, SeedBounds, FS_Subset, FS_CardinalityType
<1>8. IsFiniteSet(1 .. Len(Plan)) /\ Cardinality(1 .. Len(Plan)) = Len(Plan)
  BY PlanHasFirst, FS_Interval
<1>9. /\ IsFiniteSet(busy \X (1 .. Len(Plan)))
      /\ Cardinality(busy \X (1 .. Len(Plan))) = Cardinality(busy) * Len(Plan)
  BY <1>7, <1>8, FS_Product
<1>10. Cardinality(promised) \in Nat /\ Cardinality(promised) <= Cardinality(busy) * Len(Plan)
  BY <1>6, <1>9, FS_Subset, FS_CardinalityType
<1>11. Newest + Len(Plan) * Cardinality(busy) <= MaxBusiness
  BY <1>4 DEF Call
<1>12. Len(Plan) * Cardinality(busy) = Cardinality(busy) * Len(Plan)
  BY <1>7, PlanHasFirst
<1>13. Len(Plan) * Cardinality(busy) \in Nat
  BY <1>7, PlanHasFirst
<1>14. Newest \in Nat /\ MaxBusiness \in Nat /\ Newest' = Newest
  BY <1>2, SeedBounds DEF Room, Newest
<1>15. Newest + Cardinality(promised) <= MaxBusiness
  <2> DEFINE product == Len(Plan) * Cardinality(busy)
  <2>1. product \in Nat /\ Newest + product <= MaxBusiness /\ Cardinality(promised) <= product
    BY <1>10, <1>11, <1>12, <1>13
  <2> HIDE DEF product
  <2>2. QED
    BY <1>10, <1>14, <2>1
<1>16. QED
  BY <1>5, <1>14, <1>15 DEF Room

LEMMA SaveBusinessRoom ==
  ASSUME Room, IInv, NEW r \in Run, SaveBusiness(r)
  PROVE  Room'
<1> DEFINE slug == Plan[run[r].turn]
           made == run[r].made \cup {Newest + 1}
           s == AfterSave(r, made)
<1>1. run[r] \in Record /\ Creating(r) /\ IsAt(r, "create") /\ run[r].at = 1
  BY DEF IInv, SaveBusiness, RunFits
<1>2. CASE Holders(slug) # {}
  <2>1. Becomes(r, Failed(r)) /\ UNCHANGED business
    BY <1>2 DEF SaveBusiness
  <2>2. QED
    BY <2>1, FailingRoom
<1>3. CASE Holders(slug) = {}
  <2>1. business' = Append(business, slug) /\ BecomesNoticed(r, s)
    BY <1>3 DEF SaveBusiness
  <2>2. slug \in Slug
    BY <1>1, PlanAssumption DEF Creating
  <2>3. Newest \in Nat /\ business \in Seq(Slug)
    BY DEF IInv, TablesOk, Newest
  <2>4. Newest' = Newest + 1
    BY <2>1, <2>2, <2>3 DEF Newest
  <2>5. made \in SUBSET Nat /\ made # {}
    BY <1>1, <2>3 DEF Record
  <2> HIDE DEF slug, made
  <2>6. s \in Record
    BY <1>1, <2>5, AfterSaveIs DEF IInv
  <2>7. \A k \in OwedBy(s) : run[r].turn < k
    BY <1>1, <2>5, AfterSaveOwes DEF IInv
  <2> HIDE DEF s
  <2>8. Moves(r, s)
    BY <2>1, <2>6, BecomesNoticedMoves DEF IInv
  <2>9. PICK P : P = Promised
    OBVIOUS
  <2>10. PICK Q : Q = Promised'
    OBVIOUS
  <2>11. PICK turn : turn = run[r].turn
    OBVIOUS
  <2>12. <<r, turn>> \in P
    <3>1. turn \in 1 .. Len(Plan)
      BY <1>1, <2>11 DEF Creating
    <3>2. turn \in OwedBy(run[r])
      BY <1>1, <2>11, <3>1 DEF OwedBy, IsAt
    <3>3. QED
      BY <2>9, <3>1, <3>2 DEF Promised
  <2>13. Q \subseteq P \ {<<r, turn>>}
    <3>1. ASSUME NEW t \in Q  PROVE  t \in P \ {<<r, turn>>}
      <4>1. t \in Run \X (1 .. Len(Plan)) /\ t[2] \in OwedBy(run'[t[1]])
        BY <2>10, <3>1 DEF Promised
      <4>2. CASE t[1] = r
        <5>1. t[2] \in OwedBy(s) /\ turn < t[2]
          BY <2>7, <2>8, <2>11, <4>1, <4>2 DEF Moves
        <5>2. t[2] \in OwedBy(run[r])
          BY <1>1, <2>11, <4>1, <5>1, PlanHasFirst DEF OwedBy, IsAt, Creating
        <5>3. t[2] # turn
          BY <1>1, <2>11, <4>1, <5>1 DEF Creating
        <5>4. QED
          BY <2>9, <4>1, <4>2, <5>2, <5>3 DEF Promised
      <4>3. CASE t[1] # r
        <5>1. OwedBy(run'[t[1]]) = OwedBy(run[t[1]])
          BY <2>8, <4>1, <4>3, SameOwes DEF Moves
        <5>2. QED
          BY <2>9, <4>1, <4>3, <5>1 DEF Promised
      <4>4. QED
        BY <4>2, <4>3
    <3>2. QED
      BY <3>1
  <2>14. IsFiniteSet(P) /\ Cardinality(P) \in Nat
    BY <2>9, PromisedIsFinite
  <2>15. /\ IsFiniteSet(P \ {<<r, turn>>})
         /\ Cardinality(P \ {<<r, turn>>}) = Cardinality(P) - 1
    BY <2>12, <2>14, FS_RemoveElement
  <2>16. Cardinality(Q) \in Nat /\ Cardinality(Q) <= Cardinality(P) - 1
    BY <2>13, <2>15, FS_Subset, FS_CardinalityType
  <2>17. Newest + Cardinality(P) <= MaxBusiness /\ Newest \in 1 .. MaxBusiness
    BY <2>9 DEF Room
  <2>18. (Newest + 1) + Cardinality(Q) <= MaxBusiness
    BY <2>3, <2>14, <2>16, <2>17, SeedBounds
  <2>19. Newest + 1 \in 1 .. MaxBusiness
    BY <2>3, <2>16, <2>18, SeedBounds
  <2>20. QED
    BY <2>4, <2>10, <2>18, <2>19 DEF Room
<1>4. QED
  BY <1>2, <1>3

LEMMA SaveRoom ==
  ASSUME Room, IInv, NEW r \in Run, Save(r)
  PROVE  Room'
<1> DEFINE s == AfterSave(r, run[r].made)
<1>1. run[r] \in Record /\ Creating(r) /\ IsAt(r, "create") /\ run[r].at > 1
  BY DEF IInv, Save, RunFits
<1>2. run[r].made \in SUBSET Nat /\ run[r].made # {} /\ UNCHANGED business
  BY <1>1 DEF Record, Creating, Save
<1>3. s \in Record
  BY <1>1, <1>2, AfterSaveIs DEF IInv
<1>4. \A k \in OwedBy(s) : run[r].turn < k
  BY <1>1, <1>2, AfterSaveOwes DEF IInv
<1>5. OwedBy(s) \subseteq OwedBy(run[r])
  <2> HIDE DEF s
  <2>1. OwedBy(s) \subseteq 1 .. Len(Plan)
    BY DEF OwedBy
  <2>2. run[r].at # 1 /\ run[r].phase = "create"
    BY <1>1 DEF IsAt, Creating
  <2>3. QED
    BY <1>4, <2>1, <2>2 DEF OwedBy
<1>6. CASE Becomes(r, s) \/ BecomesNoticed(r, s)
  <2> HIDE DEF s
  <2>1. Moves(r, s)
    BY <1>3, <1>6, BecomesMoves, BecomesNoticedMoves DEF IInv
  <2>2. QED
    BY <1>2, <1>5, <2>1, MovesStays
<1>7. CASE Becomes(r, Failed(r))
  BY <1>2, <1>7, FailingRoom
<1>8. QED
  BY <1>6, <1>7 DEF Save

\* A call that has created nothing yet owes the whole plan, so it can owe no
\* more after any step.
LEMMA EarlyRoom ==
  ASSUME Room, IInv, NEW r \in Run, run[r].phase \in {"select", "delete"},
         NEW s \in Record, Becomes(r, s) \/ BecomesNoticed(r, s), UNCHANGED business
  PROVE  Room'
<1>1. Moves(r, s)
  BY BecomesMoves, BecomesNoticedMoves DEF IInv
<1>2. run[r] \in Record
  BY DEF IInv
<1>3. OwedBy(run[r]) = 1 .. Len(Plan)
  BY <1>2, OwesAll
<1>4. OwedBy(s) \subseteq 1 .. Len(Plan)
  BY DEF OwedBy
<1>5. QED
  BY <1>1, <1>3, <1>4, MovesStays

\* What Becomes and BecomesNoticed are given, once the step has kept the types.
LEMMA IsGiven ==
  ASSUME IInv, IInv', NEW r \in Run, NEW s, Becomes(r, s) \/ BecomesNoticed(r, s)
  PROVE  s \in Record
<1>1. run \in [Run -> Record] /\ run' \in [Run -> Record]
  BY DEF IInv
<1>2. run'[r] = s
  BY <1>1 DEF Becomes, BecomesNoticed, Noticed
<1>3. QED
  BY <1>1, <1>2

LEMMA RemovingRoom ==
  ASSUME Room, IInv, IInv', NEW r \in Run, Select(r) \/ Delete(r) \/ Commit(r)
  PROVE  Room'
<1>1. run[r].phase \in {"select", "delete"} /\ UNCHANGED business
  BY DEF Select, Delete, Commit, IsAt
<1>2. PICK s : Becomes(r, s) \/ BecomesNoticed(r, s)
  BY DEF Select, Delete, Commit
<1>3. s \in Record
  BY <1>2, IsGiven
<1>4. QED
  BY <1>1, <1>2, <1>3, EarlyRoom

LEMMA BreaksRoom ==
  ASSUME Room, IInv, IInv', NEW r \in Run, Breaks(r)
  PROVE  Room'
<1>1. run[r] \in Record /\ UNCHANGED business
  BY DEF IInv, Breaks
<1>2. CASE IsAt(r, "create") /\ run[r].at > 1 /\ BestEffort(Saves[run[r].at])
  <2> DEFINE m == AfterSave(r, run[r].made)
             s == [m EXCEPT !.faulty = TRUE]
  <2>1. Creating(r) /\ run[r].made \in SUBSET Nat /\ run[r].made # {}
    BY <1>1, <1>2 DEF IInv, RunFits, Creating, Record
  <2>2. m \in Record
    BY <1>2, <2>1, AfterSaveIs DEF IInv
  <2>3. \A k \in OwedBy(m) : run[r].turn < k
    BY <1>2, <2>1, AfterSaveOwes DEF IInv
  <2>4. Becomes(r, s)
    BY <1>2 DEF Breaks
  <2> HIDE DEF m
  <2>5. s \in Record
    BY <2>2 DEF Record
  <2>6. s.phase = m.phase /\ s.at = m.at /\ s.turn = m.turn
    BY <2>2 DEF Record
  <2> HIDE DEF s
  <2>7. OwedBy(s) = OwedBy(m)
    BY <2>6 DEF OwedBy
  <2>8. OwedBy(s) \subseteq OwedBy(run[r])
    <3>1. OwedBy(s) \subseteq 1 .. Len(Plan)
      BY DEF OwedBy
    <3>2. run[r].at # 1 /\ run[r].phase = "create"
      BY <1>2, <2>1 DEF IsAt, Creating
    <3>3. QED
      BY <2>3, <2>7, <3>1, <3>2 DEF OwedBy
  <2>9. Moves(r, s)
    BY <2>4, <2>5, BecomesMoves DEF IInv
  <2>10. QED
    BY <1>1, <2>8, <2>9, MovesStays
<1>3. CASE ~(IsAt(r, "create") /\ run[r].at > 1 /\ BestEffort(Saves[run[r].at]))
  <2> DEFINE f == Failed(r)
             s == [f EXCEPT !.faulty = TRUE]
  <2>1. f \in Record /\ f.phase = "failed"
    BY FailedIs DEF IInv
  <2>2. Becomes(r, s)
    BY <1>3 DEF Breaks
  <2> HIDE DEF f
  <2>3. s \in Record
    BY <2>1 DEF Record
  <2>4. s.phase = "failed"
    BY <2>1 DEF Record
  <2> HIDE DEF s
  <2>5. OwedBy(s) = {}
    BY <2>3, <2>4, OwesNothing
  <2>6. Moves(r, s)
    BY <2>2, <2>3, BecomesMoves DEF IInv
  <2>7. QED
    BY <1>1, <2>5, <2>6, MovesStays
<1>4. QED
  BY <1>2, <1>3

LEMMA AnsweredRoom ==
  ASSUME Room, IInv, NEW r \in Run, Answered(r)
  PROVE  Room'
<1>1. Moves(r, Idle)
  BY IdleIsRecord, BecomesMoves DEF IInv, Answered
<1>2. OwedBy(Idle) = {}
  BY DEF OwedBy, Idle
<1>3. QED
  BY <1>1, <1>2, MovesStays DEF Answered

LEMMA ClientRoom ==
  ASSUME Room, IInv, ClientWrites, UNCHANGED business
  PROVE  Room'
<1>1. \A q \in Run : OwedBy(run'[q]) = OwedBy(run[q])
  BY ClientMoves, SameOwes DEF IInv
<1>2. Newest' = Newest
  BY DEF Newest
<1>3. QED
  BY <1>1, <1>2, RoomStays

LEMMA InitRoom == Init => Room
<1>1. SUFFICES ASSUME Init PROVE Room
  OBVIOUS
<1>2. Newest = Cardinality(Slug) /\ Newest \in Nat /\ Newest <= MaxBusiness
  BY <1>1, SlugsAreListed, SeedBounds DEF Init, Newest
<1>3. Slug # {}
  BY PlanAssumption
<1>4. Newest # 0
  BY <1>2, <1>3, SeedBounds, FS_EmptySet
<1>5. Promised = {}
  <2>1. \A r \in Run : OwedBy(run[r]) = {}
    BY <1>1 DEF Init, OwedBy, Idle
  <2>2. QED
    BY <2>1 DEF Promised
<1>6. Cardinality(Promised) = 0
  BY <1>5, FS_EmptySet
<1>7. QED
  BY <1>2, <1>4, <1>6, SeedBounds DEF Room

LEMMA NextRoom == IInv /\ IInv' /\ Room /\ [Next]_vars => Room'
<1>1. SUFFICES ASSUME IInv, IInv', Room, [Next]_vars PROVE Room'
  OBVIOUS
<1>2. ASSUME NEW r \in Run, Call(r)  PROVE  Room'
  BY <1>1, <1>2, CallRoom
<1>3. ASSUME NEW r \in Run, Select(r) \/ Delete(r) \/ Commit(r)  PROVE  Room'
  BY <1>1, <1>3, RemovingRoom
<1>4. ASSUME NEW r \in Run, SaveBusiness(r)  PROVE  Room'
  BY <1>1, <1>4, SaveBusinessRoom
<1>5. ASSUME NEW r \in Run, Save(r)  PROVE  Room'
  BY <1>1, <1>5, SaveRoom
<1>6. ASSUME NEW r \in Run, Deadlocked(r)  PROVE  Room'
  BY <1>1, <1>6, FailingRoom DEF Deadlocked
<1>7. ASSUME NEW r \in Run, Answered(r)  PROVE  Room'
  BY <1>1, <1>7, AnsweredRoom
<1>8. ASSUME NEW r \in Run, Breaks(r)  PROVE  Room'
  BY <1>1, <1>8, BreaksRoom
<1>9. ASSUME NEW x \in Row, ClientInserts(x)  PROVE  Room'
  BY <1>1, <1>9, ClientRoom DEF ClientInserts
<1>10. ASSUME NEW b \in BusinessId, CloseBusiness(b)  PROVE  Room'
  BY <1>1, <1>10, ClientRoom DEF CloseBusiness
<1>11. ASSUME UNCHANGED vars  PROVE  Room'
  BY <1>1, <1>11 DEF vars, Room, Newest, Promised
<1>12. QED
  BY <1>1, <1>2, <1>3, <1>4, <1>5, <1>6, <1>7, <1>8, <1>9, <1>10, <1>11
  DEF Next, RunStep

\* The tables and the calls keep their types: in particular a transaction is
\* never left open by a call that has failed, and a call is only let in when
\* there is room for all it creates.
THEOREM SeedTypes == Spec => []TypeOK
<1>1. IInv /\ Room => TypeOK
  <2>1. SUFFICES ASSUME IInv, Room PROVE TypeOK
    OBVIOUS
  <2>2. ASSUME NEW r \in Run
        PROVE  /\ run[r].phase \in Phase
               /\ run[r].chosen \cup run[r].made \subseteq 1 .. Newest
               /\ run[r].doomed \subseteq IF IsAt(r, "delete") THEN rows ELSE {}
    BY <2>1 DEF IInv, Record, RunFits, Deleting
  <2>3. QED
    BY <2>1, <2>2 DEF IInv, TablesOk, Room, TypeOK, BusinessId
<1>2. QED
  BY <1>1, InitRoom, NextRoom, SeedInvariant, PTL DEF Spec

-----------------------------------------------------------------------------
(***************************************************************************)
(* A call that is alone: no other is in flight, and no client has written  *)
(* since it began.  No foreign key refuses one of its statements, since    *)
(* they come in the order the keys ask for, so it ends in "ok".            *)
(***************************************************************************)

Clean(r) == run[r].phase # "idle" /\ run[r].alone /\ ~run[r].faulty

OfSlug(slug) == {b \in Businesses : business[b] = slug}

\* One business of the slug, open, with all the plan gives it.
Complete(slug) ==
  \E b \in Businesses \ closed : OfSlug(slug) = {b} /\ RowsOf(b) = Planned(b)

\* The tables the statements before the k-th empty, and those the saves before
\* the k-th fill.
Emptied(k) == {t \in Table : \E j \in 1 .. 10 : j < k /\ t \in Along(Deletes[j])}
Filled(k) == {t \in Table : \E j \in 1 .. 8 : j < k /\ t \in Saves[j]}

\* A removal that is alone has chosen all there is of the plan, and emptied all
\* its statements name.
Removing(r) ==
  /\ \A b \in Businesses : business[b] \in ToSet(Plan) => b \in run[r].chosen
  /\ \A x \in rows : x.of \in run[r].chosen /\ x.table \in Emptied(run[r].at) => x \in run[r].doomed

\* The business at the turn, of which the call has saved part.
UnderWay(r) ==
  /\ Newest \in run[r].made /\ Newest \notin closed
  /\ \A i \in 1 .. Len(Plan) : i = run[r].turn => OfSlug(Plan[i]) = {Newest}
  /\ RowsOf(Newest) = In(Filled(run[r].at), Newest)

\* A creation that is alone: what is before its turn is complete, what is after
\* has not begun.
Building(r) ==
  /\ \A i \in 1 .. Len(Plan) : i < run[r].turn => Complete(Plan[i])
  /\ \A i \in 1 .. Len(Plan) :
       i > run[r].turn \/ (i = run[r].turn /\ run[r].at = 1) => OfSlug(Plan[i]) = {}
  /\ run[r].at > 1 => UnderWay(r)

AloneFits(r) ==
  /\ run[r].phase # "failed"
  /\ \A q \in Run \ {r} : ~InFlight(q)
  /\ run[r].phase = "delete" => Removing(r)
  /\ run[r].phase = "create" => Building(r)
  /\ run[r].phase = "ok" => \A i \in 1 .. Len(Plan) : Complete(Plan[i])

AloneInv == \A r \in Run : Clean(r) => AloneFits(r)

-----------------------------------------------------------------------------

\* What a deletion takes along: the tables that cascade from the one it names.
LEMMA AlongAre ==
  /\ Along("sessions") = {"sessions"}
  /\ Along("movements") = {"movements"}
  /\ Along("recipes") = {"recipes"}
  /\ Along("products") = {"products", "recipes", "prices"}
  /\ Along("categories") = {"categories"}
  /\ Along("batches") = {"batches"}
  /\ Along("items") = {"items"}
  /\ Along("users") = {"users", "sessions"}
  /\ Along("branches") = {"branches"}
  /\ Along("tenants") = {"tenants"}
BY TablesAre DEF Along, Cascading

\* The statements of a removal, in their order.
LEMMA DeletesAre ==
  /\ Deletes[1] = "sessions" /\ Deletes[2] = "movements" /\ Deletes[3] = "recipes"
  /\ Deletes[4] = "products" /\ Deletes[5] = "categories" /\ Deletes[6] = "batches"
  /\ Deletes[7] = "items" /\ Deletes[8] = "users" /\ Deletes[9] = "branches"
  /\ Deletes[10] = "tenants"
BY DEF Deletes

\* One more statement empties the tables it names or cascades to.
LEMMA EmptiedGrows ==
  ASSUME NEW k \in 1 .. 10
  PROVE  Emptied(k + 1) = Emptied(k) \cup {t \in Table : t \in Along(Deletes[k])}
<1>1. \A j \in 1 .. 10 : j < k + 1 <=> (j < k \/ j = k)
  OBVIOUS
<1> QED
  BY <1>1 DEF Emptied

\* What names a table that a statement empties was emptied before it.
LEMMA DeletesInOrder ==
  ASSUME NEW k \in 1 .. 10, NEW t \in Table, t \notin Along(Deletes[k]),
         Restricting(t) \cap Along(Deletes[k]) # {}
  PROVE  t \in Emptied(k)
<1>1. \A j \in 1 .. 10 : j < k /\ t \in Along(Deletes[j]) => t \in Emptied(k)
  BY DEF Emptied
<1>2. k \in {1, 2, 3, 4, 5, 6, 7, 8, 9, 10}
  OBVIOUS
<1>3. CASE k \in {1, 2, 3, 4, 6, 8}
  BY <1>3, TablesAre, AlongAre, DeletesAre DEF Restricting
<1>4. CASE k = 5
  <2>1. t = "products"
    BY <1>4, TablesAre, AlongAre, DeletesAre DEF Restricting
  <2> QED
    BY <1>1, <1>4, <2>1, AlongAre, DeletesAre
<1>5. CASE k = 7
  <2>1. t \in {"movements", "batches", "recipes"}
    BY <1>5, TablesAre, AlongAre, DeletesAre DEF Restricting
  <2> QED
    BY <1>1, <1>5, <2>1, AlongAre, DeletesAre
<1>6. CASE k = 9
  <2>1. t \in {"movements", "batches", "prices", "users"}
    BY <1>6, TablesAre, AlongAre, DeletesAre DEF Restricting
  <2> QED
    BY <1>1, <1>6, <2>1, AlongAre, DeletesAre
<1>7. CASE k = 10
  <2>1. t \in {"sessions", "prices", "products", "users", "categories", "items", "branches"}
    BY <1>7, TablesAre, AlongAre, DeletesAre DEF Restricting
  <2> QED
    BY <1>1, <1>7, <2>1, AlongAre, DeletesAre
<1> QED
  BY <1>2, <1>3, <1>4, <1>5, <1>6, <1>7

\* The saves of one business, in their order.
LEMMA SavesAre ==
  /\ Saves[1] = {"tenants"} /\ Saves[2] = {"branches"} /\ Saves[3] = {"users"}
  /\ Saves[4] = {"items", "batches"} /\ Saves[5] = {"movements"}
  /\ Saves[6] = {"categories"} /\ Saves[7] = {"products", "recipes"} /\ Saves[8] = {"prices"}
BY DEF Saves

\* One more save fills its tables; after the last, all but the sessions.
LEMMA FilledGrows ==
  ASSUME NEW k \in 1 .. 8
  PROVE  /\ Filled(k + 1) = Filled(k) \cup Saves[k]
         /\ Filled(1) = {}
         /\ Filled(9) = Table \ {"sessions"}
<1>1. \A j \in 1 .. 8 : (j < k + 1 <=> (j < k \/ j = k)) /\ ~(j < 1) /\ j < 9
  OBVIOUS
<1>2. 1 .. 8 = {1, 2, 3, 4, 5, 6, 7, 8}
  OBVIOUS
<1>3. Saves[k] \subseteq Table
  BY <1>2, SavesAre, TablesAre
<1>4. Filled(k + 1) = Filled(k) \cup Saves[k]
  BY <1>1, <1>3 DEF Filled
<1>5. Filled(1) = {}
  BY <1>1 DEF Filled
<1>6. Filled(9) = {t \in Table : \E j \in 1 .. 8 : t \in Saves[j]}
  BY <1>1 DEF Filled
<1>7. Filled(9) = Table \ {"sessions"}
  BY <1>2, <1>6, SavesAre, TablesAre
<1> QED
  BY <1>4, <1>5, <1>7

\* Every save comes after those that bring what its rows name.
LEMMA SavesInOrder ==
  ASSUME NEW k \in 2 .. 8, NEW t \in Saves[k], NEW u \in Restricting(t) \cup Cascading(t)
  PROVE  u \in Saves[k] \/ u \in Filled(k)
<1>1. \A j \in 1 .. 8 : j < k /\ u \in Saves[j] /\ u \in Table => u \in Filled(k)
  BY DEF Filled
<1>2. k \in {2, 3, 4, 5, 6, 7, 8}
  OBVIOUS
<1>3. CASE k = 2
  BY <1>1, <1>3, SavesAre, TablesAre DEF Restricting, Cascading
<1>4. CASE k = 3
  BY <1>1, <1>4, SavesAre, TablesAre DEF Restricting, Cascading
<1>5. CASE k = 4
  BY <1>1, <1>5, SavesAre, TablesAre DEF Restricting, Cascading
<1>6. CASE k = 5
  BY <1>1, <1>6, SavesAre, TablesAre DEF Restricting, Cascading
<1>7. CASE k = 6
  BY <1>1, <1>7, SavesAre, TablesAre DEF Restricting, Cascading
<1>8. CASE k = 7
  BY <1>1, <1>8, SavesAre, TablesAre DEF Restricting, Cascading
<1>9. CASE k = 8
  BY <1>1, <1>9, SavesAre, TablesAre DEF Restricting, Cascading
<1> QED
  BY <1>2, <1>3, <1>4, <1>5, <1>6, <1>7, <1>8, <1>9

-----------------------------------------------------------------------------

\* A step of one call: no other call is alone after it.
LEMMA OthersAreNotAlone ==
  ASSUME AloneInv, run \in [Run -> Record], NEW q \in Run, InFlight(q), NEW s \in Record,
         Becomes(q, s) \/ BecomesNoticed(q, s),
         NEW r \in Run \ {q}
  PROVE  ~Clean(r)'
<1>1. ~Clean(r)
  BY DEF AloneInv, AloneFits
<1>2. run[r] \in Record
  OBVIOUS
<1>3. CASE Becomes(q, s)
  <2>1. run'[r] = run[r]
    BY <1>3 DEF Becomes
  <2> QED
    BY <1>1, <2>1 DEF Clean
<1>4. CASE BecomesNoticed(q, s)
  <2>1. run'[r] = IF IsAt(r, "idle") THEN run[r] ELSE [run[r] EXCEPT !.alone = FALSE]
    BY <1>4 DEF BecomesNoticed, Noticed
  <2>2. CASE IsAt(r, "idle")
    BY <1>1, <2>1, <2>2 DEF Clean
  <2>3. CASE ~IsAt(r, "idle")
    <3>1. run'[r] = [run[r] EXCEPT !.alone = FALSE]
      BY <2>1, <2>3
    <3>2. ~run'[r].alone
      BY <1>2, <3>1 DEF Record
    <3> QED
      BY <3>2 DEF Clean
  <2> QED
    BY <2>2, <2>3
<1> QED
  BY <1>3, <1>4

\* What is left to show of a step of a call in flight.
LEMMA OnlyItsOwn ==
  ASSUME AloneInv, run \in [Run -> Record], NEW q \in Run, InFlight(q), NEW s \in Record,
         Becomes(q, s) \/ BecomesNoticed(q, s),
         Clean(q)' /\ Clean(q) /\ (\A p \in Run \ {q} : ~InFlight(p)') => AloneFits(q)',
         s.alone => run[q].alone, s.faulty <=> run[q].faulty
  PROVE  AloneInv'
<1>1. run'[q] = s
  BY DEF Becomes, BecomesNoticed, Noticed
<1>2. Clean(q)' => Clean(q)
  BY <1>1 DEF Clean, InFlight
<1>3. ASSUME Clean(q), NEW p \in Run \ {q}  PROVE ~InFlight(p)'
  <2>1. ~InFlight(p)
    BY <1>3 DEF AloneInv, AloneFits
  <2>2. run'[p].phase = run[p].phase
    BY BecomesMoves, BecomesNoticedMoves DEF Moves, Same
  <2> QED
    BY <2>1, <2>2 DEF InFlight
<1>4. \A r \in Run \ {q} : ~Clean(r)'
  BY OthersAreNotAlone
<1> QED
  BY <1>2, <1>3, <1>4 DEF AloneInv

\* A call that finds no other in flight starts alone, the others no longer are.
LEMMA CallAlone ==
  ASSUME AloneInv, run \in [Run -> Record], NEW q \in Run, Call(q)
  PROVE  AloneInv'
<1> DEFINE free == \A p \in Run : ~InFlight(p)
           s == [Idle EXCEPT !.phase = "select", !.alone = free]
<1>0. free \in BOOLEAN
  OBVIOUS
<1>1. BecomesNoticed(q, s) /\ IsAt(q, "idle")
  BY DEF Call
<1> HIDE DEF free
<1>2. s \in Record /\ s.phase = "select" /\ (s.alone <=> free)
  BY <1>0 DEF Idle, Record, Phase
<1> HIDE DEF s
<1>3. run'[q] = s
  BY <1>1 DEF BecomesNoticed, Noticed
<1>4. Moves(q, s)
  BY <1>1, <1>2, BecomesNoticedMoves
<1>5. ASSUME Clean(q)'  PROVE AloneFits(q)'
  <2>1. free
    BY <1>2, <1>3, <1>5 DEF Clean
  <2>2. \A p \in Run \ {q} : ~InFlight(p)'
    BY <1>4, <2>1 DEF free, Moves, Same, InFlight
  <2> QED
    BY <1>2, <1>3, <2>2 DEF AloneFits
<1>6. ASSUME NEW r \in Run \ {q}  PROVE ~Clean(r)'
  <2>1. run'[r] = IF IsAt(r, "idle") THEN run[r] ELSE [run[r] EXCEPT !.alone = FALSE]
    BY <1>1 DEF BecomesNoticed, Noticed
  <2>2. CASE IsAt(r, "idle")
    BY <2>1, <2>2 DEF Clean, IsAt
  <2>3. CASE ~IsAt(r, "idle")
    <3>1. run'[r] = [run[r] EXCEPT !.alone = FALSE] /\ run[r] \in Record
      BY <2>1, <2>3
    <3>2. ~run'[r].alone
      BY <3>1 DEF Record
    <3> QED
      BY <3>2 DEF Clean
  <2> QED
    BY <2>2, <2>3
<1> QED
  BY <1>5, <1>6 DEF AloneInv

\* A removal chooses all that is there of the plan; nothing there, it may create.
LEMMA SelectAlone ==
  ASSUME IInv, AloneInv, NEW q \in Run, Select(q)
  PROVE  AloneInv'
<1> DEFINE chosen == {b \in Businesses : business[b] \in ToSet(Plan)}
           c == [run[q] EXCEPT !.phase = "create", !.at = 1, !.turn = 1]
           d == [run[q] EXCEPT !.phase = "delete", !.at = 1, !.chosen = chosen]
<1>1. UNCHANGED <<business, closed, rows, written>>
  BY DEF Select
<1>2. run[q] \in Record /\ run[q].phase = "select" /\ run \in [Run -> Record] /\ InFlight(q)
  BY DEF IInv, Select, IsAt, InFlight
<1>3. CASE chosen = {}
  <2>1. /\ c \in Record /\ c.phase = "create" /\ c.at = 1 /\ c.turn = 1
        /\ c.alone = run[q].alone /\ c.faulty = run[q].faulty
    BY <1>2 DEF Record, Phase
  <2>2. Becomes(q, c)
    BY <1>3 DEF Select
  <2> HIDE DEF c
  <2>3. run'[q] = c
    BY <1>2, <2>2 DEF Becomes
  <2>4. \A i \in 1 .. Len(Plan) : OfSlug(Plan[i])' = {}
    <3>1. \A i \in 1 .. Len(Plan) : Plan[i] \in ToSet(Plan)
      BY PlanAssumption DEF ToSet
    <3>2. Businesses' = Businesses /\ business' = business
      BY <1>1 DEF Businesses
    <3> QED
      BY <1>3, <3>1, <3>2 DEF OfSlug
  <2>5. Building(q)'
    BY <2>1, <2>3, <2>4, PlanHasFirst DEF Building, OfSlug
  <2>6. (\A p \in Run \ {q} : ~InFlight(p)') => AloneFits(q)'
    BY <2>1, <2>3, <2>5 DEF AloneFits
  <2> QED
    BY <1>2, <2>1, <2>2, <2>6, OnlyItsOwn
<1>4. CASE chosen # {}
  <2>1. Becomes(q, d)
    BY <1>4 DEF Select
  <2>2. chosen \in SUBSET Nat
    BY DEF Businesses, BusinessId
  <2>3. \A b \in Businesses : business[b] \in ToSet(Plan) => b \in chosen
    OBVIOUS
  <2> HIDE DEF chosen
  <2>4. /\ d \in Record /\ d.phase = "delete" /\ d.at = 1 /\ d.chosen = chosen
        /\ d.alone = run[q].alone /\ d.faulty = run[q].faulty
    BY <1>2, <2>2 DEF Record, Phase
  <2> HIDE DEF d
  <2>5. run'[q] = d
    BY <1>2, <2>1 DEF Becomes
  <2>6. Emptied(1) = {}
    BY DEF Emptied
  <2>7. Removing(q)'
    BY <1>1, <2>3, <2>4, <2>5, <2>6 DEF Removing, Businesses
  <2>8. (\A p \in Run \ {q} : ~InFlight(p)') => AloneFits(q)'
    BY <2>4, <2>5, <2>7 DEF AloneFits
  <2> QED
    BY <1>2, <2>1, <2>4, <2>8, OnlyItsOwn
<1> QED
  BY <1>3, <1>4

\* No statement of a removal that is alone is refused by a foreign key.
LEMMA DeleteAlone ==
  ASSUME IInv, AloneInv, NEW q \in Run, Delete(q)
  PROVE  AloneInv'
<1> DEFINE d == [run[q] EXCEPT !.at = @ + 1, !.doomed = @ \cup Targets(q)]
<1>1. UNCHANGED <<business, closed, rows, written>>
  BY DEF Delete
<1>2. /\ run[q] \in Record /\ run[q].phase = "delete" /\ run \in [Run -> Record] /\ InFlight(q)
      /\ RunFits(q) /\ Deleting(q) /\ run[q].at \in 1 .. 10
  BY LengthsAre DEF IInv, Delete, IsAt, InFlight, RunFits, Deleting
<1>3. ASSUME Clean(q)  PROVE Dangling(q) = {}
  <2>1. Removing(q)
    BY <1>2, <1>3 DEF AloneInv, AloneFits
  <2>2. ASSUME NEW x \in Dangling(q)  PROVE FALSE
    <3>1. /\ x \in rows /\ x.of \in run[q].chosen /\ x \notin run[q].doomed
          /\ x.table \notin Along(Deletes[run[q].at])
          /\ Restricting(x.table) \cap Along(Deletes[run[q].at]) # {}
      BY DEF Dangling, Remaining
    <3>2. x.table \in Table
      BY <3>1 DEF IInv, TablesOk
    <3>3. x.table \in Emptied(run[q].at)
      BY <1>2, <3>1, <3>2, DeletesInOrder
    <3> QED
      BY <2>1, <3>1, <3>3 DEF Removing
  <2> QED
    BY <2>2
<1>4. CASE Dangling(q) # {}
  <2>1. Becomes(q, Failed(q)) /\ ~Clean(q)
    BY <1>3, <1>4 DEF Delete
  <2>2. Failed(q) \in Record /\ Failed(q).alone = run[q].alone /\ Failed(q).faulty = run[q].faulty
    BY <1>2 DEF Failed, Record, Phase
  <2> QED
    BY <1>2, <2>1, <2>2, OnlyItsOwn
<1>5. CASE Dangling(q) = {}
  <2>1. Becomes(q, d)
    BY <1>5 DEF Delete
  <2>2. Targets(q) \subseteq [table : Table, of : Nat]
    BY DEF Targets, Remaining, IInv, TablesOk
  <2>3. PICK targets \in SUBSET [table : Table, of : Nat] : targets = Targets(q)
    BY <2>2
  <2>4. PICK k \in Nat : k = run[q].at + 1
    BY <1>2
  <2>5. d = [run[q] EXCEPT !.at = k, !.doomed = run[q].doomed \cup targets]
    BY <2>3, <2>4, Zenon
  <2>6. run[q].doomed \cup targets \in SUBSET [table : Table, of : Nat]
    BY <1>2 DEF Record
  <2>7. /\ d \in Record /\ d.phase = "delete" /\ d.at = k
        /\ d.chosen = run[q].chosen /\ d.doomed = run[q].doomed \cup targets
        /\ d.alone = run[q].alone /\ d.faulty = run[q].faulty
    <3> HIDE DEF d
    <3> QED
      BY <1>2, <2>5, <2>6 DEF Record
  <2> HIDE DEF d
  <2>8. run'[q] = d
    BY <1>2, <2>1 DEF Becomes
  <2>9. ASSUME Clean(q)  PROVE Removing(q)'
    <3>1. Removing(q)
      BY <1>2, <2>9 DEF AloneInv, AloneFits
    <3>2. ASSUME NEW x \in rows, x.of \in run[q].chosen, x.table \in Emptied(k)
          PROVE  x \in d.doomed
      <4>1. CASE x.table \in Emptied(run[q].at)
        BY <2>7, <3>1, <3>2, <4>1 DEF Removing
      <4>2. CASE x.table \in Along(Deletes[run[q].at])
        BY <2>3, <2>7, <3>2, <4>2 DEF Targets, Remaining
      <4> QED
        BY <1>2, <2>4, <3>2, <4>1, <4>2, EmptiedGrows
    <3>3. Businesses' = Businesses /\ business' = business /\ rows' = rows
      BY <1>1 DEF Businesses
    <3> QED
      BY <2>7, <2>8, <3>1, <3>2, <3>3 DEF Removing
  <2>10. Clean(q) /\ (\A p \in Run \ {q} : ~InFlight(p)') => AloneFits(q)'
    BY <2>7, <2>8, <2>9 DEF AloneFits
  <2> QED
    BY <1>2, <2>1, <2>7, <2>10, OnlyItsOwn
<1> QED
  BY <1>4, <1>5

\* With the commit nothing of the plan is left, so the creation starts from none.
LEMMA CommitAlone ==
  ASSUME IInv, AloneInv, NEW q \in Run, Commit(q)
  PROVE  AloneInv'
<1> DEFINE c == [run[q] EXCEPT !.phase = "create", !.at = 1, !.turn = 1,
                               !.chosen = {}, !.doomed = {}]
<1>1. /\ run[q] \in Record /\ run[q].phase = "delete" /\ run \in [Run -> Record]
      /\ InFlight(q)
  BY DEF IInv, Commit, IsAt, InFlight
<1>2. c \in Record
  BY <1>1 DEF Record, Phase
<1>3. c.phase = "create" /\ c.at = 1 /\ c.turn = 1
  BY <1>1 DEF Record
<1>4. c.alone = run[q].alone /\ c.faulty = run[q].faulty
  BY <1>1 DEF Record
<1>5. /\ BecomesNoticed(q, c) /\ UNCHANGED <<business, closed, written>>
      /\ rows' = rows \ run[q].doomed
  BY DEF Commit
<1> HIDE DEF c
<1>6. run'[q] = c
  BY <1>5 DEF BecomesNoticed, Noticed
<1>7. run[q].doomed = {x \in rows : x.of \in run[q].chosen}
  BY RemovesAll DEF Commit
<1>8. ASSUME Clean(q), NEW i \in 1 .. Len(Plan)  PROVE OfSlug(Plan[i])' = {}
  <2>1. Removing(q)
    BY <1>1, <1>8 DEF AloneInv, AloneFits
  <2>2. Plan[i] \in ToSet(Plan)
    BY PlanAssumption DEF ToSet
  <2>3. ASSUME NEW b \in Businesses', business'[b] = Plan[i]  PROVE FALSE
    <3>1. /\ [table |-> "tenants", of |-> b] \in rows
          /\ [table |-> "tenants", of |-> b] \notin run[q].doomed
      BY <1>5, <2>3 DEF Businesses
    <3>2. b \in Businesses /\ business[b] \in ToSet(Plan)
      BY <1>5, <2>2, <2>3, <3>1 DEF Businesses
    <3> QED
      BY <1>7, <2>1, <3>1, <3>2 DEF Removing
  <2> QED
    BY <2>3 DEF OfSlug
<1>9. ASSUME Clean(q)  PROVE Building(q)'
  BY <1>3, <1>6, <1>8, <1>9 DEF Building, OfSlug
<1>10. Clean(q) /\ (\A p \in Run \ {q} : ~InFlight(p)') => AloneFits(q)'
  BY <1>3, <1>6, <1>9 DEF AloneFits
<1> QED
  BY <1>1, <1>2, <1>4, <1>5, <1>10, OnlyItsOwn

\* The creation goes on in its order.
LEMMA AfterSaveGoes ==
  ASSUME run \in [Run -> Record], NEW r \in Run, IsAt(r, "create"), Creating(r),
         NEW made \in SUBSET Nat
  PROVE  LET s == AfterSave(r, made)
         IN /\ s.alone = run[r].alone /\ s.faulty = run[r].faulty
            /\ run[r].at < 8 =>
                 s.phase = "create" /\ s.at = run[r].at + 1 /\ s.turn = run[r].turn
            /\ run[r].at = 8 /\ run[r].turn < Len(Plan) =>
                 s.phase = "create" /\ s.at = 1 /\ s.turn = run[r].turn + 1
            /\ run[r].at = 8 /\ run[r].turn = Len(Plan) => s.phase = "ok"
<1> DEFINE m == [run[r] EXCEPT !.made = made]
<1>1. run[r] \in Record /\ run[r].phase = "create"
  BY DEF IsAt
<1>2. m \in Record
  BY <1>1 DEF Record
<1>3. /\ m.phase = "create" /\ m.at = run[r].at /\ m.turn = run[r].turn
      /\ m.alone = run[r].alone /\ m.faulty = run[r].faulty
  BY <1>1 DEF Record
<1>4. m.at \in 1 .. 8 /\ m.turn \in 1 .. Len(Plan)
  BY <1>3, LengthsAre DEF Creating
<1> HIDE DEF m
<1>5. AfterSave(r, made) =
        IF m.at < 8 THEN [m EXCEPT !.at = @ + 1]
        ELSE IF m.turn < Len(Plan) THEN [m EXCEPT !.at = 1, !.turn = @ + 1]
        ELSE [m EXCEPT !.phase = "ok"]
  BY LengthsAre DEF AfterSave, m
<1>6. CASE m.at < 8
  <2>1. AfterSave(r, made) = [m EXCEPT !.at = m.at + 1]
    BY <1>5, <1>6
  <2>2. m.at + 1 \in 1 .. 8 /\ m.at + 1 \in Nat
    BY <1>4, <1>6
  <2>3. QED
    BY <1>2, <1>3, <1>4, <1>6, <2>1, <2>2 DEF Record
<1>7. CASE ~(m.at < 8) /\ m.turn < Len(Plan)
  <2>1. AfterSave(r, made) = [m EXCEPT !.at = 1, !.turn = m.turn + 1]
    BY <1>5, <1>7
  <2> DEFINE n == [m EXCEPT !.at = 1, !.turn = m.turn + 1]
  <2>2. n.at = 1 /\ n.turn = m.turn + 1
    BY <1>2 DEF Record
  <2>3. n.phase = m.phase /\ n.alone = m.alone /\ n.faulty = m.faulty
    BY <1>2 DEF Record
  <2>4. AfterSave(r, made) = n
    BY <2>1
  <2> HIDE DEF n
  <2>5. QED
    BY <1>3, <1>4, <1>7, <2>2, <2>3, <2>4
<1>8. CASE ~(m.at < 8) /\ ~(m.turn < Len(Plan))
  <2>1. AfterSave(r, made) = [m EXCEPT !.phase = "ok"]
    BY <1>5, <1>8
  <2>2. QED
    BY <1>2, <1>3, <1>4, <1>8, <2>1, PlanHasFirst DEF Record
<1>9. QED
  BY <1>6, <1>7, <1>8

\* Where rows are added to businesses of other slugs.
LEMMA OthersStay ==
  ASSUME TablesOk, NEW slug, rows \subseteq rows', closed' = closed,
         \A b \in 1 .. Newest : business'[b] = business[b],
         \A x \in rows' \ rows : business'[x.of] # slug
  PROVE  /\ OfSlug(slug)' = OfSlug(slug)
         /\ Complete(slug) => Complete(slug)'
<1>1. \A x \in rows : x.of \in 1 .. Newest
  BY DEF TablesOk
<1>2. \A b \in BusinessId :
        b \in Businesses' /\ business'[b] = slug <=> b \in Businesses /\ business[b] = slug
  <2>1. SUFFICES ASSUME NEW b \in BusinessId
                 PROVE  b \in Businesses' /\ business'[b] = slug <=>
                          b \in Businesses /\ business[b] = slug
    OBVIOUS
  <2> DEFINE x == [table |-> "tenants", of |-> b]
  <2>2. x.of = b
    OBVIOUS
  <2>3. (b \in Businesses <=> x \in rows) /\ (b \in Businesses' <=> x \in rows')
    BY DEF Businesses
  <2> HIDE DEF x
  <2> QED
    BY <1>1, <2>2, <2>3
<1>3. OfSlug(slug)' = OfSlug(slug)
  BY <1>2 DEF OfSlug, Businesses
<1>4. ASSUME Complete(slug)  PROVE Complete(slug)'
  <2>1. PICK b \in Businesses \ closed : OfSlug(slug) = {b} /\ RowsOf(b) = Planned(b)
    BY <1>4 DEF Complete
  <2>2. b \in OfSlug(slug) /\ b \in OfSlug(slug)'
    BY <1>3, <2>1
  <2>3. business'[b] = slug /\ b \in Businesses'
    BY <2>2 DEF OfSlug
  <2>4. RowsOf(b)' = RowsOf(b)
    BY <2>3 DEF RowsOf
  <2> QED
    BY <1>3, <2>1, <2>3, <2>4 DEF Complete, Planned
<1> QED
  BY <1>3, <1>4

\* No slug is twice in the plan.
LEMMA PlanDiffers ==
  ASSUME NEW i \in 1 .. Len(Plan), NEW j \in 1 .. Len(Plan), i # j
  PROVE  Plan[i] # Plan[j] /\ Plan[i] \in Slug
BY PlanAssumption DEF IsInjective

\* The business at the turn is the only one of its slug, with its row alone.
LEMMA SaveBusinessAlone ==
  ASSUME IInv, AloneInv, TypeOK', NEW q \in Run, SaveBusiness(q)
  PROVE  AloneInv'
<1>0. PICK turn, slug, n : turn = run[q].turn /\ slug = Plan[turn] /\ n = Newest + 1
  OBVIOUS
<1> DEFINE s == AfterSave(q, run[q].made \cup {n})
           x == [table |-> "tenants", of |-> n]
<1>1. /\ run[q] \in Record /\ IsAt(q, "create") /\ run \in [Run -> Record] /\ InFlight(q)
      /\ RunFits(q) /\ Creating(q) /\ run[q].at = 1 /\ run[q].phase = "create"
  BY DEF IInv, SaveBusiness, IsAt, InFlight, RunFits
<1>2. turn \in 1 .. Len(Plan) /\ Newest \in Nat /\ n \in Nat /\ TablesOk /\ slug \in Slug
  BY <1>0, <1>1, PlanAssumption DEF Creating, IInv, TablesOk, Newest
<1>3. ASSUME Clean(q)  PROVE Building(q) /\ Holders(slug) = {} /\ OfSlug(slug) = {}
  <2>1. Building(q)
    BY <1>0, <1>1, <1>3 DEF AloneInv, AloneFits
  <2>2. OfSlug(slug) = {}
    BY <1>0, <1>1, <1>2, <2>1 DEF Building
  <2> QED
    BY <2>1, <2>2 DEF Holders, OfSlug
<1>4. CASE Holders(slug) # {}
  <2>1. Becomes(q, Failed(q)) /\ ~Clean(q)
    BY <1>0, <1>3, <1>4 DEF SaveBusiness
  <2>2. Failed(q) \in Record /\ Failed(q).alone = run[q].alone /\ Failed(q).faulty = run[q].faulty
    BY <1>1 DEF Failed, Record, Phase
  <2> QED
    BY <1>0, <1>1, <2>1, <2>2, OnlyItsOwn
<1>5. CASE Holders(slug) = {}
  <2>1. /\ business' = Append(business, slug) /\ rows' = rows \cup {x} /\ closed' = closed
        /\ BecomesNoticed(q, s)
    BY <1>0, <1>5 DEF SaveBusiness
  <2>2. /\ \A b \in 1 .. Newest : business'[b] = business[b]
        /\ business'[n] = slug /\ Newest' = n
    BY <1>0, <1>2, <2>1 DEF TablesOk, Newest
  <2>3. n \in BusinessId
    BY <2>2 DEF TypeOK
  <2>4. run[q].made \cup {n} \in SUBSET Nat /\ run[q].made \cup {n} # {}
    BY <1>0, <1>1, <1>2 DEF Record
  <2>5. s \in Record /\ s.made = run[q].made \cup {n}
    BY <1>0, <1>1, <2>4, AfterSaveIs
  <2>6. /\ s.alone = run[q].alone /\ s.faulty = run[q].faulty
        /\ s.phase = "create" /\ s.at = 2 /\ s.turn = turn
    BY <1>0, <1>1, <2>4, AfterSaveGoes
  <2> HIDE DEF s
  <2>7. run'[q] = s
    BY <2>1 DEF BecomesNoticed, Noticed
  <2>8. x.of = n /\ x.table = "tenants"
    OBVIOUS
  <2>9. ASSUME NEW i \in 1 .. Len(Plan), i # turn
        PROVE  OfSlug(Plan[i])' = OfSlug(Plan[i]) /\ (Complete(Plan[i]) => Complete(Plan[i])')
    <3>1. Plan[i] # slug
      BY <1>0, <1>2, <2>9, PlanDiffers
    <3>2. \A y \in rows' \ rows : business'[y.of] # Plan[i]
      BY <2>1, <2>2, <2>8, <3>1
    <3> HIDE DEF x
    <3> QED
      BY <1>0, <1>2, <2>1, <2>2, <3>2, OthersStay
  <2>10. ASSUME OfSlug(slug) = {}  PROVE OfSlug(slug)' = {n}
    <3>1. ASSUME NEW b \in BusinessId
          PROVE  b \in Businesses' /\ business'[b] = slug <=> b = n
      <4> DEFINE y == [table |-> "tenants", of |-> b]
      <4>1. y.of = b /\ (y = x <=> b = n)
        OBVIOUS
      <4>2. (b \in Businesses <=> y \in rows) /\ (b \in Businesses' <=> y \in rows')
        BY DEF Businesses
      <4>3. y \in rows => b \in 1 .. Newest
        BY <1>2, <4>1 DEF TablesOk
      <4>4. ~(b \in Businesses /\ business[b] = slug)
        BY <2>10 DEF OfSlug
      <4> HIDE DEF x, y
      <4> QED
        BY <2>1, <2>2, <4>1, <4>2, <4>3, <4>4
    <3> QED
      BY <2>3, <3>1 DEF OfSlug, Businesses
  <2>11. RowsOf(n)' = In(Filled(2), n)
    <3>1. \A y \in rows : y.of # n
      BY <1>0, <1>2 DEF TablesOk
    <3>2. RowsOf(n)' = {x}
      BY <2>1, <2>8, <3>1 DEF RowsOf
    <3>3. Filled(1) = {} /\ Filled(1 + 1) = Filled(1) \cup Saves[1] /\ Saves[1] = {"tenants"}
      BY FilledGrows, SavesAre
    <3>4. Filled(2) = {"tenants"}
      BY <3>3
    <3> QED
      BY <3>2, <3>4 DEF In
  <2>12. n \notin closed'
    BY <1>0, <1>2, <2>1 DEF TablesOk
  <2>13. ASSUME Clean(q)  PROVE Building(q)'
    <3>1. Building(q) /\ OfSlug(slug)' = {n}
      BY <1>3, <2>10, <2>13
    <3>2. UnderWay(q)'
      <4>1. n \in run'[q].made
        BY <2>5, <2>7
      <4>2. RowsOf(Newest)' = In(Filled(run'[q].at), Newest')
        BY <2>2, <2>6, <2>7, <2>11 DEF RowsOf
      <4>3. \A i \in 1 .. Len(Plan) : i = run'[q].turn => OfSlug(Plan[i])' = {n}
        <5>1. OfSlug(Plan[turn])' = {n}
          BY <1>0, <3>1 DEF OfSlug
        <5>2. run'[q].turn = turn
          BY <2>6, <2>7
        <5> QED
          BY <5>1, <5>2 DEF OfSlug
      <4> QED
        BY <2>2, <2>12, <4>1, <4>2, <4>3 DEF UnderWay, OfSlug, RowsOf
    <3>3. \A i \in 1 .. Len(Plan) : i < turn => Complete(Plan[i])'
      BY <1>0, <1>2, <2>9, <3>1 DEF Building
    <3>4. \A i \in 1 .. Len(Plan) : i > turn => OfSlug(Plan[i])' = {}
      BY <1>0, <1>2, <2>9, <3>1 DEF Building, OfSlug
    <3>5. run'[q].at = 2 /\ run'[q].turn = turn
      BY <2>6, <2>7
    <3>6. \A i \in 1 .. Len(Plan) :
            i > run'[q].turn \/ (i = run'[q].turn /\ run'[q].at = 1) => OfSlug(Plan[i])' = {}
      BY <3>4, <3>5 DEF OfSlug
    <3> QED
      BY <3>2, <3>3, <3>5, <3>6 DEF Building, OfSlug
  <2>14. Clean(q) /\ (\A p \in Run \ {q} : ~InFlight(p)') => AloneFits(q)'
    BY <2>6, <2>7, <2>13 DEF AloneFits
  <2> QED
    BY <1>0, <1>1, <2>1, <2>5, <2>6, <2>14, OnlyItsOwn
<1> QED
  BY <1>4, <1>5

\* A call that is alone saves into the newest business, and has saved before
\* whatever the new rows name.
LEMMA SavesAlone ==
  ASSUME IInv, NEW q \in Run, IsAt(q, "create"), run[q].at > 1, UnderWay(q)
  PROVE  /\ Saved(q) = In(Saves[run[q].at], Newest)
         /\ Needed(Saved(q)) \subseteq rows
<1> DEFINE b == CHOOSE b \in run[q].made : \A c \in run[q].made : c <= b
           k == run[q].at
<1>1. Creating(q) /\ run[q].made \subseteq 1 .. Newest /\ Newest \in Nat
  BY DEF IInv, RunFits, TablesOk, Newest
<1>2. run[q].made # {} /\ k \in 2 .. 8
  BY <1>1, LengthsAre DEF Creating
<1>3. b \in run[q].made /\ \A c \in run[q].made : c <= b
  BY <1>1, <1>2, HasGreatest
<1>4. Newest \in run[q].made
  BY DEF UnderWay
<1> HIDE DEF b
<1>5. b = Newest
  BY <1>1, <1>3, <1>4
<1>6. Saved(q) = In(Saves[k], Newest)
  BY <1>5 DEF Saved, b
<1>7. ASSUME NEW y \in Needed(Saved(q))  PROVE y \in rows
  <2>1. PICK z \in Saved(q) : y \in Parents(z)
    BY DEF Needed
  <2>2. y \notin Saved(q)
    BY DEF Needed
  <2>3. PICK t \in Saves[k] : z = [table |-> t, of |-> Newest]
    BY <1>6, <2>1 DEF In
  <2>4. z.table = t /\ z.of = Newest
    BY <2>3
  <2>5. PICK u \in Restricting(t) \cup Cascading(t) : y = [table |-> u, of |-> Newest]
    BY <2>1, <2>4 DEF Parents, In
  <2>6. u \in Filled(k)
    <3>1. u \notin Saves[k]
      BY <1>6, <2>2, <2>5 DEF In
    <3> QED
      BY <1>2, <3>1, SavesInOrder
  <2>7. y \in In(Filled(k), Newest)
    BY <2>5, <2>6 DEF In
  <2> QED
    BY <2>7 DEF UnderWay, RowsOf
<1> QED
  BY <1>6, <1>7

\* A save of a call that is alone finds all that its rows name.
LEMMA SaveAlone ==
  ASSUME IInv, AloneInv, NEW q \in Run, Save(q)
  PROVE  AloneInv'
<1> DEFINE s == AfterSave(q, run[q].made)
<1>0. PICK k, turn, n : k = run[q].at /\ turn = run[q].turn /\ n = Newest
  OBVIOUS
<1>1. /\ run[q] \in Record /\ IsAt(q, "create") /\ run \in [Run -> Record] /\ InFlight(q)
      /\ RunFits(q) /\ Creating(q) /\ run[q].phase = "create" /\ k \in 2 .. 8
      /\ turn \in 1 .. Len(Plan) /\ run[q].at > 1
  BY <1>0, LengthsAre DEF IInv, Save, IsAt, InFlight, RunFits, Creating
<1>2. run[q].made \in SUBSET Nat /\ run[q].made # {} /\ n \in Nat /\ TablesOk
  BY <1>0, <1>1 DEF Record, Creating, IInv, TablesOk, Newest
<1>3. s \in Record /\ s.made = run[q].made
  BY <1>1, <1>2, AfterSaveIs
<1>4. /\ s.alone = run[q].alone /\ s.faulty = run[q].faulty
      /\ k < 8 => s.phase = "create" /\ s.at = k + 1 /\ s.turn = turn
      /\ k = 8 /\ turn < Len(Plan) => s.phase = "create" /\ s.at = 1 /\ s.turn = turn + 1
      /\ k = 8 /\ turn = Len(Plan) => s.phase = "ok"
  BY <1>0, <1>1, <1>2, AfterSaveGoes
<1> HIDE DEF s
<1>5. UNCHANGED <<business, closed, written>>
  BY DEF Save
<1>6. ASSUME Clean(q)  PROVE Building(q) /\ UnderWay(q)
  BY <1>1, <1>6 DEF AloneInv, AloneFits, Building
<1>7. CASE Needed(Saved(q)) \subseteq rows
  <2>1. rows' = rows \cup Saved(q) /\ BecomesNoticed(q, s)
    BY <1>7 DEF Save, s
  <2>2. run'[q] = s
    BY <2>1 DEF BecomesNoticed, Noticed
  <2>3. Newest' = n /\ business' = business /\ closed' = closed
    BY <1>0, <1>5 DEF Newest
  <2>4. Businesses' = Businesses
    <3>1. \A x \in Saved(q) : x.table # "tenants"
      BY <1>1, SavedAre
    <3>2. \A b \in BusinessId : [table |-> "tenants", of |-> b] \notin Saved(q)
      BY <3>1
    <3> QED
      BY <2>1, <3>2 DEF Businesses
  <2>5. \A slug : OfSlug(slug)' = OfSlug(slug)
    BY <2>3, <2>4 DEF OfSlug
  <2>6. ASSUME Clean(q)
        PROVE  /\ OfSlug(Plan[turn]) = {n}
               /\ RowsOf(n)' = In(Filled(k + 1), n)
               /\ n \notin closed /\ n \in run[q].made /\ n \in Businesses
               /\ \A i \in 1 .. Len(Plan) : i # turn /\ Complete(Plan[i]) => Complete(Plan[i])'
    <3>1. UnderWay(q) /\ Saved(q) = In(Saves[k], n)
      BY <1>0, <1>1, <1>6, <2>6, SavesAlone
    <3>2. OfSlug(Plan[turn]) = {n} /\ n \notin closed /\ n \in run[q].made
      BY <1>0, <1>1, <3>1 DEF UnderWay
    <3>3. n \in Businesses /\ business[n] = Plan[turn]
      BY <3>2 DEF OfSlug
    <3>4. \A x \in Saved(q) : x.of = n
      BY <3>1 DEF In
    <3>5. RowsOf(n)' = RowsOf(n) \cup Saved(q)
      BY <2>1, <3>4 DEF RowsOf
    <3>6. RowsOf(n) = In(Filled(k), n)
      BY <1>0, <3>1 DEF UnderWay
    <3>7. Filled(k + 1) = Filled(k) \cup Saves[k]
      BY <1>1, FilledGrows
    <3>8. RowsOf(n)' = In(Filled(k + 1), n)
      BY <3>1, <3>5, <3>6, <3>7 DEF In
    <3>9. ASSUME NEW i \in 1 .. Len(Plan), i # turn, Complete(Plan[i])  PROVE Complete(Plan[i])'
      <4>1. Plan[i] # Plan[turn]
        BY <1>1, <3>9, PlanDiffers
      <4>2. \A x \in rows' \ rows : business'[x.of] # Plan[i]
        BY <2>1, <2>3, <3>3, <3>4, <4>1
      <4>3. rows \subseteq rows' /\ \A b \in 1 .. Newest : business'[b] = business[b]
        BY <2>1, <2>3
      <4> QED
        BY <1>2, <2>3, <3>9, <4>2, <4>3, OthersStay
    <3> QED
      BY <3>2, <3>3, <3>8, <3>9
  <2>7. ASSUME Clean(q)
        PROVE  /\ \A i \in 1 .. Len(Plan) : i < turn => Complete(Plan[i])'
               /\ \A i \in 1 .. Len(Plan) : i > turn => OfSlug(Plan[i])' = {}
    <3>1. Building(q)
      BY <1>6, <2>7
    <3>2. \A i \in 1 .. Len(Plan) : i < turn => Complete(Plan[i])
      BY <1>0, <3>1 DEF Building
    <3>3. \A i \in 1 .. Len(Plan) : i > turn => OfSlug(Plan[i]) = {}
      BY <1>0, <3>1 DEF Building
    <3>4. \A i \in 1 .. Len(Plan) : i < turn => Complete(Plan[i])'
      BY <1>1, <2>6, <2>7, <3>2
    <3>5. \A i \in 1 .. Len(Plan) : i > turn => OfSlug(Plan[i])' = {}
      BY <2>5, <3>3 DEF OfSlug
    <3> QED
      BY <3>4, <3>5
  <2>8. ASSUME Clean(q), k = 8  PROVE Complete(Plan[turn])'
    <3>1. Filled(k + 1) = Table \ {"sessions"}
      BY <2>8, FilledGrows
    <3>2. RowsOf(n)' = Planned(n)
      BY <2>6, <2>8, <3>1 DEF Planned
    <3>3. OfSlug(Plan[turn])' = {n}
      BY <2>3, <2>4, <2>6, <2>8 DEF OfSlug
    <3>4. n \in Businesses' \ closed'
      BY <2>3, <2>4, <2>6, <2>8
    <3> QED
      BY <3>2, <3>3, <3>4 DEF Complete, Planned
  <2>9. ASSUME Clean(q), k < 8  PROVE Building(q)'
    <3>1. run'[q].at = k + 1 /\ run'[q].turn = turn /\ run'[q].made = run[q].made
      BY <1>3, <1>4, <2>2, <2>9
    <3>2. OfSlug(Plan[turn])' = {n}
      BY <2>3, <2>4, <2>6, <2>9 DEF OfSlug
    <3>3. \A i \in 1 .. Len(Plan) : i = run'[q].turn => OfSlug(Plan[i])' = {n}
      BY <3>1, <3>2 DEF OfSlug
    <3>4. UnderWay(q)'
      BY <2>3, <2>6, <2>9, <3>1, <3>3 DEF UnderWay, OfSlug, RowsOf
    <3>5. \A i \in 1 .. Len(Plan) :
            i > run'[q].turn \/ (i = run'[q].turn /\ run'[q].at = 1) => OfSlug(Plan[i])' = {}
      BY <1>1, <2>7, <2>9, <3>1 DEF OfSlug
    <3>6. \A i \in 1 .. Len(Plan) : i < run'[q].turn => Complete(Plan[i])'
      BY <2>7, <2>9, <3>1
    <3> QED
      BY <3>4, <3>5, <3>6 DEF Building, OfSlug
  <2>10. ASSUME Clean(q), k = 8, turn < Len(Plan)  PROVE Building(q)'
    <3>1. run'[q].at = 1 /\ run'[q].turn = turn + 1
      BY <1>4, <2>2, <2>10
    <3>2. \A i \in 1 .. Len(Plan) :
            i > run'[q].turn \/ (i = run'[q].turn /\ run'[q].at = 1) => OfSlug(Plan[i])' = {}
      BY <1>1, <2>7, <2>10, <3>1, PlanHasFirst DEF OfSlug
    <3>3. \A i \in 1 .. Len(Plan) : i < turn + 1 => i < turn \/ i = turn
      BY <1>1, PlanHasFirst
    <3>4. \A i \in 1 .. Len(Plan) : i < run'[q].turn => Complete(Plan[i])'
      BY <2>7, <2>8, <2>10, <3>1, <3>3
    <3> QED
      BY <3>1, <3>2, <3>4 DEF Building, OfSlug
  <2>11. ASSUME Clean(q), k = 8, turn = Len(Plan)
         PROVE  \A i \in 1 .. Len(Plan) : Complete(Plan[i])'
    <3>1. \A i \in 1 .. Len(Plan) : i < turn \/ i = turn
      BY <2>11, PlanHasFirst
    <3> QED
      BY <2>7, <2>8, <2>11, <3>1
  <2>12. Clean(q) /\ (\A p \in Run \ {q} : ~InFlight(p)') => AloneFits(q)'
    <3>1. k < 8 \/ (k = 8 /\ turn < Len(Plan)) \/ (k = 8 /\ turn = Len(Plan))
      BY <1>1, PlanHasFirst
    <3> QED
      BY <1>4, <2>2, <2>9, <2>10, <2>11, <3>1 DEF AloneFits
  <2> QED
    BY <1>1, <1>3, <1>4, <2>1, <2>12, OnlyItsOwn
<1>8. CASE ~(Needed(Saved(q)) \subseteq rows)
  <2>1. ~Clean(q)
    BY <1>1, <1>6, <1>8, SavesAlone
  <2>2. Becomes(q, s) \/ Becomes(q, Failed(q))
    BY <1>8 DEF Save, s
  <2>3. Failed(q) \in Record /\ Failed(q).alone = run[q].alone /\ Failed(q).faulty = run[q].faulty
    BY <1>1 DEF Failed, Record, Phase
  <2>4. CASE Becomes(q, s)
    BY <1>1, <1>3, <1>4, <2>1, <2>4, OnlyItsOwn
  <2>5. CASE Becomes(q, Failed(q))
    BY <1>1, <2>1, <2>3, <2>5, OnlyItsOwn
  <2> QED
    BY <2>2, <2>4, <2>5
<1> QED
  BY <1>7, <1>8

\* A call that is alone waits for nobody.
LEMMA DeadlockedAlone ==
  ASSUME IInv, AloneInv, NEW q \in Run, Deadlocked(q)
  PROVE  AloneInv'
<1>1. run \in [Run -> Record] /\ run[q] \in Record /\ InFlight(q) /\ Becomes(q, Failed(q))
  BY DEF IInv, Deadlocked, IsAt, InFlight
<1>2. PICK p \in Run \ {q} : InFlight(p)
  BY DEF Deadlocked, IsAt, InFlight
<1>3. ~Clean(q)
  BY <1>2 DEF AloneInv, AloneFits
<1>4. Failed(q) \in Record /\ Failed(q).alone = run[q].alone /\ Failed(q).faulty = run[q].faulty
  BY <1>1 DEF Failed, Record, Phase
<1> QED
  BY <1>1, <1>3, <1>4, OnlyItsOwn

\* A call that met a failure promises nothing.
LEMMA BreaksAlone ==
  ASSUME IInv, IInv', AloneInv, NEW q \in Run, Breaks(q)
  PROVE  AloneInv'
<1>1. run \in [Run -> Record] /\ run' \in [Run -> Record] /\ InFlight(q)
  BY DEF IInv, Breaks
<1>2. PICK s : Becomes(q, s) /\ s.faulty
  <2> DEFINE m == AfterSave(q, run[q].made)
  <2>1. CASE IsAt(q, "create") /\ run[q].at > 1 /\ BestEffort(Saves[run[q].at])
    <3>1. Becomes(q, [m EXCEPT !.faulty = TRUE])
      BY <2>1 DEF Breaks
    <3>2. Creating(q) /\ run[q].made \in SUBSET Nat /\ run[q].made # {}
      BY <1>1, <2>1 DEF IInv, RunFits, Creating, Record
    <3>3. m \in Record
      BY <1>1, <2>1, <3>2, AfterSaveIs
    <3> HIDE DEF m
    <3>4. [m EXCEPT !.faulty = TRUE].faulty
      BY <3>3 DEF Record
    <3> QED
      BY <3>1, <3>4
  <2>2. CASE ~(IsAt(q, "create") /\ run[q].at > 1 /\ BestEffort(Saves[run[q].at]))
    <3>1. Becomes(q, [Failed(q) EXCEPT !.faulty = TRUE])
      BY <2>2 DEF Breaks
    <3>2. Failed(q) \in Record
      BY <1>1, FailedIs
    <3>3. [Failed(q) EXCEPT !.faulty = TRUE].faulty
      BY <3>2 DEF Record
    <3> QED
      BY <3>1, <3>3
  <2> QED
    BY <2>1, <2>2
<1>3. run'[q] = s /\ \A r \in Run \ {q} : run'[r] = run[r]
  BY <1>1, <1>2 DEF Becomes
<1>4. \A r \in Run : ~Clean(r)'
  <2>1. ~Clean(q)'
    BY <1>2, <1>3 DEF Clean
  <2>2. ASSUME NEW r \in Run \ {q}  PROVE ~Clean(r)'
    <3>1. ~Clean(r)
      BY <1>1 DEF AloneInv, AloneFits
    <3> QED
      BY <1>3, <3>1 DEF Clean
  <2> QED
    BY <2>1, <2>2
<1> QED
  BY <1>4 DEF AloneInv

\* An answer frees its place and changes no table.
LEMMA AnsweredAlone ==
  ASSUME IInv, AloneInv, NEW q \in Run, Answered(q)
  PROVE  AloneInv'
<1>1. /\ run \in [Run -> Record] /\ UNCHANGED <<business, closed, rows, written>>
      /\ run'[q] = Idle /\ \A r \in Run \ {q} : run'[r] = run[r]
  BY DEF IInv, Answered, Becomes
<1>2. ~Clean(q)' /\ ~InFlight(q)'
  BY <1>1 DEF Clean, Idle, InFlight
<1>3. ASSUME NEW r \in Run \ {q}, Clean(r)'  PROVE AloneFits(r)'
  <2>1. AloneFits(r) /\ run'[r] = run[r]
    BY <1>1, <1>3 DEF AloneInv, Clean
  <2>2. \A p \in Run \ {r} : ~InFlight(p)'
    BY <1>1, <1>2, <2>1 DEF AloneFits, InFlight
  <2>3. Removing(r) => Removing(r)'
    BY <1>1, <2>1 DEF Removing, Businesses
  <2>4. \A slug : OfSlug(slug)' = OfSlug(slug) /\ (Complete(slug) => Complete(slug)')
    BY <1>1 DEF OfSlug, Complete, Businesses, RowsOf, Planned
  <2>5. Building(r) => Building(r)'
    BY <1>1, <2>1, <2>4 DEF Building, UnderWay, OfSlug, Businesses, RowsOf, Newest
  <2> QED
    BY <2>1, <2>2, <2>3, <2>4, <2>5 DEF AloneFits
<1> QED
  BY <1>2, <1>3 DEF AloneInv

\* Once a client has written no call in flight is alone.
LEMMA ClientAlone ==
  ASSUME IInv, ClientWrites
  PROVE  AloneInv'
<1>1. run' = [r \in Run |-> IF IsAt(r, "idle") THEN run[r] ELSE [run[r] EXCEPT !.alone = FALSE]]
  BY DEF ClientWrites, Noticed
<1>2. ASSUME NEW r \in Run  PROVE ~Clean(r)'
  <2>1. CASE IsAt(r, "idle")
    BY <1>1, <2>1 DEF Clean, IsAt
  <2>2. CASE ~IsAt(r, "idle")
    <3>1. run'[r] = [run[r] EXCEPT !.alone = FALSE] /\ run[r] \in Record
      BY <1>1, <2>2 DEF IInv
    <3>2. ~run'[r].alone
      BY <3>1 DEF Record
    <3> QED
      BY <3>2 DEF Clean
  <2> QED
    BY <2>1, <2>2
<1> QED
  BY <1>2 DEF AloneInv

\* Nothing changes when nothing is done.
LEMMA StutterAlone ==
  ASSUME AloneInv, UNCHANGED vars
  PROVE  AloneInv'
<1>1. UNCHANGED <<business, closed, rows, written, run>>
  BY DEF vars
<1>2. \A slug : OfSlug(slug)' = OfSlug(slug) /\ (Complete(slug) => Complete(slug)')
  BY <1>1 DEF OfSlug, Complete, Businesses, RowsOf, Planned
<1>3. ASSUME NEW r \in Run  PROVE Building(r) => Building(r)'
  BY <1>1, <1>2 DEF Building, UnderWay, OfSlug, Businesses, RowsOf, Newest
<1>4. ASSUME NEW r \in Run  PROVE Removing(r) => Removing(r)'
  BY <1>1 DEF Removing, Businesses
<1>5. ASSUME NEW r \in Run, Clean(r)'  PROVE AloneFits(r)'
  <2>1. AloneFits(r)
    BY <1>1, <1>5 DEF AloneInv, Clean
  <2> QED
    BY <1>1, <1>2, <1>3, <1>4, <2>1 DEF AloneFits, InFlight
<1> QED
  BY <1>5 DEF AloneInv

\* Every step keeps what is said of the calls that are alone.
LEMMA NextAlone == IInv /\ IInv' /\ TypeOK' /\ AloneInv /\ [Next]_vars => AloneInv'
<1>1. SUFFICES ASSUME IInv, IInv', TypeOK', AloneInv, [Next]_vars PROVE AloneInv'
  OBVIOUS
<1>2. ASSUME NEW r \in Run, Call(r)  PROVE  AloneInv'
  BY <1>1, <1>2, CallAlone DEF IInv
<1>3. ASSUME NEW r \in Run, Select(r)  PROVE  AloneInv'
  BY <1>1, <1>3, SelectAlone
<1>4. ASSUME NEW r \in Run, Delete(r)  PROVE  AloneInv'
  BY <1>1, <1>4, DeleteAlone
<1>5. ASSUME NEW r \in Run, Commit(r)  PROVE  AloneInv'
  BY <1>1, <1>5, CommitAlone
<1>6. ASSUME NEW r \in Run, SaveBusiness(r)  PROVE  AloneInv'
  BY <1>1, <1>6, SaveBusinessAlone
<1>7. ASSUME NEW r \in Run, Save(r)  PROVE  AloneInv'
  BY <1>1, <1>7, SaveAlone
<1>8. ASSUME NEW r \in Run, Deadlocked(r)  PROVE  AloneInv'
  BY <1>1, <1>8, DeadlockedAlone
<1>9. ASSUME NEW r \in Run, Answered(r)  PROVE  AloneInv'
  BY <1>1, <1>9, AnsweredAlone
<1>10. ASSUME NEW r \in Run, Breaks(r)  PROVE  AloneInv'
  BY <1>1, <1>10, BreaksAlone
<1>11. ASSUME NEW x \in Row, ClientInserts(x)  PROVE  AloneInv'
  BY <1>1, <1>11, ClientAlone DEF ClientInserts
<1>12. ASSUME NEW b \in BusinessId, CloseBusiness(b)  PROVE  AloneInv'
  BY <1>1, <1>12, ClientAlone DEF CloseBusiness
<1>13. ASSUME UNCHANGED vars  PROVE  AloneInv'
  BY <1>1, <1>13, StutterAlone
<1>14. QED
  BY <1>1, <1>2, <1>3, <1>4, <1>5, <1>6, <1>7, <1>8, <1>9, <1>10, <1>11, <1>12, <1>13
  DEF Next, RunStep

\* Whatever earlier calls left half done, and whatever clients added to it or
\* closed, a call that stays alone and meets no failure succeeds, and leaves of
\* each slug of the plan one business, open and as planned: calling the endpoint
\* again is enough (docs/seed.md).
THEOREM CallAgain == Spec => []CallingAgainIsEnough
<1>1. Init => AloneInv
  BY DEF Init, Idle, AloneInv, Clean
<1>2. ASSUME AloneInv  PROVE CallingAgainIsEnough
  <2>1. SUFFICES ASSUME NEW r \in Run, run[r].phase \in {"ok", "failed"},
                        run[r].alone, ~run[r].faulty
                 PROVE  /\ run[r].phase = "ok"
                        /\ \A slug \in ToSet(Plan) :
                             \E b \in Businesses \ closed :
                               /\ {c \in Businesses : business[c] = slug} = {b}
                               /\ RowsOf(b) = Planned(b)
    BY DEF CallingAgainIsEnough
  <2>2. AloneFits(r) /\ run[r].phase = "ok"
    BY <1>2, <2>1 DEF AloneInv, Clean, AloneFits
  <2>3. ASSUME NEW slug \in ToSet(Plan)  PROVE Complete(slug)
    <3>1. PICK i \in 1 .. Len(Plan) : slug = Plan[i]
      BY PlanAssumption DEF ToSet
    <3> QED
      BY <2>2, <3>1 DEF AloneFits
  <2> QED
    BY <2>2, <2>3 DEF Complete, OfSlug
<1>3. QED
  BY <1>1, <1>2, NextAlone, SeedInvariant, SeedTypes, PTL DEF Spec
=============================================================================
