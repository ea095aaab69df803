-------------------------------- MODULE Seed --------------------------------
(***************************************************************************)
(* POST /seed (src/src/context/seed): removes the test businesses with     *)
(* everything of theirs and creates them again.  The removal is one        *)
(* transaction of a DELETE per table; the creation is not one: each save   *)
(* commits by itself.  Runs may overlap, clients go on working on the      *)
(* businesses, statements fail, and the process may die.                   *)
(*                                                                         *)
(* The minimums by branch (inventory_branch_configs) are deleted, inserted *)
(* and referenced as the batches are, and stand here for neither more nor  *)
(* less: one table is both.                                                *)
(*                                                                         *)
(* A row here stands for the rows of its table that belong to one business *)
(* and that the plan, or a client, inserted.  A statement that needs a row *)
(* an open transaction has deleted waits for it; two that wait for each    *)
(* other are told so, and one fails (PostgreSQL, READ COMMITTED).          *)
(***************************************************************************)
EXTENDS Integers, Sequences, FiniteSets, SequencesExt

CONSTANTS
  Run,          \* calls of the endpoint that can overlap
  Slug,         \* slugs
  Plan,         \* SEED_TENANTS: a sequence of slugs
  MaxBusiness,  \* bound: businesses ever created
  MaxClient     \* bound: writes of clients, all of them to businesses of the plan

ASSUME PlanAssumption == Plan \in Seq(Slug) /\ IsInjective(Plan) /\ Plan # <<>>
ASSUME SeedBounds ==
  /\ IsFiniteSet(Run) /\ IsFiniteSet(Slug)
  /\ MaxBusiness \in Nat /\ Cardinality(Slug) <= MaxBusiness
  /\ MaxClient \in Nat

VARIABLES
  business,  \* table tenants: the slug of each business ever created
  closed,    \* the businesses marked as deleted
  rows,      \* the rows of every table, this one included
  written,   \* writes of clients so far
  run        \* the calls in flight

vars == <<business, closed, rows, written, run>>

-----------------------------------------------------------------------------
(***************************************************************************)
(* Tables.                                                                 *)
(***************************************************************************)

\* Mutants of Deletes: the branches before the users who work there; the
\* businesses themselves forgotten.
BranchesBeforeUsers ==
  <<"sessions", "movements", "recipes", "products", "categories", "batches",
    "items", "branches", "users", "tenants">>

BusinessesForgotten ==
  <<"sessions", "movements", "recipes", "products", "categories", "batches",
    "items", "users", "branches">>

\* The statements of removeTenantsBySlug, in their order.
Deletes ==
  <<"sessions", "movements", "recipes", "products", "categories", "batches",
    "items", "users", "branches", "tenants">>

Table == ToSet(Deletes) \cup {"prices"}

\* The saves that make a business, each with the tables it inserts into.
Saves ==
  <<{"tenants"}, {"branches"}, {"users"}, {"items", "batches"}, {"movements"},
    {"categories"}, {"products", "recipes"}, {"prices"}>>

\* The event listener swallows its failure.
BestEffort(tables) == tables = {"movements"}

\* Foreign keys that refuse the deletion of what they name, and those that
\* delete along.
Restricting(t) ==
  CASE t = "sessions" -> {"tenants"}
    [] t \in {"movements", "batches"} -> {"items", "branches"}
    [] t = "recipes" -> {"items"}
    [] t = "prices" -> {"branches", "tenants"}
    [] t = "products" -> {"categories", "tenants"}
    [] t = "users" -> {"branches", "tenants"}
    [] t \in {"categories", "items", "branches"} -> {"tenants"}
    [] t = "tenants" -> {}

Cascading(t) ==
  CASE t = "sessions" -> {"users"}
    [] t \in {"recipes", "prices"} -> {"products"}
    [] OTHER -> {}

BusinessId == 1 .. MaxBusiness

Row == [table : Table, of : BusinessId]

\* The rows of b in the given tables.
In(tables, b) == {[table |-> t, of |-> b] : t \in tables}

RowsOf(b) == {x \in rows : x.of = b}

Businesses == {b \in BusinessId : [table |-> "tenants", of |-> b] \in rows}

Parents(x) == In(Restricting(x.table) \cup Cascading(x.table), x.of)

Newest == Len(business)

-----------------------------------------------------------------------------
(***************************************************************************)
(* Runs.  doomed: the rows deleted in the open transaction; alone: nobody  *)
(* else has written since the call; failed: a statement broke down.        *)
(***************************************************************************)

Phase == {"idle", "select", "delete", "create", "ok", "failed"}

Idle ==
  [phase |-> "idle", at |-> 0, turn |-> 0, chosen |-> {}, made |-> {}, doomed |-> {},
   alone |-> TRUE, faulty |-> FALSE]

IsAt(r, phase) == run[r].phase = phase

InFlight(r) == run[r].phase \notin {"idle", "ok", "failed"}

\* The runs but those of S are no longer alone.
Noticed(S) ==
  [q \in Run |-> IF q \in S \/ IsAt(q, "idle") THEN run[q] ELSE [run[q] EXCEPT !.alone = FALSE]]

\* The call goes on as s, and the others notice or not.
Becomes(r, s) == run' = [run EXCEPT ![r] = s]
BecomesNoticed(r, s) == run' = [Noticed({r}) EXCEPT ![r] = s]

\* Mutant of Failed: the transaction is left open.
FailedLeftOpen(r) == [run[r] EXCEPT !.phase = "failed"]

\* An error ends the call; the open transaction is rolled back.
Failed(r) == [run[r] EXCEPT !.phase = "failed", !.doomed = {}]

DoomedBy(r, S) == (UNION {run[q].doomed : q \in Run \ {r}}) \cap S

Call(r) ==
  /\ IsAt(r, "idle")
  /\ Newest + Len(Plan) * Cardinality({q \in Run : InFlight(q)} \cup {r}) <= MaxBusiness
  /\ BecomesNoticed(r, [Idle EXCEPT !.phase = "select", !.alone = \A q \in Run : ~InFlight(q)])
  /\ UNCHANGED <<business, closed, rows, written>>

\* The businesses with a slug of the plan, closed ones too.
Select(r) ==
  /\ IsAt(r, "select")
  /\ LET chosen == {b \in Businesses : business[b] \in ToSet(Plan)} IN
     Becomes(r, IF chosen = {}
                THEN [run[r] EXCEPT !.phase = "create", !.at = 1, !.turn = 1]
                ELSE [run[r] EXCEPT !.phase = "delete", !.at = 1, !.chosen = chosen])
  /\ UNCHANGED <<business, closed, rows, written>>

\* What the saves leave of a business.
Planned(b) == In(Table \ {"sessions"}, b)

\* The tables a DELETE from t empties.
Along(t) == {t} \cup {u \in Table : t \in Cascading(u)}

\* Rows of the chosen businesses nobody sees deleted by this call.
Remaining(r) == {x \in rows : x.of \in run[r].chosen} \ run[r].doomed

\* What the statement at hand deletes, and the rows that would be left naming
\* what is gone.
Targets(r) == {x \in Remaining(r) : x.table \in Along(Deletes[run[r].at])}

Dangling(r) ==
  {x \in Remaining(r) :
     /\ x.table \notin Along(Deletes[run[r].at])
     /\ Restricting(x.table) \cap Along(Deletes[run[r].at]) # {}}

DeleteWaits(r) == DoomedBy(r, Targets(r) \cup Dangling(r)) # {}

Delete(r) ==
  /\ IsAt(r, "delete")
  /\ run[r].at <= Len(Deletes)
  /\ ~DeleteWaits(r)
  /\ Becomes(r, IF Dangling(r) # {} THEN Failed(r)
                ELSE [run[r] EXCEPT !.at = @ + 1, !.doomed = @ \cup Targets(r)])
  /\ UNCHANGED <<business, closed, rows, written>>

Commit(r) ==
  /\ IsAt(r, "delete")
  /\ run[r].at > Len(Deletes)
  /\ rows' = rows \ run[r].doomed
  /\ BecomesNoticed(r, [run[r] EXCEPT !.phase = "create", !.at = 1, !.turn = 1,
                                            !.chosen = {}, !.doomed = {}])
  /\ UNCHANGED <<business, closed, written>>

(***************************************************************************)
(* The creation: the business at the turn, save by save.                   *)
(***************************************************************************)

\* After the save at hand; made: the businesses created so far.
AfterSave(r, made) ==
  LET s == [run[r] EXCEPT !.made = made] IN
  IF s.at < Len(Saves) THEN [s EXCEPT !.at = @ + 1]
  ELSE IF s.turn < Len(Plan) THEN [s EXCEPT !.at = 1, !.turn = @ + 1]
  ELSE [s EXCEPT !.phase = "ok"]

\* tenants_tenant_slug_unique_active.
Holders(slug) == {b \in Businesses \ closed : business[b] = slug}

SaveBusiness(r) ==
  /\ IsAt(r, "create")
  /\ run[r].at = 1
  /\ LET slug == Plan[run[r].turn] IN
     /\ DoomedBy(r, {[table |-> "tenants", of |-> b] : b \in Holders(slug)}) = {}
     /\ IF Holders(slug) # {}
        THEN Becomes(r, Failed(r)) /\ UNCHANGED <<business, rows>>
        ELSE /\ business' = Append(business, slug)
             /\ rows' = rows \cup {[table |-> "tenants", of |-> Newest + 1]}
             /\ BecomesNoticed(r, AfterSave(r, run[r].made \cup {Newest + 1}))
  /\ UNCHANGED <<closed, written>>

Saved(r) == In(Saves[run[r].at], CHOOSE b \in run[r].made : \A c \in run[r].made : c <= b)

\* The rows the new ones name and do not bring along.
Needed(new) == (UNION {Parents(x) : x \in new}) \ new

Save(r) ==
  /\ IsAt(r, "create")
  /\ run[r].at > 1
  /\ DoomedBy(r, Needed(Saved(r))) = {}
  /\ IF Needed(Saved(r)) \subseteq rows
     THEN /\ rows' = rows \cup Saved(r)
          /\ BecomesNoticed(r, AfterSave(r, run[r].made))
     ELSE /\ Becomes(r, IF BestEffort(Saves[run[r].at]) THEN AfterSave(r, run[r].made) ELSE Failed(r))
          /\ UNCHANGED rows
  /\ UNCHANGED <<business, closed, written>>

(***************************************************************************)
(* Failures, and the end of the call.                                      *)
(***************************************************************************)

\* A statement breaks down, or the process dies and its connection with it.
Breaks(r) ==
  /\ InFlight(r)
  /\ Becomes(r, IF IsAt(r, "create") /\ run[r].at > 1 /\ BestEffort(Saves[run[r].at])
                THEN [AfterSave(r, run[r].made) EXCEPT !.faulty = TRUE]
                ELSE [Failed(r) EXCEPT !.faulty = TRUE])
  /\ UNCHANGED <<business, closed, rows, written>>

\* Mutant of Deadlocked: nobody is told.
NeverDeadlocked(r) == IsAt(r, "delete") /\ FALSE /\ UNCHANGED vars

\* Two removals wait for each other.
Deadlocked(r) ==
  /\ IsAt(r, "delete")
  /\ run[r].at <= Len(Deletes)
  /\ DeleteWaits(r)
  /\ \E q \in Run \ {r} :
       /\ IsAt(q, "delete")
       /\ run[q].at <= Len(Deletes)
       /\ run[q].doomed \cap (Targets(r) \cup Dangling(r)) # {}
       /\ run[r].doomed \cap (Targets(q) \cup Dangling(q)) # {}
  /\ Becomes(r, Failed(r))
  /\ UNCHANGED <<business, closed, rows, written>>

Answered(r) ==
  /\ run[r].phase \in {"ok", "failed"}
  /\ Becomes(r, Idle)
  /\ UNCHANGED <<business, closed, rows, written>>

(***************************************************************************)
(* Clients.                                                                *)
(***************************************************************************)

ClientWrites ==
  /\ written < MaxClient
  /\ written' = written + 1
  /\ run' = Noticed({})

\* A row of any table but tenants, for a business that is open.
ClientInserts(x) ==
  /\ x.table # "tenants"
  /\ x.of <= Newest /\ business[x.of] \in ToSet(Plan)
  /\ x.of \notin closed
  /\ x \notin rows
  /\ Parents(x) \subseteq rows
  /\ \A q \in Run : run[q].doomed \cap Parents(x) = {}
  /\ rows' = rows \cup {x}
  /\ ClientWrites
  /\ UNCHANGED <<business, closed>>

CloseBusiness(b) ==
  /\ b \in Businesses \ closed
  /\ business[b] \in ToSet(Plan)
  /\ \A q \in Run : [table |-> "tenants", of |-> b] \notin run[q].doomed
  /\ closed' = closed \cup {b}
  /\ ClientWrites
  /\ UNCHANGED <<business, rows>>

-----------------------------------------------------------------------------
\* Every slug has its business, complete; nobody has signed in yet.
Init ==
  /\ business = SetToSeq(Slug)
  /\ closed = {}
  /\ rows = UNION {Planned(b) : b \in 1 .. Cardinality(Slug)}
  /\ written = 0
  /\ run = [r \in Run |-> Idle]

RunStep(r) ==
  \/ Select(r)
  \/ Delete(r)
  \/ Commit(r)
  \/ SaveBusiness(r)
  \/ Save(r)
  \/ Deadlocked(r)
  \/ Answered(r)

Next ==
  \/ \E r \in Run : Call(r) \/ RunStep(r) \/ Breaks(r)
  \/ \E x \in Row : ClientInserts(x)
  \/ \E b \in BusinessId : CloseBusiness(b)

Spec == Init /\ [][Next]_vars

\* Node runs what is ready and PostgreSQL answers every statement.
\* A lock goes to whoever waits for it first, however many come later.
FairSpec == Spec /\ \A r \in Run : SF_vars(RunStep(r))

-----------------------------------------------------------------------------
(***************************************************************************)
(* Properties.                                                             *)
(***************************************************************************)

\* Type correctness of the tables and of the runs.
TypeOK ==
  /\ business \in Seq(Slug) /\ Newest \in BusinessId
  /\ closed \subseteq 1 .. Newest
  /\ rows \subseteq [table : Table, of : 1 .. Newest]
  /\ written \in 0 .. MaxClient
  /\ \A r \in Run :
       /\ run[r].phase \in Phase
       /\ run[r].chosen \cup run[r].made \subseteq 1 .. Newest
       /\ run[r].doomed \subseteq IF IsAt(r, "delete") THEN rows ELSE {}

\* Whatever earlier calls left half done, and whatever clients added to it or
\* closed, a call during which nobody else writes and nothing breaks down
\* succeeds, and leaves of each slug of the plan one business, open, with all
\* the plan gives it and nothing else (docs/seed.md: it is enough to call the
\* endpoint again).
CallingAgainIsEnough ==
  \A r \in Run :
    run[r].phase \in {"ok", "failed"} /\ run[r].alone /\ ~run[r].faulty =>
      /\ run[r].phase = "ok"
      /\ \A slug \in ToSet(Plan) :
           \E b \in Businesses \ closed :
             /\ {c \in Businesses : business[c] = slug} = {b}
             /\ RowsOf(b) = Planned(b)

\* The removal takes businesses away whole, those of the plan only, whatever
\* is inserted into them meanwhile: no other row disappears, and no row stays
\* behind without its business (removeTenantsBySlug).
DeletesWholeBusinesses ==
  [][LET gone == rows \ rows' IN
       /\ \A x \in gone : business[x.of] \in ToSet(Plan) /\ RowsOf(x.of) \subseteq gone
       /\ \A x \in rows' : [table |-> "tenants", of |-> x.of] \in rows']_vars

\* A call is answered, although removals and saves wait for each other.
EveryRunEnds == \A r \in Run : InFlight(r) ~> ~InFlight(r)

=============================================================================
