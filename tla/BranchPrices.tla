---------------------------- MODULE BranchPrices ----------------------------
(***************************************************************************)
(* The price and the availability a product has in some branches instead   *)
(* of its general ones (src/src/context/product-branch-config), for one    *)
(* product.  Its routes exist wherever the seed does: SeedModule imports    *)
(* the module, which app.module.ts itself leaves out.                      *)
(*                                                                         *)
(* A request that configures several branches reads the configurations of  *)
(* the product, prepares the new ones in memory and saves them together:   *)
(* the save first selects the rows again, by id, and then, in one          *)
(* transaction, inserts the ones it did not find and updates, of the ones  *)
(* it found, the columns that differ from what it found.  A request that   *)
(* removes configurations reads them and deletes them by id.               *)
(***************************************************************************)
EXTENDS Naturals, FiniteSets

CONSTANTS
  Request,  \* requests that can be in flight at the same time
  Branch,   \* the branches that exist
  Ours,     \* those of the business that owns the product
  Price,    \* prices above zero
  Flag,     \* values of isAvailable
  Null,     \* inherits the value of the product
  Absent,   \* a field the request does not give
  Wish,     \* bound: what clients ask for one branch
  MaxId     \* bound: configurations ever created

ASSUME BranchAssumption == Ours \subseteq Branch /\ IsFiniteSet(Branch)
ASSUME ValueAssumption == Null # Absent /\ {Null, Absent} \cap (Price \cup Flag) = {}
ASSUME WishAssumption ==
  Wish \subseteq [price : Price \cup {Null, Absent}, available : Flag \cup {Null, Absent}]
ASSUME IdBound == MaxId \in Nat

VARIABLES
  config,   \* table product_branch_configs, of the product
  lastId,   \* ids generated so far
  request   \* the requests in flight

vars == <<config, lastId, request>>

-----------------------------------------------------------------------------
(***************************************************************************)
(* Rows and requests.                                                      *)
(***************************************************************************)

Row == [id : 1 .. MaxId, branch : Branch, price : Price \cup {Null},
        available : Flag \cup {Null}]

IsEmpty(r) == r.price = Null /\ r.available = Null

ConfigOf(b) == {r \in config : r.branch = b}

Configured == {r.branch : r \in config}

WithId(i, table) == {r \in table : r.id = i}

\* entries: what the client asked for; copies: the rows to write; found: the
\* rows the save selected; alone: nobody else has written since the reading.
Idle == [step |-> "idle", entries |-> <<>>, copies |-> {}, found |-> {}, alone |-> TRUE]

IsAt(p, step) == request[p].step = step

Ends(p) == request' = [request EXCEPT ![p] = Idle]

\* The requests after p wrote.
OthersNotice(p) ==
  request' = [q \in Request |->
    IF q = p THEN Idle
    ELSE IF IsAt(q, "idle") THEN request[q]
    ELSE [request[q] EXCEPT !.alone = FALSE]]

-----------------------------------------------------------------------------
(***************************************************************************)
(* Configure.                                                              *)
(***************************************************************************)

Given(field, current) == IF field = Absent THEN current ELSE field

\* Mutant of Changed: what is absent is inherited again.
ChangedOrInherited(r, e) ==
  LET Value(field) == IF field = Absent THEN Null ELSE field IN
  [r EXCEPT !.price = Value(e.price), !.available = Value(e.available)]

\* ProductBranchConfig.change: what is absent keeps its value.
Changed(r, e) ==
  [r EXCEPT !.price = Given(e.price, @), !.available = Given(e.available, @)]

\* Mutant of Created: what is absent stays undefined.
CreatedAsGiven(i, b, e) ==
  [id |-> i, branch |-> b, price |-> e.price, available |-> e.available]

\* ProductBranchConfig.create: what is absent is inherited.
Created(i, b, e) ==
  Changed([id |-> i, branch |-> b, price |-> Null, available |-> Null], e)

\* ensureBranchesBelongToTenant: one foreign branch stops everything.
Reachable(branches) == branches \subseteq Ours

\* The new rows of an assignment of ids to the branches without one.
Prepared(entries, newId) ==
  {Changed(r, entries[r.branch]) : r \in {c \in config : c.branch \in DOMAIN entries}}
  \cup {Created(newId[b], b, entries[b]) : b \in DOMAIN newId}

Configure(p, branches) ==
  /\ IsAt(p, "idle")
  /\ Reachable(branches)
  /\ LET new == branches \ Configured IN
     /\ lastId + Cardinality(new) <= MaxId
     /\ \E entries \in [branches -> Wish],
           newId \in [new -> lastId + 1 .. lastId + Cardinality(new)] :
          /\ \A b, c \in new : b # c => newId[b] # newId[c]
          /\ \A r \in Prepared(entries, newId) : ~IsEmpty(r)
          /\ request' = [request EXCEPT ![p] =
               [step |-> "save", entries |-> entries, copies |-> Prepared(entries, newId),
                found |-> {}, alone |-> TRUE]]
     /\ lastId' = lastId + Cardinality(new)
  /\ UNCHANGED config

\* The SELECT a save starts with.
SaveSelect(p) ==
  /\ IsAt(p, "save")
  /\ LET ids == {r.id : r \in request[p].copies} IN
       request' = [request EXCEPT ![p].step = "commit",
                                  ![p].found = {r \in config : r.id \in ids}]
  /\ UNCHANGED <<config, lastId>>

\* What the UPDATE of a copy makes of the row: the columns that differ from
\* the row found.
Updated(r, copy, found) ==
  [r EXCEPT !.price = IF copy.price = found.price THEN @ ELSE copy.price,
            !.available = IF copy.available = found.available THEN @ ELSE copy.available]

\* An UPDATE of a row that is gone changes nothing and is no error.
AfterUpdates(copies, found) ==
  {r \in config : WithId(r.id, found) = {}}
  \cup UNION {{Updated(r, c, f) : c \in WithId(r.id, copies), f \in WithId(r.id, found)} :
               r \in config}

Inserted(copies, found) == {c \in copies : WithId(c.id, found) = {}}

After(copies, found) == AfterUpdates(copies, found) \cup Inserted(copies, found)

\* Mutant of KeysAllow: the branches are not unique.
PrimaryKeyAllows(table) == \A r, s \in table : r # s => r.id # s.id

\* The primary key and uq_product_branch_configs_product_branch.
KeysAllow(table) ==
  \A r, s \in table : r # s => r.id # s.id /\ r.branch # s.branch

\* The transaction: everything is written, or nothing.
SaveCommit(p) ==
  /\ IsAt(p, "commit")
  /\ LET table == After(request[p].copies, request[p].found) IN
       config' = IF KeysAllow(table) THEN table ELSE config
  /\ IF config' = config THEN Ends(p) ELSE OthersNotice(p)
  /\ UNCHANGED lastId

(***************************************************************************)
(* Remove.                                                                 *)
(***************************************************************************)

\* Without a configuration of every branch named nothing is removed.
RemoveConfigs(p, branches) ==
  /\ IsAt(p, "idle")
  /\ branches \subseteq Configured
  /\ request' = [request EXCEPT ![p] =
       [Idle EXCEPT !.step = "delete", !.copies = {r \in config : r.branch \in branches}]]
  /\ UNCHANGED <<config, lastId>>

Delete(p) ==
  /\ IsAt(p, "delete")
  /\ config' = {r \in config : WithId(r.id, request[p].copies) = {}}
  /\ OthersNotice(p)
  /\ UNCHANGED lastId

\* A statement fails or the process dies before anything is written.
Dies(p) ==
  /\ ~IsAt(p, "idle")
  /\ Ends(p)
  /\ UNCHANGED <<config, lastId>>

-----------------------------------------------------------------------------
Init ==
  /\ config = {}
  /\ lastId = 0
  /\ request = [p \in Request |-> Idle]

RequestStep(p) ==
  \/ \E branches \in SUBSET Branch \ {{}} : Configure(p, branches) \/ RemoveConfigs(p, branches)
  \/ SaveSelect(p)
  \/ SaveCommit(p)
  \/ Delete(p)
  \/ Dies(p)

Next == \E p \in Request : RequestStep(p)

Spec == Init /\ [][Next]_vars

-----------------------------------------------------------------------------
(***************************************************************************)
(* Properties.                                                             *)
(***************************************************************************)

\* Type correctness of the table and of the requests.
TypeOK ==
  /\ config \subseteq Row
  /\ lastId \in 0 .. MaxId
  /\ \A p \in Request :
       /\ request[p].step \in {"idle", "save", "commit", "delete"}
       /\ \A b \in DOMAIN request[p].entries : b \in Branch /\ request[p].entries[b] \in Wish
       /\ request[p].copies \subseteq Row
       /\ request[p].found \subseteq Row
       /\ request[p].alone \in BOOLEAN

\* Saves of several branches that overlap, and removals between the reading
\* and the writing, leave at most one configuration per branch, and only for
\* branches of the business (saveMany, ensureBranchesBelongToTenant).
OneOwnConfigPerBranch ==
  /\ \A b \in Branch : Cardinality(ConfigOf(b)) <= 1
  /\ Configured \subseteq Ours

\* A save during which nobody else wrote changes exactly the fields its
\* client gave, of exactly the branches it named, all of them, and leaves no
\* configuration without a value (ConfigureProductBranchUseCase).
DoesWhatItSays ==
  [][\A p \in Request :
       IsAt(p, "commit") /\ request[p].alone /\ config' # config /\ request'[p] = Idle =>
         LET entries == request[p].entries
             Agrees(r, s, e) == /\ s.price = Given(e.price, r.price)
                                /\ s.available = Given(e.available, r.available)
         IN /\ \A r \in config : r.branch \notin DOMAIN entries => r \in config'
            /\ \A b \in DOMAIN entries :
                 \E s \in config' :
                   /\ s.branch = b
                   /\ ~IsEmpty(s)
                   /\ \A r \in ConfigOf(b) : Agrees(r, s, entries[b])]_vars

\* The configuration of a branch never stays empty: it is removed instead
\* (ProductBranchConfig.change).
NeverEmpty == \A r \in config : ~IsEmpty(r)

=============================================================================
