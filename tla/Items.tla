------------------------------- MODULE Items --------------------------------
(***************************************************************************)
(* The list of inventory items of each business: how an item is created,   *)
(* gets its SKU and is renamed (src/src/context/inventory).  What happens  *)
(* to one item once it exists is modelled in Inventory.                    *)
(*                                                                         *)
(* A request asks whether the name is taken and writes at the end; each    *)
(* query is a statement of its own.                                        *)
(*                                                                         *)
(* Left out: the question whether the business exists, which a creation    *)
(* asks first (closing one is modelled in Registry); the event of a new    *)
(* item, which nobody publishes; and what Inventory has: batches, minimums *)
(* and whether the item is perishable, which follows the rule of the unit. *)
(***************************************************************************)
EXTENDS Naturals

CONSTANTS
  Caller,     \* requests that can be in flight at the same time
  Business,
  Name,
  Unit,
  None,       \* a row not inserted yet
  MaxItem,    \* bound: items ever inserted
  MaxNumber   \* bound: numbers ever drawn from inventory_item_sku_seq

ASSUME ItemBounds == MaxItem \in Nat /\ MaxNumber \in Nat

VARIABLES
  item,     \* table inventory_items
  number,   \* the last number inventory_item_sku_seq gave
  call      \* the requests in flight

itemsVars == <<item, number, call>>

-----------------------------------------------------------------------------
(***************************************************************************)
(* The table.                                                              *)
(***************************************************************************)

ItemId == 1 .. MaxItem
NoId == 0

\* The SKU is the number of the sequence, padded: different numbers, different
\* SKUs.  A creation has none until it has drawn one.
NoSku == 0

ItemRow == [business : Business, name : Name, unit : Unit, sku : NoSku .. MaxNumber]

\* A row that is not inserted yet is told from every row that is.
ASSUME NoneIsNoItem == None \notin ItemRow

ItemRows == {i \in ItemId : item[i] # None}

\* Rows are numbered in the order they are inserted.
IsNextItem(i) == i \in ItemId \ ItemRows /\ 1 .. i - 1 \subseteq ItemRows

\* Mutant of FoundIn: the business is not asked for.
FoundAnywhere(b) == ItemRows

\* findById: an item of another business does not exist.
FoundIn(b) == {i \in ItemRows : item[i].business = b}

\* existsByName counts every item of the business with that name, the one that
\* is being updated among them.
NameIsTaken(n, b) == \E i \in FoundIn(b) : item[i].name = n

\* sku VARCHAR(20) NOT NULL UNIQUE.
SkuIndexAllows(r) == \A i \in ItemRows : item[i].sku # r.sku

-----------------------------------------------------------------------------
(***************************************************************************)
(* Requests.  copy is the aggregate in memory, id its row or, for a new    *)
(* item, NoId; sent is the name that came with the request, seen the row   *)
(* the save read before it wrote.                                          *)
(***************************************************************************)

CallStep == {"idle", "name", "sku", "save", "commit"}

NoCall == [step |-> "idle", business |-> None, id |-> NoId, copy |-> None, seen |-> None]

CallAt(p, step) == call[p].step = step

CallGoes(p, r) == call' = [call EXCEPT ![p] = r]

CallEnds(p) == CallGoes(p, NoCall)

NewItem(b, n, u) == [business |-> b, name |-> n, unit |-> u, sku |-> NoSku]

\* InventoryItem.update.
Renamed(row, n, u) == [row EXCEPT !.name = n, !.unit = u]

CreateItem(p) ==
  /\ CallAt(p, "idle")
  /\ \E b \in Business, n \in Name, u \in Unit :
       CallGoes(p, [step |-> "name", business |-> b, id |-> NoId,
                copy |-> NewItem(b, n, u), seen |-> None])
  /\ UNCHANGED <<item, number>>

\* The name that is sent is asked about; without one the item keeps its own.
\* Whether batches were loaded, so that the unit may not change (Fails), is up
\* to Inventory.
UpdateItem(p) ==
  /\ CallAt(p, "idle")
  /\ \E b \in Business : \E i \in FoundIn(b), n \in Name, u \in Unit, step \in {"name", "save"} :
       /\ step = "save" => n = item[i].name
       /\ CallGoes(p, [step |-> step, business |-> b, id |-> i,
                   copy |-> Renamed(item[i], n, u), seen |-> None])
  /\ UNCHANGED <<item, number>>

AskName(p) ==
  /\ CallAt(p, "name")
  /\ LET r == call[p]
     IN IF NameIsTaken(r.copy.name, r.business)
          THEN CallEnds(p)
          ELSE CallGoes(p, [r EXCEPT !.step = IF r.id = NoId THEN "sku" ELSE "save"])
  /\ UNCHANGED <<item, number>>

\* nextval('inventory_item_sku_seq'): never given back, whatever happens next.
NextSku == number + 1

DrawSku(p) ==
  /\ CallAt(p, "sku")
  /\ number < MaxNumber
  /\ number' = number + 1
  /\ CallGoes(p, [call[p] EXCEPT !.step = "save", !.copy.sku = NextSku])
  /\ UNCHANGED item

\* repository.save reads the row by its id alone before it writes it.
SelectItem(p) ==
  /\ CallAt(p, "save")
  /\ LET r == call[p]
     IN CallGoes(p, [r EXCEPT !.step = "commit", !.seen = IF r.id = NoId THEN None ELSE item[r.id]])
  /\ UNCHANGED <<item, number>>

\* The UPDATE sets the columns that differ from what was read.
Written(row, seen, copy) ==
  [c \in DOMAIN row |-> IF copy[c] # seen[c] THEN copy[c] ELSE row[c]]

\* The row is inserted, unless the SKU is taken, or updated.
CommitItem(p) ==
  /\ CallAt(p, "commit")
  /\ LET r == call[p]
     IN \E i \in ItemId :
          IF r.id = NoId
            THEN /\ IsNextItem(i)
                 /\ item' = IF SkuIndexAllows(r.copy) THEN [item EXCEPT ![i] = r.copy] ELSE item
            ELSE /\ i = r.id
                 /\ item' = [item EXCEPT ![i] = Written(@, r.seen, r.copy)]
  /\ CallEnds(p)
  /\ UNCHANGED number

\* A rule refuses, a query fails or the process dies before the commit.
CallFails(p) ==
  /\ ~CallAt(p, "idle")
  /\ CallEnds(p)
  /\ UNCHANGED <<item, number>>

-----------------------------------------------------------------------------
ItemsInit ==
  /\ item = [i \in ItemId |-> None]
  /\ number = 0
  /\ call = [p \in Caller |-> NoCall]

ItemsNext ==
  \E p \in Caller :
    \/ CreateItem(p) \/ UpdateItem(p)
    \/ AskName(p) \/ DrawSku(p)
    \/ SelectItem(p) \/ CommitItem(p)
    \/ CallFails(p)

ItemsSpec == ItemsInit /\ [][ItemsNext]_itemsVars

-----------------------------------------------------------------------------
(***************************************************************************)
(* Properties.                                                             *)
(***************************************************************************)

CallRow ==
  [step : CallStep, business : Business \cup {None}, id : {NoId} \cup ItemId,
   copy : ItemRow \cup {None}, seen : ItemRow \cup {None}]

\* Type correctness of the table and of the requests: no save of an item leaves
\* a row without a SKU.
ItemsTypeOK ==
  /\ item \in [ItemId -> ItemRow \cup {None}]
  /\ number \in 0 .. MaxNumber
  /\ call \in [Caller -> CallRow]
  /\ \A i \in ItemRows : item[i].sku # NoSku

\* Requests that have drawn a number which they have not written yet.
Drawing == {p \in Caller : call[p].id = NoId /\ call[p].step \in {"save", "commit"}}

\* The number a creation drew is nobody else's, stored or in flight, however
\* creations overlap: the UNIQUE of the column never rejects an item, and a
\* creation that asked for a free name fails for no other reason
\* (nextSkuSequence).
SkuIsFresh ==
  \A p \in Drawing :
    /\ SkuIndexAllows(call[p].copy)
    /\ \A q \in Drawing \ {p} : call[q].copy.sku # call[p].copy.sku

\* A save writes items of the business that asks, and never the business nor
\* the SKU of an item that exists, although the save has no WHERE but the id and
\* may write columns as they were read long before (save, findById).
WritesItsOwn ==
  [][\A p \in Caller, i \in ItemId :
       CallAt(p, "commit") /\ ~CallAt(p, "commit")' /\ item'[i] # item[i] =>
         /\ item'[i].business = call[p].business
         /\ i \in ItemRows => /\ item'[i].business = item[i].business
                          /\ item'[i].sku = item[i].sku]_itemsVars

\* One request at a time: no two items of a business have the same name.  No
\* index says so (inventory_items has none on the name), only the question that
\* creation and renaming ask first.
NamesDiffer ==
  \A i, j \in ItemRows :
    i # j /\ item[i].business = item[j].business => item[i].name # item[j].name

\* What update-inventory-item.use-case.ts says of a new name: it is checked
\* "except if it is the same item", so a request that sends the name the item
\* has is not refused for it.
OwnNameIsFree ==
  \A p \in Caller :
    CallAt(p, "name") /\ call[p].id # NoId =>
      LET r == call[p]
          others == FoundIn(r.business) \ {r.id}
      IN NameIsTaken(r.copy.name, r.business) => \E i \in others : item[i].name = r.copy.name

=============================================================================
