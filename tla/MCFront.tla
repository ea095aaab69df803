------------------------------ MODULE MCFront -------------------------------
(***************************************************************************)
(* Five parts that share no state: the prices of a product by branch, the  *)
(* lists read page by page, the menu, the quotes of prices, and the list   *)
(* of inventory items.  A behaviour is about one of them; the others stay  *)
(* where they start.                                                       *)
(***************************************************************************)
EXTENDS BranchPrices, Listing, Menus, Quotes, Items, TLC

VARIABLE part  \* the part the behaviour is about

\* One field at a time, or both.
MCWish ==
  {w \in [price : Price \cup {Null, Absent}, available : Flag \cup {Null, Absent}] :
     w.price = Absent \/ w.available = Absent \/ (w.price # Null /\ w.available # Null)}
  \ {[price |-> Absent, available |-> Absent]}

\* Listings whose order the id makes total.
MCTotal == {Products, Users, Branches}

\* Those whose order may leave rows equal.
MCByDate == {Categories, Items, Batches, Movements}

\* Small and odd costs with every margin, as far as twice the price in
\* ten-thousandths stays below 2^31.
MCQuoted ==
  {q \in {1, 99, 5003, 6667, 9998, 9999, 10001, 12345} \X (0 .. 9999) :
     Whole * q[1] <= 100000 * (Whole - q[2])}

\* Prices about a hundred pesos, as far as the same.
MCSown == {9999, 10000, 10001, 100000} \X (0 .. 9999)

\* Type correctness of the first three and of the last.
FrontTypeOK == TypeOK /\ ListingTypeOK /\ MenusTypeOK /\ ItemsTypeOK

FrontInit ==
  /\ part \in {"prices", "listing", "menus", "quotes", "items"}
  /\ Init
  /\ IF part = "listing" THEN ListingInit
     ELSE /\ listing = CHOOSE l \in Listed : TRUE
          /\ row = [i \in RowId |-> 0] /\ shown = {} /\ reader = NotReading
  /\ IF part = "menus" THEN MenusInit
     ELSE /\ menu = [m \in Menu |-> CHOOSE r \in MenuRow : TRUE]
          /\ isNew = [m \in Menu |-> TRUE]
  /\ QuotesInit
  /\ ItemsInit

FrontNext ==
  /\ UNCHANGED part
  /\ \/ part = "prices" /\ Next /\ UNCHANGED <<listingVars, menusVars, quote, itemsVars>>
     \/ part = "listing" /\ ListingNext /\ UNCHANGED <<vars, menusVars, quote, itemsVars>>
     \/ part = "menus" /\ MenusNext /\ UNCHANGED <<vars, listingVars, quote, itemsVars>>
     \/ part = "quotes" /\ QuotesNext /\ UNCHANGED <<vars, listingVars, menusVars, itemsVars>>
     \/ part = "items" /\ ItemsNext /\ UNCHANGED <<vars, listingVars, menusVars, quote>>

FrontSpec ==
  FrontInit /\ [][FrontNext]_<<vars, listingVars, menusVars, quote, itemsVars, part>>

Symmetry == Permutations(Request) \cup Permutations(Ours)
=============================================================================
