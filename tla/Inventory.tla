----------------------------- MODULE Inventory -----------------------------
(***************************************************************************)
(* One inventory item: its row, its batches, the minimum of each branch,   *)
(* the requests that change them (src/src/context/inventory) and the       *)
(* movements that are written down afterwards                              *)
(* (src/src/context/inventory-movements).                                  *)
(*                                                                         *)
(* Every request does the same: it loads the item in three queries, runs   *)
(* one operation of the aggregate in memory, saves the whole aggregate in  *)
(* a transaction and then publishes an event whose handler records one     *)
(* movement per batch.  Nothing locks the item between the load and the    *)
(* save.  The reconciliation of overrides makes one row per branch, so     *)
(* they are a function; prices and names are left out.                     *)
(***************************************************************************)
EXTENDS Naturals, FiniteSets, Sequences, SequencesExt

CONSTANTS
  Request,      \* requests that can be in flight at the same time
  Branch,
  Explored,     \* bound: the kinds of request an instance explores
  Unset,        \* no minimum (null), and the branch of an id not yet used
  MaxBatch,     \* bound: batches ever created
  MaxQuantity,  \* bound: units in one batch, and the largest minimum
  MaxDay,       \* bound: dates are days 0..MaxDay
  MaxRequests   \* bound: requests ever started

ASSUME UnsetAssumption == Unset \notin Branch /\ Unset \notin Nat
ASSUME RequestAssumption == IsFiniteSet(Request)
ASSUME InventoryBounds ==
  /\ MaxBatch \in Nat
  /\ MaxQuantity \in Nat
  /\ MaxDay \in Nat
  /\ MaxRequests \in Nat

VARIABLES
  item,       \* the columns of the item that the operations change
  created,    \* batch ids generated so far: 1..created
  stored,     \* batches with a row in the table
  batches,    \* the rows
  overrides,  \* the minimum stock of each branch
  request,    \* what each request in flight has read and will write
  started,    \* requests started so far
  ledger,     \* inventory_movements: units recorded in and out of each batch
  logged,     \* units of the movements that failed and went to the error log
  lost        \* history: units whose movement died with the process

books == <<ledger, logged, lost>>
tables == <<item, stored, batches, overrides>>
vars == <<tables, books, created, request, started>>

-----------------------------------------------------------------------------
(***************************************************************************)
(* Rows.                                                                   *)
(***************************************************************************)

BatchId == 1 .. MaxBatch
Quantity == 0 .. MaxQuantity
Minimum == Quantity \cup {Unset}
Day == 0 .. MaxDay
NoExpiry == MaxDay + 1     \* expiration_date is null
Direction == {"in", "out"}
Book == [BatchId \X Direction -> Nat]

Item == [isPerishable: BOOLEAN, minGlobalStock: Minimum]

Batch == [branch: Branch \cup {Unset}, received: Quantity, remaining: Quantity,
          expiry: Day \cup {NoExpiry}, receivedAt: Day]

NoBatch == [branch |-> Unset, received |-> 0, remaining |-> 0,
            expiry |-> NoExpiry, receivedAt |-> 0]

EmptyBook == [k \in BatchId \X Direction |-> 0]

IsExpired(batch, day) == batch.expiry < day

ActiveEvenIfExpired(batch, day) == batch.remaining > 0

\* Something is left and it has not expired.
IsActive(batch, day) == batch.remaining > 0 /\ ~IsExpired(batch, day)

NewestFirst(a, b) == b.receivedAt <= a.receivedAt

\* compararPorFefo, as "a may come before b": by expiry when both have one, by
\* arrival otherwise.
Fefo(a, b) ==
  IF a.expiry # NoExpiry /\ b.expiry # NoExpiry
    THEN a.expiry <= b.expiry
    ELSE a.receivedAt <= b.receivedAt

\* The orders that a stable sort of rows read in no particular order can give.
SortedByFefo(S, rows) ==
  {order \in SetToSeqs(S) :
     \A i \in 1 .. Len(order) - 1 : Fefo(rows[order[i]], rows[order[i + 1]])}

SmallerOf(a, b) == IF a < b THEN a ELSE b

FirstCoversAll(order, rows, quantity) ==
  [i \in 1 .. Len(order) |-> IF i = 1 THEN quantity ELSE 0]

\* What is taken from each batch, in that order, to cover the quantity: all it
\* has left, or what is still pending.
Takes(order, rows, quantity) ==
  LET pending[i \in 0 .. Len(order)] ==
        IF i = 0 THEN quantity
        ELSE pending[i - 1] - SmallerOf(pending[i - 1], rows[order[i]].remaining)
  IN [i \in 1 .. Len(order) |-> pending[i - 1] - pending[i]]

-----------------------------------------------------------------------------
(***************************************************************************)
(* Requests.                                                               *)
(***************************************************************************)

Withdrawal == {"consume", "waste", "count"}
Kind == Withdrawal \cup {"receive", "minimums", "global", "update"}

ASSUME ExploredAssumption == Explored \subseteq Kind

LoadsEverything(kind) == FALSE

\* Only a consumption loads the item with the rows of its branch alone.
LoadsOneBranch(kind) == kind = "consume"

Step == {"idle", "batches", "overrides", "operate", "save", "commit", "publish"}

NewItem == [isPerishable |-> FALSE, minGlobalStock |-> Unset]

Idle == [step |-> "idle", kind |-> "global", branch |-> Unset,
         item |-> NewItem, seen |-> NewItem,
         loaded |-> {}, batches |-> [b \in BatchId |-> NoBatch],
         overrides |-> [x \in Branch |-> Unset],
         day |-> 0, moves |-> <<>>, failed |-> <<>>]

Ends(p) == request' = [request EXCEPT ![p] = Idle]

DirectionOf(kind) == IF kind = "receive" THEN "in" ELSE "out"

\* Units of batch b among these moves.
UnitsOf(b, moves) ==
  SumFunction([i \in 1 .. Len(moves) |->
                 IF moves[i].batch = b THEN moves[i].units ELSE 0])

\* A book after some moves in one direction.
Entered(book, moves, direction) ==
  [k \in DOMAIN book |->
     IF k[2] = direction THEN book[k] + UnitsOf(k[1], moves) ELSE book[k]]

Init ==
  /\ item \in [isPerishable: BOOLEAN, minGlobalStock: {Unset}]
  /\ created = 0
  /\ stored = {}
  /\ batches = [b \in BatchId |-> NoBatch]
  /\ overrides = [x \in Branch |-> Unset]
  /\ request = [p \in Request |-> Idle]
  /\ started = 0
  /\ ledger = EmptyBook /\ logged = EmptyBook /\ lost = EmptyBook

-----------------------------------------------------------------------------
(***************************************************************************)
(* Loading: three queries, so three different moments (findById).          *)
(***************************************************************************)

At(p, step) == request[p].step = step

\* Minimums and item data are asked for without a branch.
BranchesOf(kind) ==
  IF kind \in Withdrawal \cup {"receive"} THEN Branch ELSE {Unset}

Begin(p) ==
  /\ At(p, "idle")
  /\ started < MaxRequests
  /\ \E kind \in Explored : \E x \in BranchesOf(kind) :
       request' = [request EXCEPT ![p] =
         [Idle EXCEPT !.step = "batches", !.kind = kind, !.branch = x, !.item = item]]
  /\ started' = started + 1
  /\ UNCHANGED <<tables, books, created>>

\* activeBatchesOf: whatever its comment says, expired batches are loaded too.
Loads(r, b) ==
  /\ batches[b].remaining > 0
  /\ LoadsOneBranch(r.kind) => batches[b].branch = r.branch

LoadBatches(p) ==
  /\ At(p, "batches")
  /\ LET ids == {b \in stored : Loads(request[p], b)}
     IN request' = [request EXCEPT
          ![p].step = "overrides",
          ![p].loaded = ids,
          ![p].batches = [b \in BatchId |-> IF b \in ids THEN batches[b] ELSE NoBatch]]
  /\ UNCHANGED <<tables, books, created, started>>

LoadOverrides(p) ==
  /\ At(p, "overrides")
  /\ request' = [request EXCEPT
       ![p].step = "operate",
       ![p].overrides = [x \in Branch |->
          IF LoadsOneBranch(request[p].kind) /\ x # request[p].branch
            THEN Unset ELSE overrides[x]]]
  /\ UNCHANGED <<tables, books, created, started>>

-----------------------------------------------------------------------------
(***************************************************************************)
(* Operating on the aggregate, in memory.                                  *)
(***************************************************************************)

\* InventoryBatch.create: all that is received remains.
NewBatch(x, q, expiry, at) ==
  [branch |-> x, received |-> q, remaining |-> q, expiry |-> expiry, receivedAt |-> at]

\* recivedBatch.  An item that is not perishable ignores the expiry it is given.
Receive(p) ==
  /\ At(p, "operate") /\ request[p].kind = "receive"
  /\ created < MaxBatch
  /\ \E q \in Quantity \ {0}, given \in Day \cup {NoExpiry}, at \in Day :
       LET r == request[p]
           new == created + 1
           expiry == IF r.item.isPerishable THEN given ELSE NoExpiry
       IN /\ r.item.isPerishable => given # NoExpiry
          /\ request' = [request EXCEPT
               ![p].step = "save",
               ![p].loaded = @ \cup {new},
               ![p].batches[new] = NewBatch(r.branch, q, expiry, at),
               ![p].moves = <<[batch |-> new, units |-> q]>>]
  /\ created' = created + 1
  /\ UNCHANGED <<tables, books, started>>

\* activateBatchesOfBranch.  What consume loaded is of its branch already.
ActiveIn(r, day) ==
  {b \in r.loaded : r.batches[b].branch = r.branch /\ IsActive(r.batches[b], day)}

\* currentStock and currentStockForBranch.
StockIn(r, day) ==
  SumFunctionOnSet([b \in BatchId |-> r.batches[b].remaining], ActiveIn(r, day))

Touched(takes) == {i \in DOMAIN takes : takes[i] > 0}

\* What is published: one movement per batch really touched.  An active batch
\* has something to give and the loop stops when nothing is pending, so these
\* are the first of the order.
MovesOf(order, takes) ==
  [i \in 1 .. Cardinality(Touched(takes)) |-> [batch |-> order[i], units |-> takes[i]]]

LeftOfTotal(r, b, take, day) == StockIn(r, day) - take

\* reduce and adjustTo: what one batch keeps.
LeftIn(r, b, take, day) == r.batches[b].remaining - take

\* consume, registerWaste and countStock spread a quantity over the active
\* batches: what is asked for, or what a count finds missing.
Withdraw(p) ==
  /\ At(p, "operate") /\ request[p].kind \in Withdrawal
  /\ \E day \in Day :
       LET r == request[p]
           active == ActiveIn(r, day)
       IN \E q \in 1 .. StockIn(r, day), order \in SortedByFefo(active, r.batches) :
            LET takes == Takes(order, r.batches, q)
                TakenFrom(b) == UnitsOf(b, MovesOf(order, takes))
            IN request' = [request EXCEPT
                 ![p].step = "save",
                 ![p].batches = [b \in BatchId |->
                    IF b \in active
                      THEN [@[b] EXCEPT !.remaining = LeftIn(r, b, TakenFrom(b), day)]
                      ELSE @[b]],
                 ![p].day = day,
                 ![p].moves = MovesOf(order, takes)]
  /\ UNCHANGED <<tables, books, created, started>>

\* setMinimumsForBranches: only the branches that were sent; Unset removes one.
SetMinimums(p) ==
  /\ At(p, "operate") /\ request[p].kind = "minimums"
  /\ \E sent \in SUBSET Branch \ {{}} : \E minimum \in [sent -> Minimum] :
       request' = [request EXCEPT
         ![p].step = "save",
         ![p].overrides = [x \in Branch |-> IF x \in sent THEN minimum[x] ELSE @[x]]]
  /\ UNCHANGED <<tables, books, created, started>>

SetGlobalMinimum(p) ==
  /\ At(p, "operate") /\ request[p].kind = "global"
  /\ \E m \in Minimum :
       request' = [request EXCEPT ![p].step = "save", ![p].item.minGlobalStock = m]
  /\ UNCHANGED <<tables, books, created, started>>

UpdateAnyTime(p) ==
  /\ At(p, "operate") /\ request[p].kind = "update"
  /\ \E perishable \in BOOLEAN :
       request' = [request EXCEPT ![p].step = "save", ![p].item.isPerishable = perishable]
  /\ UNCHANGED <<tables, books, created, started>>

\* update.  A name may always change; whether the item is perishable, only when
\* no batch was loaded.  Both save the whole aggregate.
Update(p) ==
  /\ At(p, "operate") /\ request[p].kind = "update"
  /\ \/ request' = [request EXCEPT ![p].step = "save"]
     \/ /\ request[p].loaded = {}
        /\ \E perishable \in BOOLEAN :
             request' = [request EXCEPT
               ![p].step = "save", ![p].item.isPerishable = perishable]
  /\ UNCHANGED <<tables, books, created, started>>

-----------------------------------------------------------------------------
(***************************************************************************)
(* Saving.  TypeORM reads each row before it writes it and updates only    *)
(* the columns that differ.  The UPDATE of the item (updated_at always     *)
(* differs) locks its row until the commit, so from there on it is one     *)
(* step; the read before it is not protected.                              *)
(***************************************************************************)

SaveSelect(p) ==
  /\ At(p, "save")
  /\ request' = [request EXCEPT ![p].step = "commit", ![p].seen = item]
  /\ UNCHANGED <<tables, books, created, started>>

\* A minimum is read back with three decimals ("2.000") and written without the
\* trailing zeros ("2"), so most of them differ from their own row.
Differs(r, c, padded) ==
  \/ r.item[c] # r.seen[c]
  \/ c = "minGlobalStock" /\ r.item[c] # Unset /\ padded

OnlyNewBatches(r) ==
  [b \in BatchId |-> IF b \in r.loaded \ stored THEN r.batches[b] ELSE batches[b]]

\* Every loaded batch is written back, whatever another commit left in its row.
WrittenBatches(r) ==
  [b \in BatchId |-> IF b \in r.loaded THEN r.batches[b] ELSE batches[b]]

\* The rows that the aggregate does not hold are deleted, the others saved.
Reconciled(r) == r.overrides

SaveCommit(p) ==
  /\ At(p, "commit")
  /\ LET r == request[p]
     IN /\ \E padded \in BOOLEAN :
             item' = [c \in DOMAIN item |->
                        IF Differs(r, c, padded) THEN r.item[c] ELSE item[c]]
        /\ stored' = stored \cup r.loaded
        /\ batches' = WrittenBatches(r)
        /\ overrides' = Reconciled(r)
        /\ IF r.moves = <<>> THEN Ends(p)
           ELSE request' = [request EXCEPT ![p] =
                  [Idle EXCEPT !.step = "publish", !.kind = r.kind,
                               !.day = r.day, !.moves = r.moves]]
  /\ UNCHANGED <<books, created, started>>

-----------------------------------------------------------------------------
(***************************************************************************)
(* Publishing.  The handler tries each movement on its own, keeps those    *)
(* that failed in memory and logs them together after the last one.        *)
(***************************************************************************)

\* The first movement has been tried; these have failed so far.
Tried(p, failed) ==
  LET r == request[p]
  IN IF Len(r.moves) = 1
       THEN /\ logged' = Entered(logged, failed, DirectionOf(r.kind))
            /\ Ends(p)
       ELSE /\ request' = [request EXCEPT ![p].moves = Tail(@), ![p].failed = failed]
            /\ UNCHANGED logged

RecordMovement(p) ==
  /\ At(p, "publish")
  /\ ledger' = Entered(ledger, <<Head(request[p].moves)>>, DirectionOf(request[p].kind))
  /\ Tried(p, request[p].failed)
  /\ UNCHANGED <<tables, lost, created, started>>

MovementFailsUnlogged(p) ==
  /\ At(p, "publish")
  /\ Tried(p, request[p].failed)
  /\ UNCHANGED <<tables, ledger, lost, created, started>>

MovementFails(p) ==
  /\ At(p, "publish")
  /\ Tried(p, Append(request[p].failed, Head(request[p].moves)))
  /\ UNCHANGED <<tables, ledger, lost, created, started>>

\* The rule of an operation refuses, a query fails or the transaction is rolled
\* back: nothing was written.
Fails(p) ==
  /\ ~At(p, "idle") /\ ~At(p, "publish")
  /\ Ends(p)
  /\ UNCHANGED <<tables, books, created, started>>

\* The process stops between the commit and the last movement.
Dies(p) ==
  /\ At(p, "publish")
  /\ LET r == request[p]
     IN lost' = Entered(lost, r.moves \o r.failed, DirectionOf(r.kind))
  /\ Ends(p)
  /\ UNCHANGED <<tables, ledger, logged, created, started>>

Next ==
  \E p \in Request :
    \/ Begin(p) \/ LoadBatches(p) \/ LoadOverrides(p)
    \/ Receive(p) \/ Withdraw(p)
    \/ SetMinimums(p) \/ SetGlobalMinimum(p) \/ Update(p)
    \/ SaveSelect(p) \/ SaveCommit(p)
    \/ RecordMovement(p) \/ MovementFails(p)
    \/ Fails(p) \/ Dies(p)

Spec == Init /\ [][Next]_vars

-----------------------------------------------------------------------------
(***************************************************************************)
(* Properties.                                                             *)
(***************************************************************************)

RequestRow ==
  [step: Step, kind: Kind, branch: Branch \cup {Unset}, item: Item, seen: Item,
   loaded: SUBSET BatchId, batches: [BatchId -> Batch],
   overrides: [Branch -> Minimum],
   day: Day,
   moves: Seq([batch: BatchId, units: Quantity]),
   failed: Seq([batch: BatchId, units: Quantity])]

\* Every row, request and book has the shape of the tables and of the classes
\* they come from; in particular no subtraction of the aggregate goes below 0.
TypeOK ==
  /\ item \in Item
  /\ created \in 0 .. MaxBatch
  /\ stored \subseteq 1 .. created
  /\ batches \in [BatchId -> Batch]
  /\ overrides \in [Branch -> Minimum]
  /\ request \in [Request -> RequestRow]
  /\ started \in 0 .. MaxRequests
  /\ ledger \in Book /\ logged \in Book /\ lost \in Book

\* However requests overlap, what is left in a batch never exceeds what was
\* received in it: a stale save brings units back, but only units it had.
\* (repository.save writes back the rows it loaded, whatever happened since.)
RemainingWithinReceived ==
  \A b \in stored : batches[b].remaining <= batches[b].received

\* Units committed whose movement is still to be tried or logged.
Unsettled(k) ==
  SumFunction([p \in Request |->
    IF At(p, "publish") /\ DirectionOf(request[p].kind) = k[2]
      THEN UnitsOf(k[1], request[p].moves \o request[p].failed) ELSE 0])

\* Where the units of a committed change are: in the ledger, in the error log
\* from which they can be redone, lost with a process, or still to be written.
Accounted(k) == ledger[k] + logged[k] + lost[k] + Unsettled(k)

\* Whatever fails while movements are recorded, the entry of each stored batch
\* is accounted for exactly once, with all its units, and no entry is ever
\* written for a batch whose save did not commit.
EntriesAreAccounted ==
  \A b \in BatchId :
    Accounted(<<b, "in">>) = IF b \in stored THEN batches[b].received ELSE 0

\* A consumption loads and writes the batches of its branch alone, so it cannot
\* undo what another request committed in another branch after it loaded.
ConsumeStaysInItsBranch ==
  [][\A p \in Request :
       At(p, "commit") /\ request[p].kind = "consume" /\ At(p, "publish")'
       => \A b \in stored :
            batches[b].branch # request[p].branch => batches'[b] = batches[b]]_vars

\* One request at a time: what is left in a batch is what its movements say, in
\* minus out, wherever those movements ended up (the ledger alone may miss some).
StockExplained ==
  \A b \in stored :
    batches[b].remaining + Accounted(<<b, "out">>) = Accounted(<<b, "in">>)

\* One request at a time: batches with stock have an expiry exactly when the
\* item is perishable.  Updating an item tests the batches it loaded, which are
\* those with stock, not those it ever had.
ExpiryMatchesItem ==
  \A b \in stored :
    batches[b].remaining > 0 => (batches[b].expiry # NoExpiry <=> item.isPerishable)

\* The date the withdrawal under way was made on, that of its movements.
AsOf == Max({request[p].day : p \in Request})

Shelves == INSTANCE StockBook WITH
  asOf <- AsOf,
  Batch <- BatchId,
  shelf <- [b \in stored |-> batches[b].branch],
  expiry <- [b \in stored |-> batches[b].expiry],
  onHand <- [b \in stored |-> batches[b].remaining]

\* One request at a time: loading, operating and saving together do what the
\* stock book does in one step: what has expired on the date of the withdrawal
\* stays, and what expires first leaves first.
ImplementsStockBook == Shelves!Spec

\* What inventory-item.repository.ts says of the overrides: a save of an item
\* loaded for one branch does not delete the minimums of the others.
ConsumeKeepsOverrides ==
  [][\A p \in Request :
       At(p, "commit") /\ request[p].kind = "consume" /\ At(p, "publish")'
       => overrides' = overrides]_vars

\* What inventory-item.aggregate.ts says of consumption: never more leaves a
\* batch than it has, so never more than entered it.
NeverTakesMoreThanReceived ==
  \A b \in stored : Accounted(<<b, "out">>) <= Accounted(<<b, "in">>)

=============================================================================
