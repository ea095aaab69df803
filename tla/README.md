# Formal models of the Komi SaaS API

TLA+ models of the API: the sessions that `src/src/auth` hands out and closes,
the items and the stock that `src/src/context/inventory` keeps, the register of
businesses, branches and users, the catalog of products with its categories,
prices and quotes, the lists and the menu a client reads, the path of a request
through guards, events and answers, and the seed. TLC checks them on small
instances; TLAPS proves every safety and action property that the passing runs
check for all values of the constants. Liveness is left to TLC.

Contents: [running](#running), [the system](#the-system),
[modules](#modules), [sessions](#sessions), [inventory](#inventory),
[items](#items), [registry](#registry), [catalog](#catalog), [quotes](#quotes),
[the front](#the-front), [gateway](#gateway), [seed](#seed),
[findings](#findings), [what is not modelled](#what-is-not-modelled),
[plan](#plan).

## Running

    tlc -workers 2 -config MCSessions.cfg MCSessions
    tlapm SessionsProofs.tla

and so on. Every `.cfg` belongs to the module that is its longest prefix among
`MCSessions`, `MCInventory`, `MCItems`, `MCRegistry`, `MCCatalog`, `MCFront`,
`MCGateway` and `MCSeed`; the proofs are in `SessionsProofs`, `InventoryProofs`,
`ItemsProofs`, `RegistryProofs`, `CatalogProofs`, `FrontProofs`,
`GatewayProofs` and `SeedProofs`. `PROJECT.json` lists each run with what it
shows, a mutation of the model that each property detects, the lines of source
behind each definition, the findings, the hazards and the theorems. Some
configurations end in a counterexample on purpose: see [findings](#findings).

## The system

A NestJS server over PostgreSQL (TypeORM). There may be several server
processes; they share nothing but the database. A request runs one use case: it
loads aggregates with queries, changes them in memory and saves them. Between
two awaited queries any other request may run, and the default isolation is
READ COMMITTED. Domain events are published in memory, in the same process,
after the save. No code locks a row explicitly: only the rotation of a session,
the save of an inventory item and the bulk writes use transactions.

| Component | State | Operations | Meets others through |
|---|---|---|---|
| auth: sessions | `sessions` rows | login, refresh (rotate), logout, revokeAllByUser, purge script | `users`/`tenants` status; cookies; the guard |
| auth: guards, tokens, cookies | access tokens, browser cookies | admit a request; set or clear cookies | `sessions` rows; loser of a refresh race clears cookies |
| inventory | `inventory_items`, `inventory_batches`, `inventory_branch_configs` | receive, consume, waste, count, minimums, update, create | branches; publishes stock events |
| inventory movements | `inventory_movements`, append only | record one movement per batch touched | listens to stock events |
| event publisher | none (in memory) | publish | use case → handler |
| branch | `branches` | create, update, delete | asked by receive, user creation, configuration |
| user | `users` | create, update, profile, password, pause | read by login and refresh |
| tenants | `tenants` | create, update, pause, delete | read by login and refresh |
| products | `product`, `product_sku_seq` | create, update, delete, search, quote | categories; the seed |
| product-branch-config | one row per product and branch | configure and remove lists of branches | products, branches; the seed, which alone loads it now |
| product-categories | `product_category` | create, update, search | products |
| menus | `menu` (sown by SQL) | build the tree, mark as new | nobody |
| guards, filter, interceptor | `request.user` | admit a request, translate its outcome | `sessions` rows; every use case |
| process | the dummy hash, the shutdown timer | start, break, close | every request in flight |
| shared value objects | none | Money, ProfitMargin, Quantity, Status | everyone |
| seed | every table of its businesses | remove and create again | everything above |
| rol | `roles` | read | user |

What is hard, and what correctness means, for each:

- **Sessions.** A refresh token is worth one exchange. Two tabs, a retried
  request or a thief present the same token at once; a theft alarm, a logout,
  the purge or the death of the process may fall between any two statements. A
  login must keep at most one live session, a closed session must stay closed,
  the chain of rotations must stay whole, and an alarm must mean a real second
  use. Requests that wait for each other's row locks must all end.
- **Guards and answers.** What is admitted is decided by five checks in an order
  that matters, on a session that may end meanwhile; a listener that fails after the
  save must not be answered as a failure of the request, and whatever else fails
  or refuses after a save leaves an answer that must not be read as "nothing
  happened"; a broken process must end although its orderly close hangs.
- **Inventory.** An operation loads the item in three queries and writes the
  whole aggregate back with no lock and no version. What two overlapping saves
  undo of each other, what one operation writes that it was not about (the
  overrides of other branches), and first-expired-first-out across several
  batches are what tests hardly reach.
- **Movements.** The stock is committed before its movements are written: some
  may fail, and the process may die in between. Every committed unit must be in
  the ledger, in the error log, or lost in a way that can be named.
- **User, tenants, branch.** Whole-row updates of rows read earlier: what keeps a
  deletion from being undone; names are checked and inserted in two steps; a
  branch is checked in one statement and given staff in another.
- **Products, categories, configurations.** The same two-step checks with fewer
  indexes behind them, whole-row writes of rows read earlier, and a price that
  must fit a cost and a margin of which an update may bring only one. Numbers
  of the SKU sequence are drawn long before they are written.
- **Money.** Prices are rounded to cents and margins to hundredths of a percent,
  in both directions: rounding twice must not move what a product is checked
  for.
- **Listings.** A page is a request of its own, its rows and its total two
  statements; rows come, go and move in between.
- **Menus.** The tree is built in one pass that looks at parents only.
- **Seed.** A removal in one transaction, a creation in a hundred saves, while
  other calls and clients work on the same rows.

`PROJECT.json` lists 40 hazards, each at its line, with the properties that
cover it or the reason why none does.

## Modules

| Module | Role |
|---|---|
| `RefreshTokens` | abstract: families of single-use tokens |
| `Sessions` | the sessions table and the requests on it; implements `RefreshTokens` |
| `SessionsProofs` | theorems about `Sessions` |
| `MCSessions` | instances of `Sessions` |
| `StockBook` | abstract: first-expired-first-out stock, one branch at a time |
| `Inventory` | one item, its batches, overrides, requests, movements; with one request at a time it implements `StockBook` |
| `InventoryProofs` | theorems about `Inventory`, after lemmas about sums and recursive functions |
| `MCInventory` | instances of `Inventory` |
| `Items` | the list of items of each business: creation, SKU, names |
| `ItemsProofs` | theorems about `Items` |
| `MCItems` | instances of `Items` alone |
| `Directory` | abstract: entries with unique keys that, once retired, never come back |
| `Registry` | tenants, branches, users and the requests that write them; implements `Directory` |
| `RegistryProofs` | theorems about `Registry` |
| `MCRegistry` | instances of `Registry` |
| `Pricing` | the arithmetic of prices, costs and margins |
| `Catalog` | products, categories and the requests that write them |
| `CatalogProofs` | theorems about `Catalog` |
| `MCCatalog` | instances of `Catalog` |
| `Quotes` | the offers the program computes by itself |
| `BranchPrices` | the prices and states of a product by branch |
| `Listing` | any search, read page by page while the list changes |
| `Menus` | the table of menus and the tree built from it |
| `MCFront` | instances of the last four and of `Items`, side by side |
| `FrontProofs` | theorems about `BranchPrices`, `Listing`, `Quotes`, `Menus` and the five of `MCFront` together |
| `Gateway` | a request from the guards to its answer, and the process it runs in |
| `GatewayProofs` | theorems about `Gateway` |
| `MCGateway` | instances of `Gateway` |
| `Seed` | removal and creation of the test businesses |
| `SeedProofs` | theorems about `Seed` |
| `MCSeed` | instances of `Seed` |

`Sessions` and `Inventory` share no state in the code (the guard only reads
`sessions` before any use case runs), so they are not composed. What sessions
read of the register (whether an account and its business are active) is an
input of `Sessions` that may change at any time, which covers every behaviour of
`Registry`; likewise the session a guard looks up is an input of `Gateway`, and
what clients do to the businesses of the seed is one of `Seed`. `Catalog` takes
the cost, margin and price a client writes from small sets, and `Quotes` shows
that those the program itself proposes are among the ones `Catalog` accepts:
both rest on `Pricing`. Definitions
that no action uses (`RevokeTwice`, `NoLock`, `OnlyNewBatches`, ...) are the mutated forms that `PROJECT.json` names under
`mutants`: they stand right before the definition they replace and are used
nowhere else.

## Sessions

### State and code

| Model | Code |
|---|---|
| `stored`, `row` | table `sessions` (`public/db/03-sessions.sql`); `Live` is `revoked_at IS NULL` |
| token = session id | `refresh_token_hash` is unique and each session has its own random token |
| `request[p]` | what a use case holds between two awaits: step, presented session, aggregate in memory |
| `userActive`, `tenantActive` | the status columns `LoginUseCase` and `RefreshSessionUseCase` read |
| `now` | `new Date()`; `Grace` is `ROTATION_GRACE_MS` |
| `root`, `redeemedAt`, `known`, `alarmed` | history only: never read by a guard |

| Actions | Code |
|---|---|
| `LoginFindTenant`, `LoginFindUser`, `LoginStart` | `login.use-case.ts`, `session-issuer.ts` |
| `RefreshFind`, `RefreshCheckTenant`, `RefreshCheckUser` | `refresh-session.use-case.ts` |
| `RotateUpdate`, `RotateInsert` | `SessionRepository.rotate`: conditional UPDATE, INSERT, commit |
| `RevokeAllBegin`, `RevokeAllCommit` | `SessionRepository.revokeAllByUser`: one UPDATE, its snapshot and its writes |
| `LogoutFind`, `LogoutUpdate` | `logout.use-case.ts`, `SessionRepository.update` |
| `ToggleUser`, `ToggleTenant`, `Purge` | the pause use cases; `purge-sessions.sql` |
| `Abort`, `Tick` | the process or a query fails, its transaction is rolled back; time |

Locks are modelled as PostgreSQL gives them under READ COMMITTED. From its
UPDATE to its commit a rotation holds the lock of the old row (`Locked`); other
writers of that row wait, then evaluate their WHERE again on the new version. A
statement sees the rows that were committed when it started, which is why
`revokeAllByUser` is two steps: it fixes its targets, and later writes those of
them that are still live. `Session.rotateTo` happens in memory before the
UPDATE, so the successor is created with the timestamp of the decision, not of
the commit.

Answers that write nothing (unknown token, wrong password, expired session)
leave the state as it was and are not actions. Passwords, hashes, claims and
device data are abstracted away: no property depends on them.

### Runs

- `sessions` (`MCSessions.cfg`): two overlapping requests, one account, up to 3
  rows and 3 ticks, grace 1, access lifetime 1, session lifetime 2, purge at
  once. Two requests are enough for every race of the code, which is between
  pairs of statements on one row; 3 rows give a login, its rotation and the
  rotation of that or a second login; 3 ticks let a grace expire, a session
  expire and a row be purged while requests are in flight. 660 341 states. It
  shows `OneLivePerLogin`, `ChainWellFormed`, `AlarmOnlyAfterExchange`,
  `AlarmedStayClosed`, `RevokedStaysRevoked`, `ExchangedOnce` and the
  refinement of `RefreshTokens`.
- `sessions_liveness` (`MCSessionsLiveness.cfg`): the account and its business
  may be paused and resumed at any time; 2 rows, 2 ticks, no symmetry because a
  liveness property is checked. It shows `EveryRequestEnds` under `FairSpec`.
- `sessions_alarm`: a statement of the repository that the code does not keep,
  see [findings](#findings).

Deadlock checking is off: the clock and the ids are bounded, so a behaviour
ends when they run out. That no request waits for ever is `EveryRequestEnds`.

### Fairness

`FairSpec` assumes weak fairness of the steps of each request: Node runs every
callback that is ready. That alone is not enough: a request that waits for a
row lock is not continuously enabled while others take and release it, and TLC
shows a behaviour in which it starves. PostgreSQL queues the waiters of a row,
so the three steps that wait (`LockStep`) get strong fairness. Nothing is
assumed of the clock, of new requests, of crashes or of switches.

### Proofs

`SessionsProofs` proves, for any sets of requests, users and tenants and any
values of the bounds and lifetimes (only `UserAssumption`, `TenantAssumption`
and `BoundAssumption`, which TLC evaluates in every run):

| Theorem | States |
|---|---|
| `TypeCorrect` | `Spec => []TypeOK` |
| `OneLiveSession` | `Spec => []OneLivePerLogin` |
| `NoResurrection` | `Spec => RevokedStaysRevoked` |
| `OneExchange` | `Spec => ExchangedOnce` |
| `AlarmCloses` | `Spec => []AlarmedStayClosed` |
| `ChainStaysWhole` | `Spec => []ChainWellFormed` |
| `AlarmsAreEarned` | `Spec => []AlarmOnlyAfterExchange` |
| `Implements` | `Spec => ImplementsRefreshTokens` |

`OneLivePerLogin` is not inductive. A rotation that has passed its UPDATE will
insert a live successor in its next step, so the invariant must say that the
request still holds a live row and holds it alone (`RowLocks`); a logout or an
alarm writes a copy made earlier, so it must say that what they write is closed
(`ClosingCopies`); and a login must find a family no row belongs to
(`RootsIssued`: every row descends from an id already handed out). `IInv` is the
conjunction of these with `TypeOK`. The theorems about history need two more
conjuncts (`HInv`): what was exchanged is closed (`ExchangedAreClosed`), and a
running alarm either has a session it knew among its targets or that session is
closed already (`AlarmsCover`).

The chain needs a third (`CInv`). A stale logout may put its copy in the place
of the row, so a row and every copy that a logout may write in its place must be
of one kind: same owner, same age, a successor exactly with the reason `ROTATED`
(`Fits`, in `RowsFit`). That no two rows share a successor is not inductive for
the same reason: a row has a successor, or a copy in flight claims one for it
(`Claims`), and each successor is claimed for one row (`OneOrigin`). What a
refresh and an alarm remember of the session they read is what its row says
(`CopiesFit`); with it the alarm's two conditions, an exchange that really
happened and the end of its grace, follow from the moment the copy was read. All
three invariants were first checked by TLC on the instance of `MCSessions.cfg`.

The refinement maps the family of a token to `root` and the live tokens to the
live rows. Logins and rotations map to `Login` and `Redeem`, alarms, logouts
and the purge to `Close`, everything else to a stutter. It is what "a refresh
token is worth one exchange" means as a specification: the exchange of the old
token and the birth of the new one are one step although the code takes five.

Only model-checked: `EveryRequestEnds` (liveness under fairness is out of the
prover's reach).

## Inventory

### State and code

| Model | Code |
|---|---|
| `item` | the columns of `inventory_items` that operations change and later operations read: `is_perishable`, `min_global_stock` |
| `stored`, `batches` | `inventory_batches` |
| `overrides` | `inventory_branch_configs`, one minimum per branch (the save reconciles them, so a function is enough) |
| `request[p]` | the loaded aggregate, the operation and the events to publish |
| `ledger`, `logged`, `lost` | units per batch and direction: written to `inventory_movements`; logged as failed; lost with the process |

| Actions | Code |
|---|---|
| `Begin`, `LoadBatches`, `LoadOverrides` | `findById`: three queries, three moments |
| `Receive` | `InventoryItem.recivedBatch` |
| `Withdraw` | `consume`, `registerWaste`, and `countStock` that finds less than expected: the same spreading over active batches, but a consumption loads one branch only |
| `SetMinimums`, `SetGlobalMinimum`, `Update` | the aggregate's methods of these names |
| `SaveSelect`, `SaveCommit` | `InventoryItemRepository.save` |
| `RecordMovement`, `MovementFails` | the stock movement handlers |
| `Fails`, `Dies` | a rule refuses, a query fails; the process dies after the commit |

Two details of the save matter. TypeORM reads the row of the item first and
updates only the columns that differ from it, so what a request loaded, what it
read at the save (`seen`) and what it overwrites are three different things;
numeric columns come back padded (`"2.000"` against `"2"`), so an untouched
minimum usually counts as different (`Differs`). And a batch that another
request changed in the meantime is written back as it was loaded
(`WrittenBatches`).

Dates are client data (`consumedAt`, `occurredAt`, `receivedAt`), so a
withdrawal names any day and a receipt any arrival. `Array.sort` is stable but
the rows come back in no guaranteed order, and a mix of batches with and without
expiry is not ordered transitively: `SortedByFefo` allows every order whose
neighbours the comparator accepts.

Quantities are natural numbers: the code keeps exact decimals of three places,
of which a unit here is a thousandth. Costs are left out: they decide nothing the
properties are about. A count that finds more than expected is refused by the
aggregate (`CountIncreaseNotAllowedException`), so it is one of the requests
that `Fails` ends.

### Runs

- `stock_concurrent` (`MCInventory.cfg`): two overlapping requests among at most
  four, two branches, two batches of one unit, receipts, consumptions and
  changes of minimums; every movement may fail and the process may die. What
  holds although nothing protects the item: `RemainingWithinReceived` (stale
  saves bring units back but never more than were received),
  `EntriesAreAccounted` (each receipt is accounted for exactly once) and
  `ConsumeStaysInItsBranch`. Two requests give every overlap of two saves; four
  let two receipts be followed by two overlapping requests.
- `stock_serial` (`MCInventorySerial.cfg`): one request at a time, up to four in
  a row, batches of up to two units, two days; receipts, consumptions, counts
  (which load every branch), updates and global minimums. It shows that
  load, operation and save together implement one step of `StockBook` (nothing
  expired leaves, nothing leaves before what expires earlier, never more than
  there is), that movements explain the stock (`StockExplained`), and that
  batches with stock have an expiry exactly when the item is perishable
  (`ExpiryMatchesItem`), although `update` decides it on the loaded batches.
- `stock_overrides`, `stock_oversell`: see [findings](#findings).

`Explored` names the kinds of request of each instance: waste is a count as far
as its loads and writes go, so the runs explore one of them. Together the runs
fire every action. Deadlock checking is off because the number of requests is
bounded.

`StockExplained`, `ExpiryMatchesItem` and `ImplementsStockBook` are checked with
one request because they do not hold with two; `stock_oversell` shows why. No
liveness is stated: no request waits for another in the model, and the code
promises nothing about movements that a crash loses.

### Proofs

`InventoryProofs` proves, for any requests, branches, kinds of request and
bounds (`UnsetAssumption`, `InventoryBounds`, `ExploredAssumption`, and
`RequestAssumption`: finitely many requests are in flight, so that what they
still have to record has a sum):

| Theorem | States | When |
|---|---|---|
| `InventoryTypeCorrect` | `Spec => []TypeOK` | whatever overlaps |
| `NothingFromNowhere` | `Spec => []RemainingWithinReceived` | whatever overlaps |
| `NoEntryIsMissed` | `Spec => []EntriesAreAccounted` | whatever overlaps |
| `ConsumptionIsLocal` | `Spec => ConsumeStaysInItsBranch` | whatever overlaps |
| `StockIsExplained` | `Spec => []StockExplained` | `OneAtATime` |
| `ExpiryAgrees` | `Spec => []ExpiryMatchesItem` | `OneAtATime` |
| `ItemImplementsStockBook` | `Spec => ImplementsStockBook` | `OneAtATime`, `Request # {}` |

`OneAtATime` says that `Request` has one element at most: not that there is one
request, but that the next begins when the last has ended, any number of times.
It is the hypothesis of the run `stock_serial`, and the last three are false
without it.

The argument has five invariants, each resting on those before it.

- `IInv`: types, copies hold ids that exist, and no row or copy has more left
  than was received. That no subtraction goes below zero is a fact about
  `Takes`, whose recursion the proof shows to exist and to take, of each batch,
  no more than it has (`PendingExists`, `TakesFit`).
- `CInv`: a copy of a stored batch differs from its row in what is left alone;
  a batch that is not stored is in the hands of one request, which has its
  movement; what a consumption holds is of its branch. With it each step moves
  units from one term of `Accounted` to another.
- `SInv`: with one request, what it read is what the rows say until it writes;
  what it writes is the row without what it takes.
- `EInv`: the perishability of an item changes only when the request that
  changes it loaded nothing, and then there is no stock.
- `BInv`: what a withdrawal takes, its branch can use, and what expires earlier
  is emptied first. The comparator is not transitive when batches with and
  without expiry are mixed; that they never are is `ExpiryMatchesItem`, so
  `EInv` is needed here (`OrderedByExpiry`, `FirstExpiredFirst`).

In the refinement everything but `SaveCommit` is a stutter, and `SaveCommit` is
the step of the book: what the code does in five statements, one of them in
memory, takes effect in one.

Sums over sets (`SumFunctionOnSet`) and the recursion of `Takes` are defined by
`CHOOSE`, so before anything can be said of them a function of that shape must be
shown to exist. The first part of `InventoryProofs` does this with minimal
counterexamples: among the subsets of a finite set that break a claim there is a
minimal one (`MinimalSubset`, `LeastNumber`).

## Items

### State and code

| Model | Code |
|---|---|
| `item` | `inventory_items` of all businesses in order of insertion: business, name, unit, SKU |
| `number` | the last number of `inventory_item_sku_seq`; a sequence is not rolled back |
| `call[p]` | a request: step, the business that asks, the row to write (`NoId` to insert), the aggregate in memory, and the row the save read |

| Actions | Code |
|---|---|
| `CreateItem`, `UpdateItem` | `create-inventory-item.use-case.ts`, `update-inventory-item.use-case.ts`: load and change in memory |
| `AskName`, `DrawSku` | `existsByName`, `nextSkuSequence`: a query each |
| `SelectItem`, `CommitItem` | `InventoryItemRepository.save`: TypeORM's SELECT by id, then INSERT or UPDATE of the columns that differ |
| `CallFails` | a rule refuses, a query fails, the process dies |

`Inventory` is about one item that exists, `Items` about which items exist and
what they are called: the two share a row but no column, so they are not
composed. Whether the unit may change depends on loaded batches, which are in
`Inventory` (`isPerishable` follows the same rule there); here it may or may not
(`CallFails`). A name is a name as it is stored: `existsByName` compares exactly,
although `InventoryItemName.equals`, which nobody calls, ignores case.

### Runs

Two overlapping requests, two businesses and names, two items and three numbers,
so that a drawn number may be thrown away: as a part of the run `front`, see
[below](#the-front), which shows `WritesItsOwn`. An update finds its item by id
and business, saves it by id alone, and must not reach another business nor
write another SKU, however old its copy. Three more configurations:

- `MCItems.cfg`: the same with two units, by itself, 130 816 states. It shows
  `SkuIsFresh` as well: two creations never hold one number, the same as
  `SkuIsFresh` of `Catalog` for another sequence.
- `MCItemsSerial.cfg`: one request at a time, three items, three names, 2 679
  states. `NamesDiffer`: with no index, the question is enough as long as nobody
  asks at the same time. (With two requests it is not, which nothing in the
  repository denies.)
- `MCItemsOwnName.cfg`: see [findings](#findings).

Deadlock checking is off: rows and numbers run out. No liveness is stated: no
request waits for another.

### Proofs

`ItemsProofs` proves for any requests, businesses, names, units and bounds
(`ItemBounds`, `NoneIsNoItem`): `ItemTypes` (`ItemsSpec => []ItemsTypeOK`), `SkusAreFresh`
(`ItemsSpec => []SkuIsFresh`), `BusinessesStayApart` (`ItemsSpec => WritesItsOwn`), and,
with `OneAtATime`, `NamesAlwaysDiffer` (`ItemsSpec => []NamesDiffer`).

The invariant says of each request in flight what its answers still guarantee
(`RequestsOk`): a copy of a row agrees with it on business and SKU, and so does
the row that the save read, which is why the columns that differ are never those
two; a new item has a number that was drawn, is not in the table (`NewOk`) and is
in nobody else's hands (`OwnNumbers`). For names, `NInv` adds that the answer to
the question still holds, and that the row has not changed since it was read, so
that the columns written are the whole copy (`AskedOk`). TLC checked `IInv` on
the instance of `MCItems.cfg` and `NInv` on that of `MCItemsSerial.cfg`.

## Registry

### State and code

| Model | Code |
|---|---|
| `created`, `row` | the rows of `tenants`, `branches` and `users` in order of insertion; `kind` is the table |
| `tenant`, `branch` of a row | `tenant_id`, and `branch_id` of a user (`NoRow` for an administrative role) |
| `name` of a row | the columns under a unique index: slug and NIT of a business, name of a branch, user name and email of a user, taken as one |
| `active`, `deleted` | the two flags; users have only the first |
| `request[p]` | the row to write, the whole copy to write there, and the questions still to be asked |
| `IndexAllows` | the partial unique indexes of `01-init.sql` and `tables/branches.sql` |

| Actions | Code |
|---|---|
| `CreateTenant`, `UpdateTenant`, `ToggleTenantStatus`, `DeleteTenant` | the use cases of `tenants` |
| `CreateBranch`, `UpdateBranch`, `DeleteBranch` | the use cases of `branch` |
| `CreateUser`, `UpdateUser`, `ChangeUserPassword`, `ReassignUser`, `ToggleUserStatus` | the use cases of `user` |
| `AskTenant`, `AskBranch`, `AskName` | the checkers and `existsBy...`, each a query of its own |
| `Save`, `Update` | `save` and `update` of the repositories |
| `Fails` | a wrong answer, a unique violation or a failed query |

An action of a use case loads the row and makes the changed copy; the questions
and the write come later, one statement at a time, in the order of the code. The
domain rules that refuse a change (an inactive user, a deleted row) look at the
loaded copy, so they are guards of the load. The repositories differ in details
that the model keeps: only the users' tenant checker refuses a paused business;
`existsByName` of a branch overlooks deleted branches while those of a business
count deleted ones, although its indexes do not; `update` never writes the
business of a row.

### Runs

- `registry` (`MCRegistry.cfg`): two overlapping requests, two names and up to
  three rows, so a business with a branch and a user of it, two businesses that
  compete for a name, or two users or branches of one business that do.
  1 441 345 states. It shows `DeletedIsFinal` (a stale whole-row write never
  touches a deleted row: only the WHERE of the update stands in its way) and
  the refinement of `Directory`: whatever overlaps, no two rows in use share a
  name (only the indexes see to that; the questions asked before are courtesy).

There is no deadlock: a request can always fail, and an idle one can always
start. No liveness is stated, because no request waits for another.

### Proofs

`RegistryProofs` proves, for any requests, names and number of rows
(`NameAssumption` and `RowBound` only):

| Theorem | States |
|---|---|
| `TypeCorrect` | `Spec => []TypeOK` |
| `StaffStaysInTenant` | `Spec => []StaffInOwnTenant` |
| `DeletedForEver` | `Spec => DeletedIsFinal` |
| `Implements` | `Spec => ImplementsDirectory` |

What has to be added to make them inductive is about copies: each request in
flight holds a copy of the table and business of the row it will replace, not
deleted if it is to be inserted, and whose branch is either still to be asked
for or already known to be of its business (`SoundRequests`). Rows never change
table or business, so what was sound when it was asked is sound when it is
written. With the indexes this gives `NamesDiffer`, of which the refinement is a
consequence. The proof first reduces `Next` to five kinds of step (`Steps`),
then to two effects: one request changes what it holds, or one row is put
(`Effects`).

`StaffInOwnTenant` relates a user to its branch and business, and no foreign key
does. The smallest instance that could break it has two businesses, a branch and
a user, four rows, which is beyond the run with two requests; that is why it
is a theorem and not a property of the run.

## Catalog

### State and code

| Model | Code |
|---|---|
| `category`, `product` | the rows of `product_category` and `product` in order of insertion |
| `offer` of a product | `product_cost`, `product_base_price`, `product_profit_margin` |
| `sku` | the last number of `product_sku_seq`; a sequence is not rolled back |
| `request[p]` | step, row to write (`NoId` to insert), and the whole copy to write |
| `Transitions` | `Status.TRANSITIONS` |
| `CategoryIndexAllows`, `SkuIndexAllows` | the unique indexes of `01-init.sql` and `tables/products.sql` |

| Actions | Code |
|---|---|
| `CreateCategory`, `UpdateCategory` | the use cases of `product-categories` |
| `CreateProduct`, `UpdateProduct`, `DeleteProduct` | the use cases of `products`: load, rules of the aggregate on the loaded row, the copy to write |
| `AskCategory`, `AskName` | `ProductCategoryChecker.existsForTenant`, `existsByName`: a query each |
| `DrawSku` | `nextSkuSequence` |
| `WriteCategory`, `WriteProduct` | `save` and `update` of the repositories |
| `Dies` | a rule refuses after the load, a query fails, the process dies |

Amounts are cents, margins hundredths of a percent as they are stored, or
ten-thousandths as a client may send them: the code validates the margin it is
sent and rounds it after. An update may bring any of cost, price and margin and
takes the rest from the row it loaded; the foreign key of a product accepts a
category of any business; an update writes the business and the SKU with
everything else, with no WHERE but the id.

### Run

`catalog` (`MCCatalog.cfg`): two overlapping requests, two businesses, up to two
categories and two products, two costs and two prices of which two of the four
pairs fit the margin, so that a mix of two offers is seen. Two requests give
every overlap of a question and a write; two rows let a product be in a category
of the other business, two creations compete, and an update race a deletion. 1 267 902 states. It shows `PricesFit`, `CategoryIsOwn`, `SkuIsFresh`
and `CategoryNamesDiffer`. Deadlock checking is off: rows and numbers run out.
No liveness is stated: no request waits for another.

### Proofs

`CatalogProofs` proves for any requests, businesses, names, amounts and bounds
(`OfferAssumption`, `CatalogBounds`, `NoneIsNoRow`):

| Theorem | States |
|---|---|
| `CatalogTypes` | `Spec => []TypeOK` |
| `PricesAlwaysFit` | `Spec => []PricesFit` |
| `CategoriesAreOwn` | `Spec => []CategoryIsOwn` |
| `SkusAreFresh` | `Spec => []SkuIsFresh` |
| `CategoryNamesAlwaysDiffer` | `Spec => []CategoryNamesDiffer` |
| `IdentitiesAreForLife` | `Spec => IdentityIsForLife` |

None is inductive. What a request writes was decided when it read, so the
invariant says of every copy in flight what the questions already answered
guarantee (`RequestOK`): an update holds a copy of the business and the SKU of
the row it will replace, with an offer that fits as a whole (cost and margin are
written with the price, so a stale write replaces one fitting offer by another);
past the question of the category, the copy names one of its own business; at
the write, its number has been drawn. Writes of others do not undo this, because
rows are never removed, never change their business or SKU, and the sequence
only grows (`RequestStaysOK`). `SkusAreDrawn` adds that every stored number was
drawn for one product.

## Quotes

`POST /products/profitability` computes a price from a cost and a margin; the
seed computes a cost from a price and a margin. Both results are rounded to
cents, and the margin that a product is checked for is computed from the rounded
amounts and rounded again. `QuoteIsHonoured` says that the product they propose
is accepted: it is checked in the run `front` on small and odd costs with every
margin, and `FrontProofs` proves it (`QuotesAreHonoured`) for every cost and
every margin of two decimals. The argument: rounding moves the price by half a
cent at most, hence the margin by half a cent in the price, which is less than
half a hundredth of a percent once the price has more cents than there are
hundredths of a percent, that is from a hundred pesos on. Rounding is first
reduced to two inequalities and back (`HalfUpIsNearest`, `NearestIsHalfUp`). Below
a hundred pesos it is false, see [findings](#findings).

## The front

`MCFront` sets five parts side by side that share no state: each behaviour is
about one of them (`part`), so the run costs their sum.

- **`BranchPrices`**. `config` is the table `product_branch_configs` of one
  product. `Configure` and `RemoveConfigs` load and prepare the list; `SaveSelect` is
  the SELECT TypeORM makes for `save(list)`, `SaveCommit` its UPDATEs and INSERTs
  in one transaction; `Delete` the DELETE by ids. A row that disappears between
  the load and the SELECT is inserted again with its old id. A field that was
  not sent (`Absent`), or sent as null (`Null`), are told apart as in `change`.
  `OneOwnConfigPerBranch` holds whatever overlaps; `DoesWhatItSays` is an action
  property of saves nobody interfered with: exactly the fields sent, of exactly
  the branches named.
- **`Listing`**. A listing is an order, the ways its rows can leave or move, and
  the reader's pages: `ReadRows` and `ReadTotal` are two statements, other
  requests insert, close and rename in between. Where the order leaves rows
  equal PostgreSQL may return them in any order, page by page anew (`Pages`).
  `ReadsEachOnce` (`LosesNothing` and `RepeatsNothing`) holds of products, users and branches,
  whose order ends with the id; the four listings ordered by a date alone are
  looked at by `MCFrontByDate.cfg`.
- **`Menus`**. Every table of three menus the constraints of `04-menus.sql` admit
  is an initial state, and menus are switched on and off by SQL. The tree is a
  fold as in the code, over the active menus in the order of the query
  (`Sorted`); `TreeIsWhatIsVisible` compares it with what should be visible by
  looking at all ancestors. Menus of one order are taken to differ in their
  titles: no index says so, and where they do not the database decides.
- **`Quotes`** and **`Items`**, see above.

`front` (`MCFront.cfg`): two requests on two branches and a foreign one; four
rows in pages of two with two values of the key, so that there are ties, a
second page and rows that cross its edge; three menus, as many as the levels.
2 924 415 states. Deadlock checking is off: ids and rows run out. No liveness:
nothing waits.

### Proofs

`FrontProofs` proves, besides the quotes:

- **`BranchPrices`**, for any requests, prices and wishes and any finite number of
  branches: `OneConfigEach` (`OneOwnConfigPerBranch`), `SaysAndDoes`
  (`DoesWhatItSays`) and the types (`PricesTypes`). The invariant `PriceInv` adds
  to the keys of the table what a request in flight may still write. Whatever
  happened meanwhile, its copies are of branches of the business and have ids
  that were generated; that gives the first theorem. As long as nobody else wrote
  (`alone`), its copies are the changed rows of the table and new ones under ids
  no row has, none of them empty, and what its SELECT found are exactly the rows
  it copied (`Fresh`); that gives the second, because an UPDATE of the columns
  that differ from the row it was copied from leaves the copy
  (`UpdatedTakesAll`). A configuration deleted and inserted again by a save that
  overlapped is covered by the first theorem only, and `NeverEmpty` is false: two
  saves that are not alone.
- **`Listing`**, for any finite table, any keys and any page size, whenever the id
  breaks the ties of every listing (`AllTotal`): `PagesSuffice`
  (`ReadsEachOnce`). The invariant `PagesInv` compares the place of a row, the
  number of rows before it, with the places the pages read so far span. What comes
  can only push a row back (`RowsCome`), so a row that was due and stands in the
  places read had been read; what goes can only let it forward (`RowsGo`), so a
  row that was read does not come back. `PageSpans` says that the content of a
  page is what stands in its places; it is the only step that needs the order to
  be total, and without it the theorem is false (`MCFrontByDate.cfg`).

- **`Menus`**, for any finite table: `TreeIsRight` (`TreeIsWhatIsVisible`) and the
  types (`MenusTypes`). Both the list of active menus and the function behind
  `FoldLeft` are chosen by `CHOOSE`, so the proof first shows that there is one to
  choose. A finite set of menus has an enumeration in their order
  (`EnumerationExists`, `SortedEnumerates`) and only one (`EnumerationIsOne`); a
  function of the shape the fold asks for exists for lists of every length
  (`FoldsExist`), and two of them agree (`FoldsAgree`), so the fold hangs one menu
  after the other (`BuildSteps`). Instead of an induction, each of these takes a
  minimal set for which the claim fails (`MinimalSubset`, from the library's facts
  on well-founded orders). `Kept` is then what the pass maintains (`HangKeeps`): of
  the menus hung so far, the roots and the items of each menu are the enumeration
  of those with that parent, and the error has been raised if one was misplaced.
  After the last menu that is the property, because the types let a tree be three
  levels deep and no deeper. `Sorted` is written with `CHOOSE` since the provers
  do not know the `SortSeq` that `SetToSortSeq` calls.
- **Side by side**: `FrontIsItsParts` (a behaviour of `FrontSpec` is one of each
  part's specification), hence `FrontTypes` (`FrontTypeOK`) and
  `FrontKeepsPromises`. They ask for at least one listing and one value of
  `menu_order`, without which `Listing` or `Menus` alone has no initial state; the
  last asks for `AllTotal` too.

The assumptions that the branches, the rows and the menus are finitely many are
those of a table.

## Gateway

### State and code

| Model | Code |
|---|---|
| `request[r]` | what was sent, the stage it has reached, `request.user`, the saves still to make (`left`), events still to publish (`owed`), the answer |
| `saved`, `late`, `broke`, `verified`, `unlucky` of a request | history only: a save changed something, its session was closed when it arrived, its use case failed and not by a rule, a password was verified for it, argon2 failed for it |
| `Works`, `Saves`, `Shown` | the kinds of use cases, the saves each makes, and those whose answer reads again what was saved |
| `session` | the row the guard looks up, which other requests and processes end |
| `dummy` | the promise `dummyHash` of `Argon2PasswordVerifier` |
| `process` | starting, up, closing after a fatal error, down |
| `Guards`, `Path` | the order of `AuthModule`'s guards; guards, pipe, handler |
| `Category`, `StatusOf`, `Entry`, `Domain`, `Framework` | the response catalog and `AllExceptionsFilter` |

| Actions | Code |
|---|---|
| `OriginGuard`, `JwtAuthGuard`, `EnsureSessionIsUsable`, `TenantScopeGuard`, `ValidationPipe` | one each; the lookup of the session is a step of its own |
| `Save` | one save, a transaction of its own, and the events it owes; an UPDATE may find no row, which no repository looks at |
| `Publish` | `EventEmitterPublisher.publish`: one event, whose listener may fail; then back to the use case, or the answer |
| `Read` | nothing is left to save: what was asked for, or was saved, is shown |
| `Refuse` | a use case throws a rule's exception: before a save, between two saves of the seed, or when a created product cannot be shown |
| `Refresh` | `refresh-session.use-case.ts`: refused with nothing done, refused after `revokeAllByUser`, or exchanged |
| `LoginKnown`, `LoginUnknown`, `VerifyAgainstDummy`, `HashReady`, `HashFails` | the login of an account that exists, and of one that does not, which waits for the shared hash |
| `Breaks`, `Answered` | something the guard or the use case awaits fails, before, between or after its saves; the client has its answer |
| `SessionEnds` | rotation, logout or alarm of another request |
| `Listen`, `BootFails`, `Fatal`, `ShutdownSettles`, `ForceExit` | `main.ts`, `process-errors.ts` |

`Guards` and `Path` are data, so that another order is another model: the mutant
of `OnlyTheAdmittedAct` sorts them by name, and the check of the tenant passes
because there is no user yet.

### Run, fairness

The use cases do not all have the same shape, and the answer means something
else for each:

| `does` | Use cases | Saves | After the last save |
|---|---|---|---|
| `read` | the searches, `POST /products/profitability` | none | |
| `change` | the other guarded ones | one | events |
| `create` | `POST /products/create` (`product.controller.ts:32-43`) | one | events, then a search, which may fail or refuse: the business has been closed |
| `configure` | `configure-product-branch.use-case.ts:43-45` | one | a search, which may fail |
| `login` | `login.use-case.ts` | one, of the session | |
| `refresh` | `refresh-session.use-case.ts` | one: the exchange, or the closing of every session of the user, after which it refuses | |
| `logout` | `logout.use-case.ts` | one, or none if there is no session | |
| `seed` | `run-seed.use-case.ts:98-119` | many, with events, questions and a hash in between; the removal counts as the first | events |

`gateway` (`MCGateway.cfg`): two requests, each as it should be or wrong in one or
two ways, a save with up to one event, a seed of up to two saves. 499 536 states.
Two requests are needed for two logins that wait for one hash, the first of which
made it fail; the other properties are about one request and what happens around
it. Two saves are the fewest between which something can fail or refuse. The one
refusal of the use cases is 1605, which has no entry in the catalog; those of the
guards and of the sessions have.

`AnswerTellsWhatHappened` is what a client may conclude. A success: every save was
made and every event offered to its listeners. A 500: the use case itself failed,
not a listener of what it had saved. It does *not* mean that nothing was saved:
the search of `configure` or `create` may fail after the save, the seed stops
between two of its saves, and the confirmation of a commit may be lost
(`Breaks`). Any other error: nothing was saved, with three exceptions the property
names: a refresh that gave the alarm or met a closed account has closed the
sessions of the user, a seed has the saves it made before the rule it broke, and
a product created while its business was being closed is stored although the
answer is that there is no such business.

`RefusalTakesItsTime`: whoever is told 1100 had a password verified, his own or
nobody's, unless argon2 failed for him himself. `Argon2PasswordVerifier` swallows
three failures: of the verification of a stored hash, which counts as a wrong
password (31-46), of the verification against the dummy (54-60), and of the dummy
hash (75-80). The first two spare their own request the time and no other, and the
third spares those that waited for that very promise; the property says that it
spares nobody later. An account whose stored hash cannot be read is therefore
answered at once every time.

`NothingHangs` is checked under `FairSpec`: weak
fairness of the steps of a request, of the hash (argon2 ends) and of the timer
(`ForceExit`), not of the orderly close, which is what the timer is for. Weak
fairness is enough as no step here waits for a lock. Deadlock checking is off: a
process that is down stays down.

### Proofs

`GatewayProofs` proves, for any requests, any set of refusals and any number of
events and of saves of the seed, `GatewayTypeCorrect` (`Spec => []TypeOK`), `AnswersAreTrue`
(`Spec => []AnswerTellsWhatHappened`), `TheAdmittedAct`
(`Spec => []OnlyTheAdmittedAct`) and `RefusalsTakeTheirTime`
(`Spec => []RefusalTakesItsTime`), from `EventBound`, `SaveBound` (the seed saves at
least once), `SentAssumption` and `RefusalAssumption`: the rules of the use cases never refuse with 1100, the code
that only `LoginUseCase` throws (`login.use-case.ts:47`, 63, 74).

A check that passed leaves no trace but the stage that was reached, so the
invariant reads what a request has been through off its stage: `SoundOnTheWay`
says which checks each stage stands for (from `Path`, whose order is therefore
what the proof rests on), `SoundInTheEnd` what each answer stands for. A use case
that has saved comes back to its questions only if it is the seed, or if it shows
what it saved and has nothing left to save (`Back`); that nobody else has a second
save to make is `OneSave`, and from the two follows which refusals may come after
a save. The session never reopens, so a request that met an open one was not late;
what is owed to listeners never changes what was saved. `NothingHangs` is liveness and
stays with TLC.

## Seed

`Seed` keeps, of every table, whether a business has rows in it. `Select` and one
`Delete` per statement are the transaction of `TypeOrmSeedDataCleanerAdapter`, in
the order of its list; the rows it has deleted stay visible to others until
`Commit`. `SaveBusiness` and `Save` are the saves of `RunSeedUseCase`, each
committed by itself; the listener that writes movements swallows its failures.
Clients insert rows and close businesses meanwhile (`ClientInserts`,
`CloseBusiness`), statements break (`Breaks`), and PostgreSQL's foreign keys
restrict, cascade and make statements wait (`DeleteWaits`), or be aborted when two
wait for each other (`Deadlocked`).

Two simplifications bound what the module says. A save that must wait (for the
slug or the parent that a removal is deleting) waits without holding locks: a save
and a removal never wait for each other here, only two removals do. And of the two
unique keys of a business only the slug is kept. The NITs of the plan are taken to
be nobody else's, which `docs/seed.md:253` asks for; for the writes of clients that
are modelled, insertions and closings, slug and NIT go together. A client that
renames a test business's slug (`update-tenant.use-case.ts`) leaves a row that the
removal no longer finds and whose NIT refuses every later creation: calling again
is then not enough until the row is removed by hand, as `docs/seed.md:252` says of
a slug changed in the plan.

`seed` (`MCSeed.cfg`): two calls, a business in the plan and one beside it, up to
four businesses ever and one write of a client. 204 647 states. The plan of the
code has several businesses; they are created one after the other by the same
saves, and one is enough for two calls to meet at every statement. It shows
`CallingAgainIsEnough` (a call that is alone and meets no failure succeeds
whatever others left), `DeletesWholeBusinesses` (an action property: no row
vanishes without its whole business, none stays behind) and `EveryRunEnds` under
strong fairness of the steps of a call: PostgreSQL gives a lock to whoever waited
first and Node runs what is ready. Nothing is assumed of clients, failures or
new calls.

### Proofs

`SeedProofs` proves, for any calls, slugs, plan and bounds (`PlanAssumption`: the
plan is a list of different slugs and not empty; `SeedBounds`: finitely many
calls are in flight, and the bound on businesses leaves room for those that
exist at the start), `BusinessesGoWhole` (`Spec => DeletesWholeBusinesses`),
`SeedTypes` (`Spec => []TypeOK`) and `CallAgain` (`Spec => []CallingAgainIsEnough`).

Statement by statement, rows may be inserted behind a removal's back into tables
it has already emptied. What keeps them from staying behind is the order of the
foreign keys: every table has an anchor, a table its rows always name and that
is deleted after it (`Anchor`: branches for movements and batches, items for
recipes, the business for the rest). `IInv` says that no row is without its
anchor, and that no row that a removal has not deleted has an anchor that it
has: a statement that would leave one fails (`Dangling`), and nobody inserts
under an anchor that is going, because the insertion waits. When the businesses
themselves are deleted, following the anchors shows that nothing is left
(`RemovesAll`). The transactions must not share rows (`Apart`), or the commit of
one would take them from the other; `DeleteWaits` sees to that. TLC checked
`IInv` on the instance of `seed` first.

That `Newest` keeps its bound needs a count (`Room`): what the calls in flight
may still create fits, because `Call` asks for a whole plan.

`CallAgain` rests on a second invariant, `AloneInv`, which says how far a call has
come that is alone and has met no failure. No other call is in flight: any step
of another, and any write of a client, ends its being alone. While it removes, it
has chosen every business of the plan and has deleted all that its statements so
far name or cascade to (`Emptied`); the statements come in an order in which
whatever names a table is gone before the table is (`DeletesInOrder`), so no
foreign key refuses one. While it creates, the slugs before its turn are complete,
those after it have no business, and the one at its turn has one, open, whose rows
are those of the saves so far (`Filled`); each save comes after those its rows
depend on (`SavesInOrder`). At the end of the plan every slug is complete, which is
what the property promises. Between the two, `RemovesAll` says that the commit
leaves nothing of the plan, whatever half-made businesses were there, so the
creation starts with no slug taken. TLC checked `AloneInv` on the instance of
`seed`, and on one with two businesses in the plan. Only model-checked:
`EveryRunEnds`, which is liveness.

## Findings

Two defects and a race that a comment rules out; each is a run that ends in a
counterexample.
Details and quotes are in `PROJECT.json`.

| Run | Statement | What TLC finds |
|---|---|---|
| `sessions_alarm` | `session-exceptions.ts`: a reused token closes every session of the user | an alarm that meets a rotation in flight does not see the successor: one live session of the stolen login survives |
| `stock_overrides` | `inventory-item.repository.ts`: overrides are reconciled only when all were loaded | one consumption deletes the minimums of the other branches |
| `stock_oversell` | `inventory-item.aggregate.ts`: never takes more from a batch than it has | two overlapping consumptions take the same units; both are recorded |

`AlarmedStayClosed` is the part of the alarm's promise that does hold, and is
proved: every session that existed when it started is closed when it ends and
stays closed.

Further statements that TLC refutes; each configuration checks one and ends in a
counterexample (`tlc -config MCGatewayMenu.cfg MCGateway` and so on):

| Configuration | Property | Statement | What TLC finds |
|---|---|---|---|
| `MCSessionsLogoutTwice.cfg` | `FirstRevocationSticks` | `logout.use-case.spec.ts:181`: two tabs that close at once do not alter the original reason and date | both read the live row before either writes it; the later one replaces both, and may erase `ROTATED` and its pointer |
| `MCSessionsClosedAccount.cfg` | `ClosedAccountIsCutOff` | `jwt-auth.guard.ts:80`, `03-sessions.sql:30`: closing a user or a business cuts its sessions at once | pausing an account revokes nothing; its access token is admitted until it expires |
| `MCRegistryBranch.cfg` | `InactiveBranchReceivesNothing` | `branch.repository.ts:25`: an inactive branch receives nothing | the branch is closed between `existsInTenant` and the write of the user |
| `MCCatalogDeleted.cfg` | `DeletedIsFinal` | `entity-status.ts:8`: a deleted record is not shown and cannot be modified | an update that loaded the product before the deletion writes its status back |
| `MCCatalogUnreadable.cfg` | `StoredIsReadable` | `docs/arquitectura.md`: value objects are validated when they are created | a margin below 0.005 is valid as it is sent, fits a price equal to the cost, and is stored as 0, a value that is refused when the row is loaded |
| `MCItemsOwnName.cfg` | `OwnNameIsFree` | `update-inventory-item.use-case.ts:17`: a new name is checked, except against the item itself | an update that sends the name the item has is refused: `existsByName` counts the item itself |
| `MCFrontCents.cfg` | `EveryQuoteIsHonoured` | the comment of `ensurePricingIsConsistent`: the price of a quote is accepted | below a hundred pesos half a cent moves the margin, and the product is refused |
| `MCFrontEmpty.cfg` | `NeverEmpty` | `product-branch-config.aggregate.ts:124`: a configuration is never left empty | two saves, each of which clears one of the two fields, leave a row with neither |
| `MCFrontByDate.cfg` | `LosesNothing` | none: what the listings with an id as the last key keep | with equal dates a row is never shown, although nobody touched the list |
| `MCGatewayMenu.cfg` | `RefusalIsNoFailure` | `docs/manejo-de-errores-y-logs.md:16`: code and status are the catalog's | 1605 (`menu.exception.ts:51`) is not in the catalog: an unknown menu is answered 503 instead of 404 |

## What is not modelled

- The costs of batches and the weighted averages: no step of the modelled
  operations depends on them. Reads change nothing; what can go wrong in those
  that span requests is `Listing`. Whether the business exists, which creating an
  item or a product asks first, is asked once and never again; closing a business
  is in `Registry`.
- Recipes: the code of products keeps their tables and has the requests switched
  off (`create-product.use-case.ts`, `update-product.use-case.ts`).
- Signing and decoding of tokens, the formats value objects accept, DTO
  validation field by field: pure functions of one request, of which `Gateway`
  keeps the outcome.
- The cookie jar of the browser: the order in which answers reach it is not the
  program's. What the server can answer to two refreshes at once is in
  `Sessions` and `Gateway`.
- Logging, configuration, the setup of the database: no state of the business.
- `rol` is read only.
- Which modules are loaded: `ProductBranchConfigModule` is disconnected in this
  version (`app.module.ts:9-11`, 33) and comes in only with the seed module, which
  is loaded in development alone. `BranchPrices`, the `configure` of `Gateway`, the
  `seed` of `Gateway` and `Seed` are about that configuration.
- Of the register, the columns without an index: profile, address, phone,
  password, role (only whether it has a branch matters). A pause undone by the
  stale write of another request is a behaviour of `Registry`, but nothing in
  the repository says that it should not be.

## Plan

What was planned is modelled, checked and, as far as safety goes, proved. With TLC
alone stay the three liveness properties, `EveryRequestEnds`, `EveryRunEnds` and
`NothingHangs`: temporal formulas under fairness and `ENABLED` are out of the
prover's reach. With the next change of the code come, in this order, its action
in the module, the run, and the step of the proof that preserves the invariant.
