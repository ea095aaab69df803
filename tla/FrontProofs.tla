---------------------------- MODULE FrontProofs -----------------------------
(***************************************************************************)
(* Theorems about the parts that MCFront puts side by side, for any values *)
(* of their constants: the prices of a product by branch, the lists read   *)
(* page by page, the quotes of prices and the tree of menus.  The fifth,   *)
(* the inventory items, has a module of its own.  The last section proves  *)
(* that what MCFront sets side by side behaves as each of its parts.       *)
(***************************************************************************)
EXTENDS MCFront, ItemsProofs, FiniteSetTheorems, WellFoundedInduction, TLAPS

-----------------------------------------------------------------------------
(***************************************************************************)
(* Prices by branch: the invariant.  Two rows never share their id or      *)
(* their branch, what a request writes is of the business, and what it     *)
(* holds is what the table says for as long as nobody else writes.         *)
(***************************************************************************)

Asked == {<<>>} \cup UNION {[B -> Wish] : B \in SUBSET Branch}

RequestRow ==
  [step : {"idle", "save", "commit", "delete"}, entries : Asked, copies : SUBSET Row,
   found : SUBSET Row, alone : BOOLEAN]

Shaped ==
  /\ config \in SUBSET Row
  /\ lastId \in 0 .. MaxId
  /\ request \in [Request -> RequestRow]

Saving(r) == r.step \in {"save", "commit"}

\* Rows, and copies about to be written, are of branches of the business, with
\* ids that were generated.
OursAndDrawn(rows, last) == \A r \in rows : r.branch \in Ours /\ r.id <= last

\* A request that saves, as long as nobody else wrote: a changed copy of every
\* configuration it names, a new one for each branch named that has none, none
\* empty; and what it has found are those configurations.
Fresh(r, table) ==
  /\ r.entries \in UNION {[B -> Wish] : B \in SUBSET Branch}
  /\ \A x \in table : x.branch \in DOMAIN r.entries => Changed(x, r.entries[x.branch]) \in r.copies
  /\ \A b \in DOMAIN r.entries :
       (\A x \in table : x.branch # b) =>
         \E c \in r.copies : c.branch = b /\ \A x \in table : x.id # c.id
  /\ \A c \in r.copies :
       /\ ~IsEmpty(c)
       /\ \A x \in table : x.id = c.id => /\ x.branch \in DOMAIN r.entries
                                           /\ c = Changed(x, r.entries[x.branch])
  /\ r.step = "commit" => r.found = {x \in table : \E c \in r.copies : c.id = x.id}

PriceInv ==
  /\ Shaped
  /\ KeysAllow(config)
  /\ OursAndDrawn(config, lastId)
  /\ \A p \in Request : Saving(request[p]) => OursAndDrawn(request[p].copies, lastId)
  /\ \A p \in Request : Saving(request[p]) /\ request[p].alone => Fresh(request[p], config)

-----------------------------------------------------------------------------
(***************************************************************************)
(* What the rows become.                                                   *)
(***************************************************************************)

LEMMA ChangedIsRow ==
  ASSUME NEW r \in Row, NEW e \in Wish
  PROVE  /\ Changed(r, e) \in Row
         /\ Changed(r, e).id = r.id
         /\ Changed(r, e).branch = r.branch
         /\ Changed(r, e).price = Given(e.price, r.price)
         /\ Changed(r, e).available = Given(e.available, r.available)
  BY WishAssumption, ValueAssumption DEF Changed, Given, Row

LEMMA CreatedIsRow ==
  ASSUME NEW i \in 1 .. MaxId, NEW b \in Branch, NEW e \in Wish
  PROVE  /\ Created(i, b, e) \in Row
         /\ Created(i, b, e).id = i
         /\ Created(i, b, e).branch = b
<1> DEFINE r == [id |-> i, branch |-> b, price |-> Null, available |-> Null]
<1>1. r \in Row
  BY DEF Row
<1>2. QED
  BY <1>1, ChangedIsRow DEF Created

LEMMA UpdatedIsRow ==
  ASSUME NEW r \in Row, NEW c \in Row, NEW f \in Row
  PROVE  /\ Updated(r, c, f) \in Row
         /\ Updated(r, c, f).id = r.id
         /\ Updated(r, c, f).branch = r.branch
  BY DEF Updated, Row

\* A copy that is updated onto the row it was read from.
LEMMA UpdatedTakesAll ==
  ASSUME NEW r \in Row, NEW c \in Row
  PROVE  Updated(r, c, r).price = c.price /\ Updated(r, c, r).available = c.available
  BY DEF Updated, Row

LEMMA UpdatesLeave ==
  ASSUME NEW copies, NEW found, NEW s \in AfterUpdates(copies, found)
  PROVE  \/ s \in config
         \/ \E r \in config, c \in copies, f \in found : s = Updated(r, c, f)
  BY DEF AfterUpdates, WithId

LEMMA UpdatesWrite ==
  ASSUME NEW copies, NEW found, NEW r \in config, NEW c \in copies, NEW f \in found,
         r.id = c.id, r.id = f.id
  PROVE  Updated(r, c, f) \in AfterUpdates(copies, found)
<1>1. c \in WithId(r.id, copies) /\ f \in WithId(r.id, found)
  BY DEF WithId
<1> HIDE DEF WithId
<1> DEFINE written == {Updated(r, d, g) : d \in WithId(r.id, copies), g \in WithId(r.id, found)}
<1>2. Updated(r, c, f) \in written
  BY <1>1
<1>3. written \subseteq AfterUpdates(copies, found)
  BY DEF AfterUpdates
<1>4. QED
  BY <1>2, <1>3

LEMMA AfterIsRows ==
  ASSUME NEW copies \in SUBSET Row, NEW found \in SUBSET Row, config \in SUBSET Row,
         OursAndDrawn(config, lastId), OursAndDrawn(copies, lastId), NEW s \in After(copies, found)
  PROVE  s \in Row /\ s.branch \in Ours /\ s.id <= lastId
<1>1. CASE s \in AfterUpdates(copies, found)
  <2>1. CASE s \in config
    BY <2>1 DEF OursAndDrawn
  <2>2. CASE \E r \in config, c \in copies, f \in found : s = Updated(r, c, f)
    BY <2>2, UpdatedIsRow DEF OursAndDrawn
  <2>3. QED
    BY <1>1, <2>1, <2>2, UpdatesLeave
<1>2. CASE s \in Inserted(copies, found)
  BY <1>2 DEF Inserted, OursAndDrawn
<1>3. QED
  BY <1>1, <1>2 DEF After

-----------------------------------------------------------------------------
(***************************************************************************)
(* The actions keep the invariant.                                         *)
(***************************************************************************)

LEMMA IdleIsRequest == Idle \in RequestRow /\ ~Saving(Idle)
  BY DEF Idle, RequestRow, Asked, Saving

\* One request takes a step that leaves the table.
LEMMA OneStep ==
  ASSUME PriceInv, NEW p \in Request, NEW r \in RequestRow, config' = config,
         request' = [request EXCEPT ![p] = r],
         lastId' \in 0 .. MaxId, lastId <= lastId',
         Saving(r) => OursAndDrawn(r.copies, lastId'),
         Saving(r) /\ r.alone => Fresh(r, config)
  PROVE  PriceInv'
<1>1. request \in [Request -> RequestRow] /\ lastId \in 0 .. MaxId /\ config \in SUBSET Row
  BY DEF PriceInv, Shaped
<1>2. Shaped'
  BY <1>1 DEF Shaped
<1>3. KeysAllow(config)'
  BY DEF PriceInv, KeysAllow
<1>4. \A rows \in SUBSET Row : OursAndDrawn(rows, lastId) => OursAndDrawn(rows, lastId')
  BY <1>1, IdBound DEF OursAndDrawn, Row
<1>5. request'[p] = r /\ \A q \in Request \ {p} : request'[q] = request[q]
  BY <1>1
<1>6. OursAndDrawn(config', lastId')
  BY <1>1, <1>4 DEF PriceInv
<1>7. ASSUME NEW q \in Request, Saving(request'[q])
      PROVE  OursAndDrawn(request'[q].copies, lastId')
  <2>1. CASE q = p
    BY <2>1, <1>5, <1>7
  <2>2. CASE q # p
    <3>1. request[q].copies \in SUBSET Row
      BY <1>1 DEF RequestRow
    <3>2. OursAndDrawn(request[q].copies, lastId)
      BY <2>2, <1>5, <1>7 DEF PriceInv
    <3> QED
      BY <2>2, <1>4, <1>5, <3>1, <3>2
  <2> QED
    BY <2>1, <2>2
<1>8. ASSUME NEW q \in Request, Saving(request'[q]), request'[q].alone
      PROVE  Fresh(request'[q], config')
  <2>1. Fresh(request'[q], config)
    BY <1>5, <1>8 DEF PriceInv
  <2> QED
    BY <2>1
<1> QED
  BY <1>2, <1>3, <1>6, <1>7, <1>8 DEF PriceInv, Saving, OursAndDrawn, Fresh

\* A request writes: whatever the others have read is no longer certain.
LEMMA OneWrites ==
  ASSUME PriceInv, NEW p \in Request, OthersNotice(p), lastId' = lastId,
         config' \in SUBSET Row, KeysAllow(config'), OursAndDrawn(config', lastId)
  PROVE  PriceInv'
<1>1. request \in [Request -> RequestRow]
  BY DEF PriceInv, Shaped
<1>2. ASSUME NEW q \in Request
      PROVE  /\ request'[q] \in RequestRow
             /\ Saving(request'[q]) =>
                  /\ ~request'[q].alone
                  /\ Saving(request[q])
                  /\ request'[q].copies = request[q].copies
  <2>1. CASE q = p \/ IsAt(q, "idle")
    <3>1. request'[q] = Idle \/ (request'[q] = request[q] /\ request[q].step = "idle")
      BY <2>1 DEF OthersNotice, IsAt
    <3> QED
      BY <1>1, <3>1, IdleIsRequest DEF Saving
  <2>2. CASE ~(q = p \/ IsAt(q, "idle"))
    <3>1. request'[q] = [request[q] EXCEPT !.alone = FALSE]
      BY <2>2 DEF OthersNotice
    <3>2. request[q] \in RequestRow
      BY <1>1
    <3> QED
      BY <3>1, <3>2 DEF RequestRow, Saving
  <2> QED
    BY <2>1, <2>2
<1>3. request' \in [Request -> RequestRow]
  <2>1. request' = [q \in Request |-> request'[q]]
    BY DEF OthersNotice
  <2> QED
    BY <1>2, <2>1
<1>4. Shaped'
  BY <1>3 DEF PriceInv, Shaped
<1>5. KeysAllow(config)'
  BY DEF KeysAllow
<1>6. OursAndDrawn(config', lastId')
  BY DEF OursAndDrawn
<1>7. \A q \in Request : Saving(request'[q]) => OursAndDrawn(request'[q].copies, lastId')
  BY <1>2 DEF PriceInv, OursAndDrawn, Saving
<1>8. \A q \in Request : ~(Saving(request'[q]) /\ request'[q].alone)
  BY <1>2 DEF Saving
<1> QED
  BY <1>4, <1>5, <1>6, <1>7, <1>8 DEF PriceInv

LEMMA PricesInitHolds == Init => PriceInv
  BY IdleIsRequest, IdBound DEF Init, PriceInv, Shaped, KeysAllow, OursAndDrawn

LEMMA ConfigureKeeps ==
  ASSUME PriceInv, NEW p \in Request, NEW branches \in SUBSET Branch, Configure(p, branches)
  PROVE  PriceInv'
<1> DEFINE new == branches \ Configured
<1>1. PICK entries \in [branches -> Wish],
           newId \in [new -> lastId + 1 .. lastId + Cardinality(new)] :
        /\ \A r \in Prepared(entries, newId) : ~IsEmpty(r)
        /\ request' = [request EXCEPT ![p] =
             [step |-> "save", entries |-> entries, copies |-> Prepared(entries, newId),
              found |-> {}, alone |-> TRUE]]
  BY DEF Configure
<1> DEFINE copies == Prepared(entries, newId)
           r == [step |-> "save", entries |-> entries, copies |-> copies,
                 found |-> {}, alone |-> TRUE]
<1>2. /\ config' = config /\ lastId' = lastId + Cardinality(new)
      /\ lastId + Cardinality(new) <= MaxId /\ branches \subseteq Ours
  BY DEF Configure, Reachable
<1>3. Cardinality(new) \in Nat
  BY BranchAssumption, FS_CardinalityType, FS_Subset
<1>4. /\ config \in SUBSET Row /\ lastId \in Nat /\ lastId \in 0 .. MaxId
      /\ OursAndDrawn(config, lastId)
  BY IdBound DEF PriceInv, Shaped
<1>5. ASSUME NEW c \in copies
      PROVE  /\ c \in Row /\ c.branch \in Ours /\ c.id <= lastId'
             /\ \/ \E x \in config : /\ x.branch \in branches
                                     /\ c = Changed(x, entries[x.branch])
                                     /\ c.id = x.id
                \/ c.id > lastId
  <2>1. CASE \E x \in config : x.branch \in branches /\ c = Changed(x, entries[x.branch])
    <3>1. PICK x \in config : x.branch \in branches /\ c = Changed(x, entries[x.branch])
      BY <2>1
    <3>2. x \in Row /\ entries[x.branch] \in Wish
      BY <1>4, <3>1
    <3>3. c \in Row /\ c.id = x.id /\ c.branch = x.branch
      BY <3>1, <3>2, ChangedIsRow
    <3>4. x.branch \in Ours /\ x.id <= lastId /\ x.id \in Nat
      BY <1>4, <3>2, IdBound DEF OursAndDrawn, Row
    <3> QED
      BY <1>2, <1>3, <1>4, <3>1, <3>3, <3>4
  <2>2. CASE \E b \in new : c = Created(newId[b], b, entries[b])
    <3>1. PICK b \in new : c = Created(newId[b], b, entries[b])
      BY <2>2
    <3>2. newId[b] \in lastId + 1 .. lastId + Cardinality(new)
      OBVIOUS
    <3>3. newId[b] \in 1 .. MaxId /\ newId[b] > lastId /\ newId[b] <= lastId'
      BY <1>2, <1>3, <1>4, <3>2, IdBound
    <3>4. b \in Ours /\ b \in Branch /\ entries[b] \in Wish
      BY <1>2
    <3> QED
      BY <3>1, <3>3, <3>4, CreatedIsRow
  <2> QED
    BY <2>1, <2>2 DEF Prepared
<1>6. r \in RequestRow /\ entries \in UNION {[B -> Wish] : B \in SUBSET Branch}
  BY <1>5 DEF RequestRow, Asked
<1>7. OursAndDrawn(copies, lastId')
  BY <1>5 DEF OursAndDrawn
<1>8. Fresh(r, config)
  <2>1. \A x \in config : x.branch \in branches => Changed(x, entries[x.branch]) \in copies
    BY DEF Prepared
  <2>2. ASSUME NEW b \in branches \ Configured
        PROVE  \E c \in copies : c.branch = b /\ \A x \in config : x.id # c.id
    <3>1. Created(newId[b], b, entries[b]) \in copies
      BY DEF Prepared
    <3>2. newId[b] \in lastId + 1 .. lastId + Cardinality(new)
      OBVIOUS
    <3>3. newId[b] \in 1 .. MaxId /\ newId[b] > lastId
      BY <1>2, <1>3, <1>4, <3>2, IdBound
    <3>4. /\ Created(newId[b], b, entries[b]).branch = b
          /\ Created(newId[b], b, entries[b]).id = newId[b]
      BY <1>4, <3>3, CreatedIsRow
    <3>5. \A x \in config : x.id # newId[b]
      BY <1>4, <3>3, IdBound DEF OursAndDrawn, Row
    <3> QED
      BY <3>1, <3>4, <3>5
  <2>3. ASSUME NEW c \in copies, NEW x \in config, x.id = c.id
        PROVE  x.branch \in branches /\ c = Changed(x, entries[x.branch])
    <3>1. x.id <= lastId /\ x.id \in Nat
      BY <1>4, IdBound DEF OursAndDrawn, Row
    <3>2. PICK y \in config : /\ y.branch \in branches
                              /\ c = Changed(y, entries[y.branch])
                              /\ c.id = y.id
      BY <1>4, <1>5, <2>3, <3>1
    <3>3. x = y
      BY <2>3, <3>2 DEF PriceInv, KeysAllow
    <3> QED
      BY <3>2, <3>3
  <2> QED
    BY <1>1, <1>6, <2>1, <2>2, <2>3 DEF Fresh, Configured
<1>9. Saving(r) => OursAndDrawn(r.copies, lastId')
  BY <1>7
<1> HIDE DEF r, copies
<1>10. request' = [request EXCEPT ![p] = r]
  BY <1>1 DEF r, copies
<1>11. lastId' \in 0 .. MaxId /\ lastId <= lastId'
  BY <1>2, <1>3, <1>4, IdBound
<1> QED
  BY <1>2, <1>6, <1>8, <1>9, <1>10, <1>11, OneStep

LEMMA RemoveKeeps ==
  ASSUME PriceInv, NEW p \in Request, NEW branches \in SUBSET Branch, RemoveConfigs(p, branches)
  PROVE  PriceInv'
<1> DEFINE r == [Idle EXCEPT !.step = "delete", !.copies = {x \in config : x.branch \in branches}]
<1>1. r \in RequestRow /\ ~Saving(r)
  BY DEF PriceInv, Shaped, Idle, RequestRow, Asked, Saving
<1>2. request' = [request EXCEPT ![p] = r] /\ config' = config /\ lastId' = lastId
  BY DEF RemoveConfigs
<1>3. lastId' \in 0 .. MaxId /\ lastId <= lastId'
  BY <1>2, IdBound DEF PriceInv, Shaped
<1> QED
  BY <1>1, <1>2, <1>3, OneStep

LEMMA SaveSelectKeeps ==
  ASSUME PriceInv, NEW p \in Request, SaveSelect(p)  PROVE PriceInv'
<1> DEFINE found == {x \in config : x.id \in {c.id : c \in request[p].copies}}
           r == [request[p] EXCEPT !.step = "commit", !.found = found]
<1>1. request[p] \in RequestRow /\ config \in SUBSET Row /\ Saving(request[p])
  BY DEF PriceInv, Shaped, SaveSelect, IsAt, Saving
<1>2. /\ r \in RequestRow
      /\ r.step = "commit" /\ r.found = found /\ r.copies = request[p].copies
      /\ r.entries = request[p].entries /\ r.alone = request[p].alone
  BY <1>1 DEF RequestRow
<1>3. found = {x \in config : \E c \in r.copies : c.id = x.id}
  BY <1>2
<1>4. OursAndDrawn(r.copies, lastId)
  BY <1>1, <1>2 DEF PriceInv
<1>5. ASSUME r.alone  PROVE Fresh(r, config)
  <2>1. Fresh(request[p], config)
    BY <1>1, <1>2, <1>5 DEF PriceInv
  <2> HIDE DEF r, found
  <2>2. r.found = {x \in config : \E c \in r.copies : c.id = x.id}
    BY <1>2, <1>3
  <2> QED
    BY <1>2, <2>1, <2>2 DEF Fresh
<1>6. request' = [request EXCEPT ![p] = r] /\ config' = config /\ lastId' = lastId
  BY <1>1 DEF SaveSelect, PriceInv, Shaped, RequestRow
<1>7. lastId' \in 0 .. MaxId /\ lastId <= lastId'
  BY <1>6, IdBound DEF PriceInv, Shaped
<1> HIDE DEF r
<1> QED
  BY <1>2, <1>4, <1>5, <1>6, <1>7, OneStep

LEMMA EndsKeeps ==
  ASSUME PriceInv, NEW p \in Request, Ends(p), UNCHANGED <<config, lastId>>  PROVE PriceInv'
<1>1. request' = [request EXCEPT ![p] = Idle] /\ lastId' \in 0 .. MaxId /\ lastId <= lastId'
  BY IdBound DEF Ends, PriceInv, Shaped
<1> QED
  BY <1>1, IdleIsRequest, OneStep

LEMMA CommitKeeps ==
  ASSUME PriceInv, NEW p \in Request, SaveCommit(p)  PROVE PriceInv'
<1>1. CASE config' = config
  BY <1>1, EndsKeeps DEF SaveCommit
<1>2. CASE config' # config
  <2> DEFINE table == After(request[p].copies, request[p].found)
  <2>1. config' = table /\ KeysAllow(table) /\ OthersNotice(p) /\ lastId' = lastId
    BY <1>2 DEF SaveCommit
  <2>2. /\ request[p].copies \in SUBSET Row
        /\ request[p].found \in SUBSET Row
        /\ OursAndDrawn(request[p].copies, lastId)
    BY DEF PriceInv, Shaped, RequestRow, SaveCommit, IsAt, Saving
  <2>3. \A s \in table : s \in Row /\ s.branch \in Ours /\ s.id <= lastId
    BY <2>2, AfterIsRows DEF PriceInv, Shaped
  <2>4. OursAndDrawn(config', lastId)
    BY <2>1, <2>3 DEF OursAndDrawn
  <2> QED
    BY <2>1, <2>3, <2>4, OneWrites
<1> QED
  BY <1>1, <1>2

LEMMA DeleteKeeps ==
  ASSUME PriceInv, NEW p \in Request, Delete(p)  PROVE PriceInv'
<1>1. config' \subseteq config /\ OthersNotice(p) /\ lastId' = lastId
  BY DEF Delete
<1>2. config' \in SUBSET Row /\ KeysAllow(config') /\ OursAndDrawn(config', lastId)
  BY <1>1 DEF PriceInv, Shaped, KeysAllow, OursAndDrawn
<1> QED
  BY <1>1, <1>2, OneWrites

LEMMA PricesStutterKeeps ==
  ASSUME PriceInv, UNCHANGED vars  PROVE PriceInv'
  BY DEF PriceInv, Shaped, vars, KeysAllow, OursAndDrawn, Fresh, Saving

\* The invariant of the prices by branch holds of every behaviour.
THEOREM PriceInvariant == Spec => []PriceInv
<1>1. Init => PriceInv
  BY PricesInitHolds
<1>2. ASSUME PriceInv, [Next]_vars  PROVE PriceInv'
  <2>1. CASE UNCHANGED vars
    BY <1>2, <2>1, PricesStutterKeeps
  <2>2. ASSUME NEW p \in Request, RequestStep(p)  PROVE PriceInv'
    BY <1>2, <2>2, ConfigureKeeps, RemoveKeeps, SaveSelectKeeps, CommitKeeps, DeleteKeeps, EndsKeeps
    DEF RequestStep, Dies
  <2> QED
    BY <1>2, <2>1, <2>2 DEF Next
<1> QED
  BY <1>1, <1>2, PTL DEF Spec

-----------------------------------------------------------------------------

\* However saves of several branches and removals overlap, a branch has at most
\* one configuration, and only branches of the business have one (saveMany,
\* ensureBranchesBelongToTenant).
THEOREM OneConfigEach == Spec => []OneOwnConfigPerBranch
<1>1. ASSUME PriceInv  PROVE OneOwnConfigPerBranch
  <2>1. ASSUME NEW b \in Branch  PROVE Cardinality(ConfigOf(b)) <= 1
    <3>1. CASE ConfigOf(b) = {}
      BY <3>1, FS_EmptySet
    <3>2. CASE ConfigOf(b) # {}
      <4>1. PICK r : ConfigOf(b) = {r}
        BY <1>1, <3>2 DEF PriceInv, KeysAllow, ConfigOf
      <4>2. Cardinality({r}) = 1
        BY FS_Singleton
      <4> QED
        BY <4>1, <4>2
    <3> QED
      BY <3>1, <3>2
  <2>2. Configured \subseteq Ours
    BY <1>1 DEF PriceInv, OursAndDrawn, Configured
  <2> QED
    BY <2>1, <2>2 DEF OneOwnConfigPerBranch
<1> QED
  BY <1>1, PriceInvariant, PTL

\* The table and the requests keep their types.
THEOREM PricesTypes == Spec => []TypeOK
<1>1. ASSUME PriceInv  PROVE TypeOK
  <2>1. \A p \in Request : request[p] \in RequestRow
    BY <1>1 DEF PriceInv, Shaped
  <2>2. ASSUME NEW e \in Asked, NEW b \in DOMAIN e  PROVE b \in Branch /\ e[b] \in Wish
    BY <2>2 DEF Asked
  <2> QED
    BY <1>1, <2>1, <2>2 DEF TypeOK, RequestRow, PriceInv, Shaped
<1> QED
  BY <1>1, PriceInvariant, PTL

\* What the commit of such a save leaves.
LEMMA CommitSaysIt ==
  ASSUME PriceInv, NEW p \in Request, SaveCommit(p), request[p].alone, config' # config
  PROVE  LET entries == request[p].entries
         IN /\ \A r \in config : r.branch \notin DOMAIN entries => r \in config'
            /\ \A b \in DOMAIN entries :
                 \E s \in config' :
                   /\ s.branch = b
                   /\ ~IsEmpty(s)
                   /\ \A r \in ConfigOf(b) :
                        /\ s.price = Given(entries[b].price, r.price)
                        /\ s.available = Given(entries[b].available, r.available)
<1> DEFINE entries == request[p].entries
           copies == request[p].copies
           found == request[p].found
<1>1. config' = After(copies, found)
  BY DEF SaveCommit
<1>2. /\ config \in SUBSET Row /\ copies \in SUBSET Row /\ KeysAllow(config)
      /\ Fresh(request[p], config) /\ request[p].step = "commit"
  BY DEF PriceInv, Shaped, RequestRow, SaveCommit, IsAt, Saving
<1>3. /\ \A x \in config : x.branch \in DOMAIN entries => Changed(x, entries[x.branch]) \in copies
      /\ \A b \in DOMAIN entries :
           (\A x \in config : x.branch # b) =>
             \E c \in copies : c.branch = b /\ \A x \in config : x.id # c.id
      /\ \A c \in copies : ~IsEmpty(c)
      /\ \A c \in copies, x \in config : x.id = c.id => x.branch \in DOMAIN entries
      /\ found = {x \in config : \E c \in copies : c.id = x.id}
  BY <1>2 DEF Fresh
<1>4. \A b \in DOMAIN entries : entries[b] \in Wish
  BY <1>2 DEF Fresh
<1> HIDE DEF entries, copies, found
<1>5. ASSUME NEW r \in config, r.branch \notin DOMAIN entries  PROVE r \in config'
  <2>1. WithId(r.id, found) = {}
    BY <1>2, <1>3, <1>5 DEF WithId
  <2> QED
    BY <1>1, <2>1 DEF After, AfterUpdates
<1>6. ASSUME NEW b \in DOMAIN entries
      PROVE  \E s \in config' :
               /\ s.branch = b
               /\ ~IsEmpty(s)
               /\ \A r \in ConfigOf(b) : /\ s.price = Given(entries[b].price, r.price)
                                         /\ s.available = Given(entries[b].available, r.available)
  <2>1. CASE \A x \in config : x.branch # b
    <3>1. PICK c \in copies : c.branch = b /\ \A x \in config : x.id # c.id
      BY <1>3, <2>1
    <3>2. c \in config'
      BY <1>1, <1>3, <3>1 DEF After, Inserted, WithId
    <3>3. ConfigOf(b) = {}
      BY <2>1 DEF ConfigOf
    <3> QED
      BY <1>3, <3>1, <3>2, <3>3
  <2>2. ASSUME NEW x \in config, x.branch = b
        PROVE  \E s \in config' :
                 /\ s.branch = b
                 /\ ~IsEmpty(s)
                 /\ \A r \in ConfigOf(b) : /\ s.price = Given(entries[b].price, r.price)
                                           /\ s.available = Given(entries[b].available, r.available)
    <3> DEFINE c == Changed(x, entries[b])
               s == Updated(x, c, x)
    <3>1. /\ c \in copies /\ c \in Row /\ c.id = x.id
          /\ c.price = Given(entries[b].price, x.price)
          /\ c.available = Given(entries[b].available, x.available)
      BY <1>2, <1>3, <1>4, <2>2, ChangedIsRow
    <3> HIDE DEF c
    <3>2. x \in found
      BY <1>3, <3>1
    <3>3. s \in config'
      BY <1>1, <3>1, <3>2, UpdatesWrite DEF After
    <3>4. s.branch = b /\ s.price = c.price /\ s.available = c.available
      BY <1>2, <2>2, <3>1, UpdatedIsRow, UpdatedTakesAll
    <3> HIDE DEF s
    <3>5. ~IsEmpty(s)
      BY <1>3, <3>1, <3>4 DEF IsEmpty
    <3>6. \A r \in ConfigOf(b) : r = x
      BY <1>2, <2>2 DEF ConfigOf, KeysAllow
    <3> QED
      BY <3>1, <3>3, <3>4, <3>5, <3>6
  <2> QED
    BY <2>1, <2>2
<1> QED
  BY <1>5, <1>6 DEF entries

\* A request can go from saving to nothing, with another table, only by its own
\* commit.
LEMMA OnlyItsCommit ==
  ASSUME PriceInv, Next, NEW p \in Request, IsAt(p, "commit"), config' # config, request'[p] = Idle
  PROVE  SaveCommit(p)
<1>1. PICK q \in Request : RequestStep(q)
  BY DEF Next
<1>2. SaveCommit(q) \/ Delete(q)
  BY <1>1 DEF RequestStep, Configure, RemoveConfigs, SaveSelect, Dies
<1>3. CASE q = p
  BY <1>2, <1>3 DEF Delete, IsAt
<1>4. CASE q # p
  <2>1. OthersNotice(q)
    BY <1>2 DEF SaveCommit, Delete
  <2>2. request'[p] = [request[p] EXCEPT !.alone = FALSE]
    BY <1>4, <2>1 DEF OthersNotice, IsAt
  <2>3. request[p] \in RequestRow /\ request[p].step = "commit"
    BY DEF PriceInv, Shaped, IsAt
  <2>4. request'[p].step = "commit"
    BY <2>2, <2>3 DEF RequestRow
  <2> QED
    BY <2>4 DEF Idle
<1> QED
  BY <1>3, <1>4, <1>2

\* A save nobody else wrote during changes exactly what its client gave, of
\* exactly the branches it named (ConfigureProductBranchUseCase).
THEOREM SaysAndDoes == Spec => DoesWhatItSays
<1> DEFINE Does(p) ==
             IsAt(p, "commit") /\ request[p].alone /\ config' # config /\ request'[p] = Idle =>
               LET entries == request[p].entries
                   Agrees(r, s, e) == /\ s.price = Given(e.price, r.price)
                                      /\ s.available = Given(e.available, r.available)
               IN /\ \A r \in config : r.branch \notin DOMAIN entries => r \in config'
                  /\ \A b \in DOMAIN entries :
                       \E s \in config' :
                         /\ s.branch = b
                         /\ ~IsEmpty(s)
                         /\ \A r \in ConfigOf(b) : Agrees(r, s, entries[b])
<1>1. ASSUME PriceInv, [Next]_vars  PROVE [\A p \in Request : Does(p)]_vars
  <2>1. CASE UNCHANGED vars
    BY <2>1
  <2>2. ASSUME Next, NEW p \in Request  PROVE Does(p)
    BY <1>1, <2>2, OnlyItsCommit, CommitSaysIt
  <2> QED
    BY <1>1, <2>1, <2>2
<1> QED
  BY <1>1, PriceInvariant, PTL DEF Spec, DoesWhatItSays

-----------------------------------------------------------------------------
(***************************************************************************)
(* Lists: the invariant.  It counts the rows that stand before one: what   *)
(* comes pushes rows back, so that nothing due is skipped; what goes lets  *)
(* them forward, so that nothing seen comes back.                          *)
(***************************************************************************)

Ahead(i) == {j \in shown : Before(j, i)}

\* How many rows stand before row i.
Place(i) == Cardinality(Ahead(i))

\* How many places the pages read so far span.
Reached == IF reader.counted THEN Offset(reader.page) ELSE Offset(reader.page + 1)

\* Whatever was due in the places read has been seen.
MissedNothing ==
  /\ reader.due \subseteq shown
  /\ \A i \in reader.due : Place(i) < Reached => i \in reader.seen

\* Whatever has been seen still stands in the places read.
AllBehind == \A i \in reader.seen \cap shown : Place(i) < Reached

PagesInv ==
  /\ ListingTypeOK
  /\ ~Reading => reader = NotReading
  /\ Reading /\ ~reader.vanished /\ ~reader.moved => MissedNothing
  /\ Reading /\ ~reader.appeared /\ ~reader.moved => AllBehind
  /\ ReadsEachOnce

\* Every listing breaks its ties by the id.
AllTotal == \A l \in Listed : l.tie

-----------------------------------------------------------------------------
(***************************************************************************)
(* Places.                                                                 *)
(***************************************************************************)

LEMMA ShownIsFinite ==
  ASSUME ListingTypeOK, NEW S \in SUBSET shown
  PROVE  /\ IsFiniteSet(S) /\ Cardinality(S) \in Nat
         /\ \A T \in SUBSET S : Cardinality(T) <= Cardinality(S) /\ Cardinality(T) \in Nat
  BY ListingAssumption, FS_Subset, FS_CardinalityType DEF ListingTypeOK

LEMMA OrderIsTotal ==
  ASSUME ListingTypeOK, AllTotal, NEW i \in RowId, NEW j \in RowId
  PROVE  /\ ~Before(i, i)
         /\ i # j => Before(i, j) \/ Before(j, i)
         /\ ~(Before(i, j) /\ Before(j, i))
  BY ListingAssumption DEF ListingTypeOK, AllTotal, Before

LEMMA OffsetGrows ==
  ASSUME NEW p \in Nat
  PROVE  /\ Offset(1) = 0 /\ Offset(p) \in Int
         /\ Offset(p + 1) \in Nat /\ Offset(p + 1) = Offset(p) + PageSize
  BY ListingAssumption DEF Offset

LEMMA PlaceIsNumber ==
  ASSUME ListingTypeOK, NEW i  PROVE Place(i) \in Nat
  BY ShownIsFinite DEF Place, Ahead

\* Where the rows of a page stand.
LEMMA PageSpans ==
  ASSUME ListingTypeOK, AllTotal, NEW page \in Nat \ {0}, NEW rows \in Pages(page)
  PROVE  /\ rows \subseteq shown
         /\ \A i \in shown : Offset(page) <= Place(i) /\ Place(i) < Offset(page + 1) => i \in rows
         /\ \A i \in rows : Offset(page) <= Place(i) /\ Place(i) < Offset(page + 1)
<1> DEFINE n == Cardinality(shown)
           skipped == Least(Offset(page), n)
           taken == Least(PageSize, n - skipped)
<1>1. /\ n \in Nat
      /\ Offset(page) \in Nat
      /\ Offset(page + 1) = Offset(page) + PageSize
      /\ PageSize \in Nat \ {0}
  <2>1. n \in Nat
    BY ShownIsFinite
  <2>2. page - 1 \in Nat /\ page = (page - 1) + 1
    OBVIOUS
  <2> QED
    BY <2>1, <2>2, OffsetGrows, ListingAssumption
<1>2. PICK front \in kSubset(skipped, shown \ rows) :
        /\ Precede(front, rows)
        /\ Precede(front \cup rows, shown \ (front \cup rows))
  BY DEF Pages
<1>3. /\ rows \subseteq shown /\ Cardinality(rows) = taken
      /\ front \subseteq shown \ rows /\ Cardinality(front) = skipped
  BY DEF Pages, kSubset
<1>4. /\ skipped \in Nat /\ skipped <= Offset(page) /\ skipped <= n
      /\ skipped < n => skipped = Offset(page)
      /\ taken \in Nat /\ taken <= PageSize /\ skipped + taken <= n
      /\ skipped + taken < n => taken = PageSize /\ skipped = Offset(page)
      /\ taken > 0 => skipped = Offset(page)
  BY <1>1 DEF Least
<1>5. Cardinality(front \cup rows) = skipped + taken
  <2>1. front \cap rows = {} /\ IsFiniteSet(front) /\ IsFiniteSet(rows)
    BY <1>3, ShownIsFinite
  <2>2. Cardinality(front \cap rows) = 0
    BY <2>1, FS_EmptySet
  <2>3. Cardinality(front \cup rows) =
          Cardinality(front) + Cardinality(rows) - Cardinality(front \cap rows)
    BY <2>1, FS_Union
  <2> HIDE DEF skipped, taken
  <2> QED
    BY <1>3, <1>4, <2>2, <2>3
<1> HIDE DEF n, skipped, taken
<1>6. \A a \in shown, b \in shown : a # b /\ ~Before(b, a) => Before(a, b)
  BY OrderIsTotal DEF ListingTypeOK
<1>7. ASSUME NEW i \in front  PROVE Place(i) < Offset(page)
  <2>1. Ahead(i) \subseteq front \ {i}
    BY <1>2, <1>3, OrderIsTotal DEF Ahead, Precede, ListingTypeOK
  <2>2. Cardinality(front \ {i}) = skipped - 1 /\ front \ {i} \in SUBSET shown
    BY <1>3, ShownIsFinite, FS_RemoveElement
  <2>3. Place(i) <= skipped - 1
    BY <2>1, <2>2, ShownIsFinite DEF Place
  <2> QED
    BY <1>1, <1>4, <2>3, PlaceIsNumber
<1>8. ASSUME NEW i \in rows  PROVE Offset(page) <= Place(i) /\ Place(i) < Offset(page + 1)
  <2>1. front \subseteq Ahead(i)
    BY <1>2, <1>3, <1>6 DEF Ahead, Precede
  <2>2. Ahead(i) \subseteq (front \cup rows) \ {i}
    BY <1>2, <1>3, OrderIsTotal DEF Ahead, Precede, ListingTypeOK
  <2>3. (front \cup rows) \ {i} \in SUBSET shown /\ Ahead(i) \in SUBSET shown
    BY <1>3, <2>2
  <2>4. Cardinality((front \cup rows) \ {i}) = skipped + taken - 1
    <3> DEFINE read == front \cup rows
    <3>1. IsFiniteSet(read) /\ i \in read
      BY <1>3, ShownIsFinite
    <3>2. Cardinality(read) = skipped + taken
      BY <1>5
    <3> HIDE DEF read
    <3>3. Cardinality(read \ {i}) = Cardinality(read) - 1
      BY <3>1, FS_RemoveElement
    <3>4. Cardinality(read \ {i}) = skipped + taken - 1
      BY <1>4, <3>2, <3>3
    <3> QED
      BY <3>4 DEF read
  <2>5. skipped <= Place(i) /\ Place(i) <= skipped + taken - 1
    BY <1>3, <2>1, <2>2, <2>3, <2>4, ShownIsFinite DEF Place
  <2>6. Place(i) \in Nat
    BY PlaceIsNumber
  <2> QED
    BY <1>1, <1>4, <2>5, <2>6
<1>9. ASSUME NEW i \in shown \ (front \cup rows)  PROVE Place(i) >= Offset(page + 1)
  <2>1. front \cup rows \subseteq Ahead(i)
    BY <1>2, <1>3, <1>6, <1>9 DEF Ahead, Precede
  <2>2. Ahead(i) \subseteq shown \ {i}
    BY OrderIsTotal DEF Ahead, ListingTypeOK
  <2>3. Cardinality(shown \ {i}) = n - 1
    BY ShownIsFinite, FS_RemoveElement DEF n
  <2>4. skipped + taken <= Place(i) /\ Place(i) <= n - 1
    BY <1>5, <2>1, <2>2, <2>3, ShownIsFinite DEF Place
  <2>5. Place(i) \in Nat
    BY PlaceIsNumber
  <2> QED
    BY <1>1, <1>4, <2>4, <2>5
<1>10. \A i \in shown : Place(i) \in Nat
  BY PlaceIsNumber
<1> QED
  BY <1>1, <1>3, <1>7, <1>8, <1>9, <1>10

LEMMA PlaceBelow ==
  ASSUME ListingTypeOK, AllTotal, NEW i \in shown
  PROVE  Place(i) \in Nat /\ Place(i) < Cardinality(shown)
<1>1. Ahead(i) \subseteq shown \ {i}
  BY OrderIsTotal DEF Ahead, ListingTypeOK
<1>2. Cardinality(shown \ {i}) = Cardinality(shown) - 1
  BY ShownIsFinite, FS_RemoveElement
<1>3. Place(i) <= Cardinality(shown) - 1
  BY <1>1, <1>2, ShownIsFinite DEF Place
<1> QED
  BY <1>3, ShownIsFinite, PlaceIsNumber

\* Rows that come push others back, rows that go let them forward.
LEMMA RowsCome ==
  ASSUME ListingTypeOK, ListingTypeOK', listing' = listing, shown \subseteq shown',
         \A j \in shown : row'[j] = row[j],
         NEW k \in shown
  PROVE  Place(k) \in Nat /\ Place(k)' \in Nat /\ Place(k) <= Place(k)'
<1>1. Ahead(k) \subseteq Ahead(k)' /\ Ahead(k)' \subseteq shown'
  BY DEF Ahead, Before
<1>2. IsFiniteSet(Ahead(k)')
  BY <1>1, ListingAssumption, FS_Subset DEF ListingTypeOK
<1> QED
  BY <1>1, <1>2, FS_Subset, FS_CardinalityType DEF Place

LEMMA RowsGo ==
  ASSUME ListingTypeOK, ListingTypeOK', listing' = listing, shown' \subseteq shown,
         \A j \in shown' : row'[j] = row[j],
         NEW k \in shown'
  PROVE  Place(k) \in Nat /\ Place(k)' \in Nat /\ Place(k)' <= Place(k)
<1>1. Ahead(k)' \subseteq Ahead(k) /\ Ahead(k) \subseteq shown
  BY DEF Ahead, Before
<1>2. IsFiniteSet(Ahead(k))
  BY <1>1, ShownIsFinite
<1> QED
  BY <1>1, <1>2, FS_Subset, FS_CardinalityType DEF Place

LEMMA ReachedIsInt == ASSUME ListingTypeOK  PROVE Reached \in Int
  BY OffsetGrows DEF Reached, ListingTypeOK

-----------------------------------------------------------------------------
(***************************************************************************)
(* The actions keep the invariant.                                         *)
(***************************************************************************)

ReaderRow ==
  [page : Nat, counted : BOOLEAN, done : BOOLEAN, due : SUBSET RowId, seen : SUBSET RowId,
   twice : SUBSET RowId, appeared : BOOLEAN, vanished : BOOLEAN, moved : BOOLEAN]

LEMMA NotReadingIsReader == NotReading \in ReaderRow
  BY DEF NotReading, ReaderRow

LEMMA ListingInitHolds == ListingInit => PagesInv
<1>1. ASSUME ListingInit  PROVE PagesInv
  <2>1. ListingTypeOK
    BY <1>1, NotReadingIsReader, ListingAssumption DEF ListingInit, ListingTypeOK, ReaderRow
  <2> QED
    BY <1>1, <2>1
    DEF ListingInit, PagesInv, Reading, NotReading, ReadsEachOnce, LosesNothing, RepeatsNothing
<1> QED
  BY <1>1

LEMMA StartKeeps ==
  ASSUME PagesInv, StartReading  PROVE PagesInv'
<1>1. /\ reader'.page = 1 /\ reader'.counted /\ ~reader'.done /\ reader'.due = shown
      /\ reader'.seen = {} /\ reader'.twice = {}
      /\ reader' \in ReaderRow /\ reader'.page > 0
  <2>1. shown \subseteq RowId
    BY DEF PagesInv, ListingTypeOK
  <2>2. reader' = [NotReading EXCEPT !.page = 1, !.due = shown]
    BY DEF StartReading
  <2>3. reader' = [page |-> 1, counted |-> TRUE, done |-> FALSE, due |-> shown, seen |-> {},
                   twice |-> {}, appeared |-> FALSE, vanished |-> FALSE, moved |-> FALSE]
    BY <2>2 DEF NotReading
  <2> QED
    BY <2>1, <2>3 DEF ReaderRow
<1>2. UNCHANGED <<listing, row, shown>>
  BY DEF StartReading
<1>3. ListingTypeOK'
  BY <1>1, <1>2 DEF PagesInv, ListingTypeOK, ReaderRow
<1>4. Reached' = 0
  BY <1>1, OffsetGrows DEF Reached, Offset
<1>5. \A i : Place(i)' = Place(i) /\ Place(i) \in Nat
  BY <1>2, PlaceIsNumber DEF Place, Ahead, Before, PagesInv
<1>6. MissedNothing'
  BY <1>1, <1>2, <1>4, <1>5 DEF MissedNothing
<1>7. AllBehind'
  BY <1>1 DEF AllBehind
<1> QED
  BY <1>1, <1>3, <1>6, <1>7
  DEF PagesInv, Reading, ReadsEachOnce, LosesNothing, RepeatsNothing

LEMMA RowsKeep ==
  ASSUME PagesInv, AllTotal, ReadRows  PROVE PagesInv'
<1>1. /\ Reading /\ ~reader.done /\ reader.counted
      /\ UNCHANGED <<listing, row, shown>>
      /\ reader \in ReaderRow /\ reader.page \in Nat \ {0}
      /\ ListingTypeOK
  BY DEF ReadRows, Reading, PagesInv, ListingTypeOK, ReaderRow
<1>2. PICK rows \in Pages(reader.page) :
        reader' = [reader EXCEPT !.counted = FALSE, !.seen = @ \cup rows,
                                 !.twice = @ \cup (reader.seen \cap rows)]
  BY DEF ReadRows
<1>3. /\ rows \subseteq shown
      /\ \A i \in shown :
           Offset(reader.page) <= Place(i) /\ Place(i) < Offset(reader.page + 1) => i \in rows
      /\ \A i \in rows : Offset(reader.page) <= Place(i) /\ Place(i) < Offset(reader.page + 1)
  BY <1>1, <1>2, PageSpans
<1>4. /\ reader'.page = reader.page /\ ~reader'.counted /\ ~reader'.done
      /\ reader'.due = reader.due /\ reader'.seen = reader.seen \cup rows
      /\ reader'.twice = reader.twice \cup (reader.seen \cap rows)
      /\ reader'.appeared = reader.appeared /\ reader'.vanished = reader.vanished
      /\ reader'.moved = reader.moved
      /\ reader' \in ReaderRow
  <2>1. rows \subseteq RowId
    BY <1>1, <1>3 DEF ListingTypeOK
  <2> QED
    BY <1>1, <1>2, <2>1 DEF ReaderRow
<1>5. ListingTypeOK'
  BY <1>1, <1>4 DEF ListingTypeOK, ReaderRow
<1>6. Reached = Offset(reader.page) /\ Reached' = Offset(reader.page + 1)
  BY <1>1, <1>4 DEF Reached, Offset
<1>7. /\ Offset(reader.page) \in Int /\ PageSize \in Nat
      /\ Offset(reader.page + 1) = Offset(reader.page) + PageSize
  BY <1>1, OffsetGrows, ListingAssumption
<1>8. \A i : Place(i)' = Place(i) /\ Place(i) \in Nat
  BY <1>1, PlaceIsNumber DEF Place, Ahead, Before
<1>9. ASSUME ~reader.vanished, ~reader.moved  PROVE MissedNothing'
  <2>1. MissedNothing
    BY <1>1, <1>9 DEF PagesInv
  <2>2. ASSUME NEW i \in reader.due, Place(i) < Offset(reader.page + 1)
        PROVE  i \in reader.seen \cup rows
    <3>1. CASE Place(i) < Offset(reader.page)
      BY <1>6, <2>1, <3>1 DEF MissedNothing
    <3>2. CASE Offset(reader.page) <= Place(i)
      BY <1>3, <2>1, <2>2, <3>2 DEF MissedNothing
    <3> QED
      BY <1>7, <1>8, <3>1, <3>2
  <2> QED
    BY <1>1, <1>4, <1>6, <1>8, <2>1, <2>2 DEF MissedNothing
<1>10. ASSUME ~reader.appeared, ~reader.moved  PROVE AllBehind' /\ reader'.twice = {}
  <2>1. AllBehind /\ reader.twice = {}
    BY <1>1, <1>10 DEF PagesInv, ReadsEachOnce, RepeatsNothing
  <2>2. reader.seen \cap rows = {}
    <3>1. ASSUME NEW i \in reader.seen \cap rows  PROVE FALSE
      BY <1>3, <1>6, <1>7, <1>8, <2>1, <3>1 DEF AllBehind
    <3> QED
      BY <3>1
  <2>3. \A i \in (reader.seen \cup rows) \cap shown : Place(i) < Offset(reader.page + 1)
    BY <1>3, <1>6, <1>7, <1>8, <2>1 DEF AllBehind
  <2> QED
    BY <1>1, <1>4, <1>6, <1>8, <2>1, <2>2, <2>3 DEF AllBehind
<1> QED
  BY <1>1, <1>4, <1>5, <1>9, <1>10
  DEF PagesInv, Reading, ReadsEachOnce, LosesNothing, RepeatsNothing

LEMMA TotalKeeps ==
  ASSUME PagesInv, AllTotal, ReadTotal  PROVE PagesInv'
<1>1. /\ ~reader.counted /\ Reading
      /\ UNCHANGED <<listing, row, shown>>
      /\ reader \in ReaderRow /\ reader.page \in Nat
      /\ ListingTypeOK
  BY DEF ReadTotal, Reading, PagesInv, ListingTypeOK, ReaderRow, NotReading
<1> DEFINE over == Cardinality(shown) <= Offset(reader.page + 1)
<1>2. /\ reader'.page = reader.page + 1 /\ reader'.counted
      /\ reader'.done <=> over
      /\ reader'.due = reader.due /\ reader'.seen = reader.seen
      /\ reader'.twice = reader.twice
      /\ reader'.appeared = reader.appeared /\ reader'.vanished = reader.vanished
      /\ reader'.moved = reader.moved
      /\ reader' \in ReaderRow
  <2>1. reader' = [reader EXCEPT !.counted = TRUE, !.page = @ + 1, !.done = over]
    BY DEF ReadTotal
  <2>2. over \in BOOLEAN
    OBVIOUS
  <2> HIDE DEF over
  <2>3. PICK v \in BOOLEAN : v = over
    BY <2>2
  <2>4. reader' = [reader EXCEPT !.counted = TRUE, !.page = @ + 1, !.done = v]
    BY <2>1, <2>3, Zenon
  <2>5. v <=> over
    BY <2>3
  <2>6. /\ reader'.page = reader.page + 1 /\ reader'.counted /\ reader'.done = v
        /\ reader'.due = reader.due /\ reader'.seen = reader.seen
        /\ reader'.twice = reader.twice
        /\ reader'.appeared = reader.appeared /\ reader'.vanished = reader.vanished
        /\ reader'.moved = reader.moved
        /\ reader' \in ReaderRow
    <3>1. reader.page + 1 \in Nat
      BY <1>1
    <3>2. PICK n \in Nat : n = reader.page + 1
      BY <3>1
    <3>3. reader' = [reader EXCEPT !.counted = TRUE, !.page = n, !.done = v]
      BY <2>4, <3>2, Zenon
    <3> QED
      BY <1>1, <3>2, <3>3 DEF ReaderRow
  <2> QED
    BY <2>5, <2>6
<1>3. ListingTypeOK'
  BY <1>1, <1>2 DEF ListingTypeOK, ReaderRow
<1>4. Reached = Offset(reader.page + 1) /\ Reached' = Reached /\ Reached \in Int
  BY <1>1, <1>2, ReachedIsInt DEF Reached, Offset
<1>5. \A i : Place(i)' = Place(i) /\ Place(i) \in Nat
  BY <1>1, PlaceIsNumber DEF Place, Ahead, Before
<1>6. ASSUME ~reader.vanished, ~reader.moved
      PROVE  MissedNothing' /\ (reader'.done => reader.due \subseteq reader.seen)
  <2>1. MissedNothing
    BY <1>1, <1>6 DEF PagesInv
  <2>2. \A i \in reader.due : Place(i) < Cardinality(shown)
    BY <1>1, <2>1, PlaceBelow DEF MissedNothing
  <2>3. Cardinality(shown) \in Nat
    BY <1>1, ShownIsFinite
  <2> QED
    BY <1>1, <1>2, <1>4, <1>5, <2>1, <2>2, <2>3 DEF MissedNothing
<1>7. AllBehind => AllBehind'
  BY <1>1, <1>2, <1>4, <1>5 DEF AllBehind
<1> QED
  BY <1>1, <1>2, <1>3, <1>6, <1>7
  DEF PagesInv, Reading, ReadsEachOnce, LosesNothing, RepeatsNothing

LEMMA StopKeeps ==
  ASSUME PagesInv, StopReading  PROVE PagesInv'
<1>1. reader' = NotReading /\ UNCHANGED <<listing, row, shown>>
  BY DEF StopReading
<1>2. ListingTypeOK'
  BY <1>1, NotReadingIsReader DEF PagesInv, ListingTypeOK, ReaderRow
<1> QED
  BY <1>1, <1>2
  DEF PagesInv, Reading, NotReading, ReadsEachOnce, LosesNothing, RepeatsNothing

\* While a list is read something happens to it: what the reader remembers of
\* it decides which half of the invariant still has to hold.
LEMMA ListChanges ==
  ASSUME PagesInv, NEW event \in {"appeared", "vanished", "moved"}, reader' = Seen(event),
         listing' = listing, row' \in [RowId -> 0 .. MaxKey],
         shown' \in SUBSET {i \in RowId : row'[i] # 0},
         event = "appeared" => shown \subseteq shown' /\ \A j \in shown : row'[j] = row[j],
         event = "vanished" => shown' \subseteq shown /\ \A j \in shown' : row'[j] = row[j]
  PROVE  PagesInv'
<1>1. CASE ~Reading
  <2>1. reader' = NotReading
    BY <1>1 DEF Seen, PagesInv
  <2>2. ListingTypeOK'
    BY <2>1, NotReadingIsReader DEF PagesInv, ListingTypeOK, ReaderRow
  <2> QED
    BY <2>1, <2>2
    DEF PagesInv, Reading, NotReading, ReadsEachOnce, LosesNothing, RepeatsNothing
<1>2. CASE Reading
  <2>1. reader \in ReaderRow /\ ListingTypeOK
    BY DEF PagesInv, ListingTypeOK, ReaderRow
  <2>2. /\ reader'.page = reader.page /\ reader'.counted = reader.counted
        /\ reader'.done = reader.done /\ reader'.due = reader.due /\ reader'.seen = reader.seen
        /\ reader'.twice = reader.twice
        /\ reader' \in ReaderRow
        /\ reader'.appeared = (reader.appeared \/ event = "appeared")
        /\ reader'.vanished = (reader.vanished \/ event = "vanished")
        /\ reader'.moved = (reader.moved \/ event = "moved")
    <3>1. reader' = [reader EXCEPT ![event] = TRUE]
      BY <1>2 DEF Seen
    <3>2. CASE event = "appeared"
      BY <2>1, <3>1, <3>2 DEF ReaderRow
    <3>3. CASE event = "vanished"
      BY <2>1, <3>1, <3>3 DEF ReaderRow
    <3>4. CASE event = "moved"
      BY <2>1, <3>1, <3>4 DEF ReaderRow
    <3> QED
      BY <3>2, <3>3, <3>4
  <2>3. ListingTypeOK'
    BY <2>1, <2>2 DEF ListingTypeOK, ReaderRow
  <2>4. Reached' = Reached /\ Reached \in Int
    BY <2>1, <2>2, ReachedIsInt DEF Reached, Offset
  <2>5. ASSUME ~reader'.vanished, ~reader'.moved  PROVE MissedNothing'
    <3>1. MissedNothing /\ event = "appeared"
      BY <1>2, <2>2, <2>5 DEF PagesInv
    <3>2. \A k \in shown : Place(k) \in Nat /\ Place(k)' \in Nat /\ Place(k) <= Place(k)'
      BY <2>1, <2>3, <3>1, RowsCome
    <3> QED
      BY <2>2, <2>4, <3>1, <3>2 DEF MissedNothing
  <2>6. ASSUME ~reader'.appeared, ~reader'.moved  PROVE AllBehind'
    <3>1. AllBehind /\ event = "vanished"
      BY <1>2, <2>2, <2>6 DEF PagesInv
    <3>2. \A k \in shown' : Place(k) \in Nat /\ Place(k)' \in Nat /\ Place(k)' <= Place(k)
      BY <2>1, <2>3, <3>1, RowsGo
    <3> QED
      BY <2>2, <2>4, <3>1, <3>2 DEF AllBehind
  <2> QED
    BY <1>2, <2>2, <2>3, <2>5, <2>6
    DEF PagesInv, Reading, ReadsEachOnce, LosesNothing, RepeatsNothing
<1> QED
  BY <1>1, <1>2

LEMMA OthersKeep ==
  ASSUME PagesInv, NEW i \in RowId, Insert(i) \/ Leave(i) \/ Return(i) \/ Move(i)
  PROVE  PagesInv'
<1>1. /\ row \in [RowId -> 0 .. MaxKey] /\ shown \in SUBSET {j \in RowId : row[j] # 0}
      /\ Key \subseteq 0 .. MaxKey /\ 0 \notin Key
  BY ListingAssumption DEF PagesInv, ListingTypeOK, Key
<1>2. CASE Insert(i)
  BY <1>1, <1>2, ListChanges DEF Insert
<1>3. CASE Leave(i)
  BY <1>1, <1>3, ListChanges DEF Leave
<1>4. CASE Return(i)
  BY <1>1, <1>4, ListChanges DEF Return
<1>5. CASE Move(i)
  <2>1. row' \in [RowId -> 0 .. MaxKey] /\ shown' \in SUBSET {j \in RowId : row'[j] # 0}
    BY <1>1, <1>5 DEF Move
  <2>2. reader' = Seen("moved") /\ listing' = listing
    BY <1>5 DEF Move
  <2> QED
    BY <2>1, <2>2, ListChanges
<1> QED
  BY <1>2, <1>3, <1>4, <1>5

LEMMA ListingStutterKeeps ==
  ASSUME PagesInv, UNCHANGED listingVars  PROVE PagesInv'
  BY DEF PagesInv, listingVars, ListingTypeOK, Reading, MissedNothing, AllBehind, Place, Ahead,
         Before, Reached, Offset, ReadsEachOnce, LosesNothing, RepeatsNothing

\* The invariant of the lists holds of every behaviour, where the id breaks the
\* ties of all of them.
THEOREM PagesInvariant ==
  ASSUME AllTotal  PROVE ListingSpec => []PagesInv
<1>1. ListingInit => PagesInv
  BY ListingInitHolds
<1>2. ASSUME PagesInv, [ListingNext]_listingVars  PROVE PagesInv'
  BY <1>2, AllTotal, StartKeeps, RowsKeep, TotalKeeps, StopKeeps, OthersKeep, ListingStutterKeeps
  DEF ListingNext
<1> QED
  BY <1>1, <1>2, PTL DEF ListingSpec

\* Where the id breaks the ties, whoever reads a list to its end misses nothing
\* that stayed, whatever was created on the way, and reads nothing twice that
\* only departures could have moved (the searches of products, users and
\* branches).
THEOREM PagesSuffice ==
  ASSUME AllTotal  PROVE ListingSpec => []ReadsEachOnce
<1>1. PagesInv => ReadsEachOnce
  BY DEF PagesInv
<1> QED
  BY <1>1, PagesInvariant, PTL

-----------------------------------------------------------------------------
(***************************************************************************)
(* Quotes.  A quote is honoured, whatever the cost and the margin it is    *)
(* asked for.  Rounding the price moves it by half a cent at most, and the *)
(* share of the price that is left on the cost by half a cent in the       *)
(* price: less than half a hundredth of a percent as soon as the price is  *)
(* of more cents than there are hundredths of a percent.                   *)
(***************************************************************************)

\* The quotient of a division of natural numbers, by what defines it.
LEMMA Division ==
  ASSUME NEW n \in Nat, NEW d \in Nat \ {0}
  PROVE  /\ n \div d \in Nat
         /\ d * (n \div d) <= n
         /\ n < d * (n \div d) + d
  BY SMT

\* Nothing else is the quotient.
LEMMA QuotientIsUnique ==
  ASSUME NEW n \in Nat, NEW d \in Nat \ {0}, NEW q \in Nat,
         d * q <= n, n < d * q + d
  PROVE  n \div d = q
  BY SMT

\* A product grows with its factor.
LEMMA ProductGrows ==
  ASSUME NEW p \in Nat, NEW k \in Nat, NEW a \in 0 .. k
  PROVE  a * p \in Nat /\ a * p <= k * p
<1>1. k - a \in Nat /\ (k - a) * p \in Nat
  BY SMT
<1>2. (k - a) * p = k * p - a * p
  BY SMT
<1> QED
  BY <1>1, <1>2, SMT

\* Rounded, a quotient is at half a unit from it at most.
LEMMA HalfUpIsNearest ==
  ASSUME NEW n \in Nat, NEW d \in Nat \ {0}
  PROVE  /\ HalfUp(n, d) \in Nat
         /\ 2 * d * HalfUp(n, d) <= 2 * n + d
         /\ 2 * n < 2 * d * HalfUp(n, d) + d
<1> DEFINE q == (2 * n + d) \div (2 * d)
<1>1. HalfUp(n, d) = q
  BY SMT DEF HalfUp
<1>2. 2 * n + d \in Nat /\ 2 * d \in Nat \ {0}
  BY SMT
<1>3. /\ q \in Nat
      /\ (2 * d) * q <= 2 * n + d
      /\ 2 * n + d < (2 * d) * q + 2 * d
  BY <1>2, Division
<1> HIDE DEF q
<1>4. (2 * d) * q = 2 * d * q
  BY <1>3, SMT
<1> QED
  BY <1>1, <1>3, <1>4, SMT

\* The whole number at less than half a unit from a quotient is its rounding.
LEMMA NearestIsHalfUp ==
  ASSUME NEW n \in Nat, NEW d \in Nat \ {0}, NEW q \in Nat,
         2 * d * q <= 2 * n + d, 2 * n < 2 * d * q + d
  PROVE  HalfUp(n, d) = q
<1>1. 2 * n + d \in Nat /\ 2 * d \in Nat \ {0}
  BY SMT
<1>2. (2 * d) * q <= 2 * n + d /\ 2 * n + d < (2 * d) * q + 2 * d
  BY SMT
<1>3. (2 * n + d) \div (2 * d) = q
  BY <1>1, <1>2, QuotientIsUnique
<1> QED
  BY <1>3, SMT DEF HalfUp

\* The price of a quote is fitting, from a hundred pesos on.
LEMMA QuoteFits ==
  ASSUME NEW c \in Nat, NEW m \in 0 .. Whole - 1, Quote(c, m) >= HundredPesos
  PROVE  Fits(c, Quote(c, m), m)
<1> DEFINE p == Quote(c, m)
           a == Whole - m
<1>1. a \in 1 .. Whole /\ Whole * c \in Nat
  BY SMT DEF Whole
<1>2. p = HalfUp(Whole * c, a)
  BY DEF Quote
<1>3. /\ p \in Nat
      /\ 2 * a * p <= 2 * (Whole * c) + a
      /\ 2 * (Whole * c) < 2 * a * p + a
  <2>1. a \in Nat \ {0}
    BY <1>1, SMT DEF Whole
  <2> HIDE DEF p, a
  <2> QED
    BY <1>1, <1>2, <2>1, HalfUpIsNearest
<1>4. p >= 10000
  BY DEF HundredPesos
<1> HIDE DEF p
<1>5. 2 * a * p = 2 * Whole * p - 2 * m * p
  BY <1>3, SMT DEF Whole
<1>6. a <= p /\ (a = p => m = 0)
  BY <1>1, <1>3, <1>4, SMT DEF Whole
<1>7. p - c \in Nat
  <2>1. CASE a = 10000
    <3>1. 20000 * c < 20000 * p + 10000
      BY <1>3, <2>1, SMT DEF Whole
    <3> QED
      BY <1>3, <3>1, SMT
  <2>2. CASE a \in 1 .. 9999
    <3> HIDE DEF a
    <3>1. a * p \in Nat /\ a * p <= 9999 * p
      BY <1>3, <2>2, ProductGrows, SMT
    <3>2. 20000 * c < 2 * (a * p) + a
      BY <1>3, <2>2, SMT DEF Whole
    <3>3. 20000 * c < 19998 * p + 10000
      <4> DEFINE s == a * p
      <4>1. s \in Nat /\ s <= 9999 * p /\ 20000 * c < 2 * s + a
        BY <3>1, <3>2
      <4> HIDE DEF s
      <4> QED
        BY <1>3, <2>2, <4>1, SMT
    <3> QED
      BY <1>3, <1>4, <3>3, SMT
  <2> QED
    BY <1>1, <2>1, <2>2, SMT DEF Whole
<1>8. Whole * (p - c) \in Nat /\ p \in Nat \ {0} /\ m \in Nat
  BY <1>3, <1>4, <1>7, SMT DEF Whole
<1>9. /\ 2 * p * m <= 2 * (Whole * (p - c)) + p
      /\ 2 * (Whole * (p - c)) < 2 * p * m + p
  <2>1. 2 * (Whole * (p - c)) = 2 * Whole * p - 2 * (Whole * c)
    BY <1>3, SMT DEF Whole
  <2>2. 2 * p * m = 2 * m * p
    BY <1>3, <1>8, SMT
  <2>3. 2 * m * p \in Int /\ 2 * Whole * p \in Int /\ 2 * (Whole * c) \in Int
    BY <1>3, SMT DEF Whole
  <2> QED
    BY <1>3, <1>5, <1>6, <2>1, <2>2, <2>3, SMT DEF Whole
<1>10. HalfUp(Whole * (p - c), p) = m
  BY <1>8, <1>9, NearestIsHalfUp
<1>11. RealMargin(c, p) = m
  BY <1>8, <1>10, SMT DEF RealMargin
<1> QED
  BY <1>4, <1>8, <1>11, SMT DEF p, Fits, Whole

\* The cost derived from a price and a margin fits them, from a hundred pesos on.
LEMMA SowingFits ==
  ASSUME NEW p \in Nat, NEW m \in 0 .. Whole - 1, p >= HundredPesos
  PROVE  Fits(CostForMargin(p, m), p, m)
<1> DEFINE c == CostForMargin(p, m)
           s == p * (Whole - m)
<1>1. Whole - m \in 1 .. 10000 /\ p >= 10000
  BY SMT DEF Whole, HundredPesos
<1>2. s \in Nat /\ s <= 10000 * p /\ s = 10000 * p - m * p /\ m * p \in Nat
  <2> DEFINE a == Whole - m
  <2>1. Whole \in Nat \ {0} /\ a \in 0 .. Whole /\ m \in 0 .. Whole
    BY SMT DEF Whole
  <2> HIDE DEF a
  <2>2. a * p \in Nat /\ a * p <= Whole * p
    BY <2>1, ProductGrows
  <2>3. m * p \in Nat
    BY <2>1, ProductGrows
  <2>4. a * p = s
    BY SMT DEF a, s, Whole
  <2> QED
    BY <2>2, <2>3, <2>4, SMT DEF Whole, s
<1> HIDE DEF s
<1>3. c = HalfUp(s, Whole)
  BY DEF CostForMargin, s
<1>4. /\ c \in Nat
      /\ 20000 * c <= 2 * s + 10000
      /\ 2 * s < 20000 * c + 10000
  <2>1. Whole \in Nat \ {0} /\ s \in Nat
    BY <1>2, SMT DEF Whole
  <2> HIDE DEF c
  <2>2. c \in Nat /\ 2 * Whole * c <= 2 * s + Whole /\ 2 * s < 2 * Whole * c + Whole
    BY <1>3, <2>1, HalfUpIsNearest
  <2> QED
    BY <2>2, SMT DEF Whole
<1> HIDE DEF c
<1>5. p - c \in Nat
  BY <1>1, <1>2, <1>4, SMT
<1>6. Whole * (p - c) \in Nat /\ p \in Nat \ {0} /\ m \in Nat
  BY <1>1, <1>5, SMT DEF Whole
<1>7. /\ 2 * p * m <= 2 * (Whole * (p - c)) + p
      /\ 2 * (Whole * (p - c)) < 2 * p * m + p
  <2> DEFINE t == m * p
  <2>1. t \in Nat /\ 2 * p * m = 2 * t /\ s = 10000 * p - t
    BY <1>2, SMT
  <2>2. 2 * (Whole * (p - c)) = 20000 * p - 20000 * c
    BY <1>4, SMT DEF Whole
  <2> HIDE DEF t
  <2> QED
    BY <1>1, <1>2, <1>4, <2>1, <2>2, SMT
<1>8. RealMargin(c, p) = m
  BY <1>6, <1>7, NearestIsHalfUp, SMT DEF RealMargin
<1> QED
  BY <1>1, <1>6, <1>8, SMT DEF c, Fits, Whole

-----------------------------------------------------------------------------
\* The last offer is the quote of its own cost and margin, or the seed's of its
\* own price and margin.
QuoteIsAnAnswer ==
  \/ quote = NoQuote
  \/ \E c \in Nat, m \in 0 .. Whole - 1 : quote = Answer(c, m)
  \/ \E p \in Nat, m \in 0 .. Whole - 1 : quote = Sowing(p, m)

\* An answer is what it answers: nothing is kept from one question to the next.
LEMMA QuoteStays ==
  ASSUME QuoteIsAnAnswer, [QuotesNext]_quote
  PROVE  QuoteIsAnAnswer'
<1>1. CASE Ask
  <2>1. PICK q \in Quoted : quote' = Answer(q[1], q[2])
    BY <1>1 DEF Ask
  <2>2. q[1] \in Nat /\ q[2] \in 0 .. Whole - 1
    BY <2>1, QuoteAssumption
  <2> QED
    BY <2>1, <2>2 DEF QuoteIsAnAnswer, Answer
<1>2. CASE Sow
  <2>1. PICK o \in Sown : quote' = Sowing(o[1], o[2])
    BY <1>2 DEF Sow
  <2>2. o[1] \in Nat /\ o[2] \in 0 .. Whole - 1
    BY <2>1, QuoteAssumption
  <2> QED
    BY <2>1, <2>2 DEF QuoteIsAnAnswer, Sowing
<1>3. CASE Forget
  BY <1>3 DEF Forget, QuoteIsAnAnswer, NoQuote
<1>4. CASE UNCHANGED quote
  BY <1>4 DEF QuoteIsAnAnswer, NoQuote, Answer, Sowing
<1> QED
  BY <1>1, <1>2, <1>3, <1>4 DEF QuotesNext

\* An answer of a hundred pesos or more fits.
LEMMA AnswersFit ==
  ASSUME QuoteIsAnAnswer
  PROVE  QuoteIsHonoured
<1>1. CASE quote = NoQuote
  BY <1>1, SMT DEF NoQuote, QuoteIsHonoured, HundredPesos
<1>2. ASSUME NEW c \in Nat, NEW m \in 0 .. Whole - 1, quote = Answer(c, m)
      PROVE  QuoteIsHonoured
  <2>1. quote.cost = c /\ quote.margin = m /\ quote.price = Quote(c, m)
    BY <1>2 DEF Answer
  <2> QED
    BY <2>1, QuoteFits DEF QuoteIsHonoured
<1>3. ASSUME NEW p \in Nat, NEW m \in 0 .. Whole - 1, quote = Sowing(p, m)
      PROVE  QuoteIsHonoured
  <2>1. quote.cost = CostForMargin(p, m) /\ quote.margin = m /\ quote.price = p
    BY <1>3 DEF Sowing
  <2> QED
    BY <2>1, SowingFits DEF QuoteIsHonoured
<1> QED
  BY <1>1, <1>2, <1>3 DEF QuoteIsAnAnswer

\* Whatever the cost and the margin, a product is accepted at the price that
\* POST /products/profitability quoted, and at the cost the seed derived, if the
\* price is of a hundred pesos or more: rounding the one to cents and the margin
\* to hundredths never moves the margin (ProfitabilityCalculator,
\* RunSeedUseCase.costForMargin, Product.ensurePricingIsConsistent).
THEOREM QuotesAreHonoured == QuotesSpec => []QuoteIsHonoured
<1>1. QuotesInit => QuoteIsAnAnswer
  BY DEF QuotesInit, QuoteIsAnAnswer
<1>2. QuoteIsAnAnswer /\ [QuotesNext]_quote => QuoteIsAnAnswer'
  BY QuoteStays
<1>3. QuoteIsAnAnswer => QuoteIsHonoured
  BY AnswersFit
<1> QED
  BY <1>1, <1>2, <1>3, PTL DEF QuotesSpec

-----------------------------------------------------------------------------
(***************************************************************************)
(* Menus.  The pass over the active menus is a fold over a sorted list,    *)
(* both chosen by CHOOSE: first that there is such a list and one only,    *)
(* then that there is a function of the recursive shape FoldLeft asks for, *)
(* then what the tree holds after each menu.  Both existence proofs look   *)
(* at a minimal set for which the claim fails.                             *)
(***************************************************************************)

\* A family of subsets of a finite set has a member with no member inside it.
LEMMA MinimalSubset ==
  ASSUME NEW S, IsFiniteSet(S), NEW T \in SUBSET (SUBSET S), T # {}
  PROVE  \E B \in T : \A C \in T : C \subseteq B => C = B
<1> DEFINE R == StrictSubsetOrdering(S)
<1>1. IsWellFoundedOn(R, SUBSET S)
  BY FS_StrictSubsetOrderingWellFounded, FS_FiniteSubsetsOfFinite
<1> HIDE DEF R
<1>2. PICK B \in T : \A C \in T : <<C, B>> \notin R
  BY <1>1, WFMin
<1>3. ASSUME NEW C \in T, C \subseteq B  PROVE  C = B
  BY <1>2, <1>3 DEF R, StrictSubsetOrdering
<1>4. QED
  BY <1>3

\* What holds of the empty set and survives one more element holds of every
\* finite set.
LEMMA SetInduction ==
  ASSUME NEW S, IsFiniteSet(S), NEW K, {} \in K,
         \A A \in K \cap SUBSET S, x \in S : x \notin A => A \cup {x} \in K
  PROVE  S \in K
<1> DEFINE T == {B \in SUBSET S : B \notin K}
<1>1. SUFFICES ASSUME T # {} PROVE FALSE
  OBVIOUS
<1>2. PICK B \in T : \A C \in T : C \subseteq B => C = B
  <2>1. T \in SUBSET (SUBSET S)
    OBVIOUS
  <2> HIDE DEF T
  <2>2. QED
    BY <1>1, <2>1, MinimalSubset
<1>3. PICK x \in B : TRUE
  OBVIOUS
<1>4. B \ {x} \in K
  BY <1>2, <1>3
<1>5. (B \ {x}) \cup {x} = B
  BY <1>3
<1>6. QED
  BY <1>2, <1>3, <1>4, <1>5

\* The least number of a set of numbers up to n.
LEMMA LeastNumber ==
  ASSUME NEW n \in Nat, NEW T \in SUBSET (0 .. n), T # {}
  PROVE  \E i \in T : \A j \in T : i <= j
<1> DEFINE N == 0 .. n
           Family == {0 .. i : i \in T}
<1>1. IsFiniteSet(N)
  BY FS_Interval
<1>2. PICK B \in Family : \A C \in Family : C \subseteq B => C = B
  <2>0. Family # {}
    OBVIOUS
  <2>1. Family \in SUBSET (SUBSET N)
    OBVIOUS
  <2> HIDE DEF Family, N
  <2>2. QED
    BY <1>1, <2>0, <2>1, MinimalSubset
<1>3. PICK i \in T : B = 0 .. i
  OBVIOUS
<1>4. ASSUME NEW j \in T, j < i  PROVE  FALSE
  <2>1. 0 .. j \subseteq B
    BY <1>3, <1>4
  <2>2. 0 .. j = 0 .. i
    BY <1>2, <1>3, <2>1
  <2>3. i \in 0 .. i
    OBVIOUS
  <2>4. QED
    BY <1>4, <2>2, <2>3
<1>5. QED
  BY <1>4

\* What holds of 0 and of each next number up to n holds up to n.
LEMMA UpTo ==
  ASSUME NEW n \in Nat, NEW K, 0 \in K,
         \A i \in 0 .. n - 1 : i \in K => i + 1 \in K
  PROVE  0 .. n \subseteq K
<1> DEFINE T == {i \in 0 .. n : i \notin K}
<1>1. SUFFICES ASSUME T # {} PROVE FALSE
  OBVIOUS
<1>2. PICK i \in T : \A j \in T : i <= j
  BY <1>1, LeastNumber
<1>3. i # 0 /\ i - 1 \in 0 .. n - 1 /\ i - 1 \notin T
  BY <1>2
<1>4. QED
  BY <1>3


\* The greatest of some positions.
LEMMA MaxIs ==
  ASSUME NEW n \in Nat, NEW s \in SUBSET (1 .. n), s # {}
  PROVE  Max(s) \in s /\ \A i \in s : i <= Max(s)
<1> DEFINE K == {A \in SUBSET (1 .. n) : A = {} \/ \E i \in A : \A j \in A : j <= i}
<1>1. IsFiniteSet(s)
  <2>1. IsFiniteSet(1 .. n)
    BY FS_Interval
  <2> QED
    BY <2>1, FS_Subset
<1>2. {} \in K
  OBVIOUS
<1>3. ASSUME NEW A \in K \cap SUBSET s, NEW x \in s, x \notin A  PROVE  A \cup {x} \in K
  <2>1. CASE A = {}
    BY <2>1
  <2>2. CASE A # {}
    <3>1. PICK i \in A : \A j \in A : j <= i
      BY <1>3, <2>2
    <3>2. CASE x <= i
      <4>1. \A j \in A \cup {x} : j <= i
        BY <3>1, <3>2
      <4> QED
        BY <3>1, <4>1
    <3>3. CASE i <= x
      <4>1. \A j \in A \cup {x} : j <= x
        BY <3>1, <3>3
      <4> QED
        BY <4>1
    <3> QED
      BY <3>1, <3>2, <3>3
  <2> QED
    BY <2>1, <2>2
<1> HIDE DEF K
<1>4. s \in K
  BY <1>1, <1>2, <1>3, SetInduction
<1>5. PICK i \in s : \A j \in s : j <= i
  BY <1>4 DEF K
<1>6. \A j \in s : i >= j
  BY <1>5
<1> QED
  BY <1>5, <1>6 DEF Max

-----------------------------------------------------------------------------
(***************************************************************************)
(* The order of the menus.                                                 *)
(***************************************************************************)

\* Order and then id: a strict total order.
LEMMA MenusAreOrdered ==
  ASSUME MenusTypeOK
  PROVE  /\ \A m \in Menu : ~ComesFirst(m, m)
         /\ \A m, n \in Menu : ComesFirst(m, n) => ~ComesFirst(n, m)
         /\ \A m, n \in Menu : m = n \/ ComesFirst(m, n) \/ ComesFirst(n, m)
         /\ \A l, m, n \in Menu : ComesFirst(l, m) /\ ComesFirst(m, n) => ComesFirst(l, n)
<1>1. \A m \in Menu : menu[m].order \in Nat /\ m \in Nat
  BY MenuAssumption DEF MenusTypeOK, MenuRow
<1> QED
  BY <1>1 DEF ComesFirst

Enumerates(s, S) ==
  /\ s \in Seq(S)
  /\ \A m \in S : \E i \in 1 .. Len(s) : s[i] = m
  /\ \A i, j \in 1 .. Len(s) : i < j => ComesFirst(s[i], s[j])

\* One more menu, after all the others.
LEMMA EnumeratesOneMore ==
  ASSUME NEW S, NEW s, Enumerates(s, S), NEW m, \A n \in S : ComesFirst(n, m)
  PROVE  Enumerates(Append(s, m), S \cup {m})
<1> DEFINE t == Append(s, m)
<1>1. s \in Seq(S) /\ Len(s) \in Nat /\ \A i \in 1 .. Len(s) : s[i] \in S
  BY DEF Enumerates
<1>2. t \in Seq(S \cup {m})
  <2>1. s \in Seq(S \cup {m})
    BY <1>1
  <2> QED
    BY <2>1
<1>3. Len(t) = Len(s) + 1 /\ t[Len(s) + 1] = m /\ \A i \in 1 .. Len(s) : t[i] = s[i]
  BY <1>1
<1> HIDE DEF t
<1>4. ASSUME NEW n \in S \cup {m}  PROVE  \E i \in 1 .. Len(t) : t[i] = n
  <2>1. CASE n = m
    BY <1>1, <1>3, <2>1
  <2>2. CASE n \in S
    <3>1. PICK i \in 1 .. Len(s) : s[i] = n
      BY <2>2 DEF Enumerates
    <3> QED
      BY <1>1, <1>3, <3>1
  <2> QED
    BY <2>1, <2>2
<1>5. ASSUME NEW i \in 1 .. Len(t), NEW j \in 1 .. Len(t), i < j
      PROVE  ComesFirst(t[i], t[j])
  <2>1. i \in 1 .. Len(s)
    BY <1>1, <1>3, <1>5
  <2>2. CASE j = Len(s) + 1
    BY <1>1, <1>3, <2>1, <2>2
  <2>3. CASE j # Len(s) + 1
    <3>1. j \in 1 .. Len(s)
      BY <1>1, <1>3, <2>3
    <3> QED
      BY <1>3, <1>5, <2>1, <3>1 DEF Enumerates
  <2> QED
    BY <2>2, <2>3
<1> QED
  BY <1>2, <1>4, <1>5 DEF Enumerates, t

\* A set of menus has one enumeration.
LEMMA EnumerationIsOne ==
  ASSUME MenusTypeOK, NEW S \in SUBSET Menu, NEW s, NEW t, Enumerates(s, S), Enumerates(t, S)
  PROVE  s = t
<1>1. ASSUME NEW a, NEW b, Enumerates(a, S), Enumerates(b, S)
      PROVE  \A k \in 1 .. Len(a) : k <= Len(b) /\ a[k] = b[k]
  <2>1. /\ a \in Seq(S) /\ Len(a) \in Nat /\ \A i \in 1 .. Len(a) : a[i] \in S
        /\ b \in Seq(S) /\ Len(b) \in Nat /\ \A i \in 1 .. Len(b) : b[i] \in S
    BY <1>1 DEF Enumerates
  <2> DEFINE K == {k \in 0 .. Len(a) : k <= Len(b) /\ \A i \in 1 .. k : a[i] = b[i]}
  <2>2. 0 \in K
    BY <2>1
  <2>3. ASSUME NEW k \in 0 .. Len(a) - 1, k \in K  PROVE  k + 1 \in K
    <3>1. k + 1 \in 1 .. Len(a) /\ k <= Len(b) /\ \A i \in 1 .. k : a[i] = b[i]
      BY <2>1, <2>3
    <3>2. PICK j \in 1 .. Len(b) : b[j] = a[k + 1]
      BY <1>1, <2>1, <3>1 DEF Enumerates
    <3>3. j > k
      <4>1. ASSUME j <= k  PROVE FALSE
        <5>1. a[j] = a[k + 1] /\ j \in 1 .. Len(a) /\ j < k + 1
          BY <2>1, <3>1, <3>2, <4>1
        <5>2. ComesFirst(a[j], a[k + 1])
          BY <1>1, <3>1, <5>1 DEF Enumerates
        <5> QED
          BY <2>1, <3>1, <5>1, <5>2, MenusAreOrdered
      <4> QED
        BY <2>1, <4>1
    <3>4. k + 1 <= Len(b)
      BY <2>1, <3>2, <3>3
    <3>5. a[k + 1] = b[k + 1]
      <4>0. b[k + 1] \in S
        BY <2>1, <3>1, <3>4
      <4>1. PICK i \in 1 .. Len(a) : a[i] = b[k + 1]
        BY <1>1, <4>0 DEF Enumerates
      <4>2. i > k
        <5>1. ASSUME i <= k  PROVE FALSE
          <6>1. b[i] = b[k + 1] /\ i \in 1 .. Len(b) /\ i < k + 1 /\ k + 1 \in 1 .. Len(b)
            BY <2>1, <3>1, <3>4, <4>1, <5>1
          <6>2. ComesFirst(b[i], b[k + 1])
            BY <1>1, <6>1 DEF Enumerates
          <6> QED
            BY <2>1, <6>1, <6>2, MenusAreOrdered
        <5> QED
          BY <2>1, <5>1
      <4>3. CASE i = k + 1
        BY <4>1, <4>3
      <4>4. CASE j = k + 1
        BY <3>2, <4>4
      <4>5. ASSUME i # k + 1, j # k + 1  PROVE FALSE
        <5>1. i > k + 1 /\ j > k + 1
          BY <2>1, <3>3, <4>2, <4>5
        <5>2. ComesFirst(a[k + 1], a[i])
          BY <1>1, <3>1, <5>1 DEF Enumerates
        <5>3. ComesFirst(b[k + 1], b[j])
          BY <1>1, <2>1, <3>4, <5>1 DEF Enumerates
        <5> QED
          BY <2>1, <3>1, <3>2, <4>1, <5>2, <5>3, MenusAreOrdered
      <4> QED
        BY <4>3, <4>4, <4>5
    <3>6. ASSUME NEW i \in 1 .. k + 1  PROVE a[i] = b[i]
      BY <3>1, <3>5
    <3> QED
      BY <2>1, <3>1, <3>4, <3>6
  <2> HIDE DEF K
  <2>4. 0 .. Len(a) \subseteq K
    BY <2>1, <2>2, <2>3, UpTo
  <2> QED
    BY <2>1, <2>4 DEF K
<1>2. s \in Seq(S) /\ t \in Seq(S) /\ Len(s) \in Nat /\ Len(t) \in Nat
  BY DEF Enumerates
<1>3. Len(s) = Len(t)
  <2>1. Len(s) <= Len(t)
    BY <1>1, <1>2
  <2>2. Len(t) <= Len(s)
    BY <1>1, <1>2
  <2> QED
    BY <1>2, <2>1, <2>2
<1>4. \A k \in 1 .. Len(s) : s[k] = t[k]
  BY <1>1
<1> QED
  BY <1>2, <1>3, <1>4

\* The last of some menus.
LEMMA LastOne ==
  ASSUME MenusTypeOK, NEW S \in SUBSET Menu, IsFiniteSet(S), S # {}
  PROVE  \E m \in S : \A n \in S \ {m} : ComesFirst(n, m)
<1> DEFINE K == {A \in SUBSET S : A = {} \/ \E m \in A : \A n \in A \ {m} : ComesFirst(n, m)}
<1>1. {} \in K
  OBVIOUS
<1>2. ASSUME NEW A \in K \cap SUBSET S, NEW x \in S, x \notin A  PROVE  A \cup {x} \in K
  <2>1. CASE A = {}
    BY <2>1
  <2>2. CASE A # {}
    <3>1. PICK m \in A : \A n \in A \ {m} : ComesFirst(n, m)
      BY <1>2, <2>2
    <3>2. CASE ComesFirst(m, x)
      <4>1. \A n \in (A \cup {x}) \ {x} : ComesFirst(n, x)
        BY <1>2, <3>1, <3>2, MenusAreOrdered
      <4> QED
        BY <1>2, <4>1
    <3>3. CASE ComesFirst(x, m)
      <4>1. \A n \in (A \cup {x}) \ {m} : ComesFirst(n, m)
        BY <1>2, <3>1, <3>3
      <4> QED
        BY <1>2, <3>1, <4>1
    <3> QED
      BY <1>2, <3>1, <3>2, <3>3, MenusAreOrdered
  <2> QED
    BY <2>1, <2>2
<1> HIDE DEF K
<1>3. S \in K
  BY <1>1, <1>2, SetInduction
<1> QED
  BY <1>3 DEF K

\* Every set of menus can be enumerated, with as many places as it has members.
LEMMA EnumerationExists ==
  ASSUME MenusTypeOK, NEW S \in SUBSET Menu
  PROVE  \E s : Enumerates(s, S) /\ Len(s) = Cardinality(S)
<1> DEFINE T == {B \in SUBSET S : ~ \E s : Enumerates(s, B) /\ Len(s) = Cardinality(B)}
<1>1. IsFiniteSet(S) /\ \A B \in SUBSET S : IsFiniteSet(B)
  <2>1. \A B \in SUBSET Menu : IsFiniteSet(B)
    BY MenuAssumption, FS_Subset
  <2> QED
    BY <2>1
<1>2. SUFFICES ASSUME T # {} PROVE FALSE
  OBVIOUS
<1>3. PICK B \in T : \A C \in T : C \subseteq B => C = B
  <2>1. T \in SUBSET (SUBSET S)
    OBVIOUS
  <2> HIDE DEF T
  <2> QED
    BY <1>1, <1>2, <2>1, MinimalSubset
<1>4. B # {}
  <2>1. Enumerates(<<>>, {})
    BY DEF Enumerates
  <2>2. Len(<<>>) = Cardinality({})
    BY FS_EmptySet
  <2> QED
    BY <2>1, <2>2
<1>5. PICK m \in B : \A n \in B \ {m} : ComesFirst(n, m)
  BY <1>1, <1>4, LastOne
<1>6. B \ {m} \notin T
  BY <1>3, <1>5
<1>7. PICK s : Enumerates(s, B \ {m}) /\ Len(s) = Cardinality(B \ {m})
  BY <1>6
<1>8. (B \ {m}) \cup {m} = B
  BY <1>5
<1>9. Enumerates(Append(s, m), B)
  <2>1. Enumerates(Append(s, m), (B \ {m}) \cup {m})
    BY <1>5, <1>7, EnumeratesOneMore
  <2> QED
    BY <1>8, <2>1
<1>10. Len(Append(s, m)) = Len(s) + 1
  <2>1. s \in Seq(B \ {m})
    BY <1>7 DEF Enumerates
  <2> QED
    BY <2>1
<1>11. Cardinality(B \ {m}) = Cardinality(B) - 1 /\ Cardinality(B) \in Nat
  BY <1>1, <1>5, FS_RemoveElement, FS_CardinalityType
<1>12. Len(Append(s, m)) = Cardinality(B)
  BY <1>7, <1>10, <1>11
<1> QED
  BY <1>9, <1>12

\* What Sorted chooses enumerates the set: there is an enumeration to choose, and
\* any other candidate has every member once, in an order that never goes back.
LEMMA SortedEnumerates ==
  ASSUME MenusTypeOK, NEW S \in SUBSET Menu
  PROVE  Enumerates(Sorted(S), S)
<1>1. IsFiniteSet(S) /\ Cardinality(S) \in Nat
  BY MenuAssumption, FS_Subset, FS_CardinalityType
<1>2. PICK s : Enumerates(s, S) /\ Len(s) = Cardinality(S)
  BY EnumerationExists
<1>3. s \in SetToSeqs(S) /\ IsSorted(s, ComesFirst)
  <2>1. s \in [1 .. Cardinality(S) -> S]
    BY <1>1, <1>2 DEF Enumerates
  <2>2. ASSUME NEW i \in 1 .. Cardinality(S), NEW j \in 1 .. Cardinality(S), i # j
        PROVE  s[i] # s[j]
    <3>1. i < j \/ j < i
      BY <1>1, <2>2
    <3>2. ComesFirst(s[i], s[j]) \/ ComesFirst(s[j], s[i])
      BY <1>2, <3>1 DEF Enumerates
    <3> QED
      BY <2>1, <3>2, MenusAreOrdered
  <2> QED
    BY <1>2, <2>1, <2>2 DEF SetToSeqs, IsSorted, Enumerates
<1> DEFINE t == Sorted(S)
<1>4. t \in SetToSeqs(S) /\ IsSorted(t, ComesFirst)
  BY <1>3 DEF Sorted
<1> HIDE DEF t
<1>5. /\ t \in [1 .. Cardinality(S) -> S]
      /\ \A i, j \in 1 .. Cardinality(S) : i # j => t[i] # t[j]
  BY <1>4 DEF SetToSeqs
<1>6. t \in Seq(S) /\ Len(t) = Cardinality(S)
  BY <1>1, <1>5
<1>7. ASSUME NEW m \in S  PROVE \E i \in 1 .. Len(t) : t[i] = m
  <2> DEFINE D == 1 .. Cardinality(S)
  <2>1. t \in Injection(D, S)
    BY <1>5 DEF Injection, IsInjective
  <2>2. Cardinality(D) = Cardinality(S) /\ IsFiniteSet(D)
    BY <1>1, FS_Interval
  <2> HIDE DEF D
  <2>3. t \in Surjection(D, S)
    BY <1>1, <2>1, <2>2, FS_Injection
  <2> QED
    BY <1>6, <2>3 DEF D, Surjection
<1> QED
  BY <1>4, <1>6, <1>7 DEF Enumerates, IsSorted, t

-----------------------------------------------------------------------------
(***************************************************************************)
(* The fold: one menu after the other.                                     *)
(***************************************************************************)

\* The recursive function FoldLeft chooses for a list.
Folds(g, list, D) ==
  g = [s \in SUBSET D |-> IF s = {} THEN Bare ELSE Hang(g[s \ {Max(s)}], list[Max(s)])]

\* The tree is the chosen function at all the indices of the list.
LEMMA BuildUnfolds == Build = (CHOOSE g : Folds(g, AllActive, DOMAIN AllActive))[DOMAIN AllActive]
BY DEF Build, FoldLeft, MapThenFoldSet, Folds

\* Two functions of that shape agree where both are defined.
LEMMA FoldsAgree ==
  ASSUME NEW list, NEW A, IsFiniteSet(A), \A t \in SUBSET A : t # {} => Max(t) \in t,
         NEW B, NEW g, NEW h, Folds(g, list, A), Folds(h, list, B),
         NEW s, s \subseteq A, s \subseteq B
  PROVE  g[s] = h[s]
<1> DEFINE T == {t \in SUBSET s : g[t] # h[t]}
<1>1. IsFiniteSet(s)
  BY FS_Subset
<1>2. SUFFICES ASSUME T # {} PROVE FALSE
  OBVIOUS
<1>3. PICK t \in T : \A u \in T : u \subseteq t => u = t
  <2>1. T \in SUBSET (SUBSET s)
    OBVIOUS
  <2> HIDE DEF T
  <2>2. QED
    BY <1>1, <1>2, <2>1, MinimalSubset
<1>4. t # {}
  BY DEF Folds
<1>5. Max(t) \in t
  BY <1>4
<1>6. t \ {Max(t)} \notin T
  BY <1>3, <1>5
<1>7. g[t \ {Max(t)}] = h[t \ {Max(t)}]
  BY <1>6
<1>8. /\ g[t] = Hang(g[t \ {Max(t)}], list[Max(t)])
      /\ h[t] = Hang(h[t \ {Max(t)}], list[Max(t)])
  BY <1>4 DEF Folds
<1>9. QED
  BY <1>7, <1>8

\* There is one for a list of any length.
LEMMA FoldsExist ==
  ASSUME NEW n \in Nat, NEW list
  PROVE  \E g : Folds(g, list, 1 .. n)
<1> DEFINE S == 1 .. n
           T == {B \in SUBSET S : ~ \E g : Folds(g, list, B)}
<1>0. IsFiniteSet(S)
  BY FS_Interval
<1>1. SUFFICES ASSUME T # {} PROVE FALSE
  OBVIOUS
<1>2. PICK A \in T : \A B \in T : B \subseteq A => B = A
  <2>1. T \in SUBSET (SUBSET S)
    OBVIOUS
  <2> HIDE DEF T, S
  <2> QED
    BY <1>0, <1>1, <2>1, MinimalSubset
<1> DEFINE G == [B \in SUBSET A |-> CHOOSE g : Folds(g, list, B)]
           f == [s \in SUBSET A |->
                   IF s = {} THEN Bare ELSE Hang(G[s \ {Max(s)}][s \ {Max(s)}], list[Max(s)])]
<1>3. ASSUME NEW B \in SUBSET A, B # A  PROVE  Folds(G[B], list, B)
  <2>1. B \notin T
    BY <1>2, <1>3
  <2>2. \E g : Folds(g, list, B)
    BY <2>1
  <2> QED
    BY <2>2
<1>4. ASSUME NEW s \in SUBSET A, s # {}  PROVE  Max(s) \in s
  BY <1>4, MaxIs
<1>5. ASSUME NEW s \in SUBSET A, s # A  PROVE  f[s] = G[s][s]
  <2>1. CASE s = {}
    <3>1. Folds(G[s], list, s)
      BY <1>3, <1>5
    <3>2. G[s][s] = Bare
      BY <2>1, <3>1 DEF Folds
    <3>3. QED
      BY <2>1, <3>2
  <2>2. CASE s # {}
    <3> DEFINE r == s \ {Max(s)}
    <3>0. IsFiniteSet(s)
      <4>1. s \in SUBSET S
        OBVIOUS
      <4> HIDE DEF S
      <4> QED
        BY <1>0, <4>1, FS_Subset
    <3>1. Max(s) \in s
      BY <1>4, <2>2
    <3>2. Folds(G[s], list, s) /\ \A t \in SUBSET s : t # {} => Max(t) \in t
      BY <1>3, <1>4, <1>5
    <3>3. r \in SUBSET A /\ r # A /\ r \subseteq s
      BY <3>1
    <3>4. Folds(G[r], list, r)
      BY <1>3, <3>3
    <3> HIDE DEF G
    <3>5. G[s][r] = G[r][r]
      <4> HIDE DEF r, f, T, S
      <4> QED
        BY <3>2, <3>0, <3>3, <3>4, FoldsAgree
    <3>6. G[s][s] = Hang(G[s][r], list[Max(s)])
      BY <2>2, <3>2 DEF Folds
    <3>7. QED
      BY <2>2, <3>5, <3>6
  <2>3. QED
    BY <2>1, <2>2
<1>6. Folds(f, list, A)
  <2>1. ASSUME NEW s \in SUBSET A
        PROVE  f[s] = IF s = {} THEN Bare ELSE Hang(f[s \ {Max(s)}], list[Max(s)])
    <3>1. CASE s = {}
      BY <3>1
    <3>2. CASE s # {}
      <4> DEFINE r == s \ {Max(s)}
      <4>1. Max(s) \in s
        BY <1>4, <3>2
      <4>2. r \in SUBSET A /\ r # A
        BY <4>1
      <4>3. f[r] = G[r][r]
        BY <1>5, <4>2
      <4>4. f[s] = Hang(G[r][r], list[Max(s)])
        BY <3>2
      <4> HIDE DEF f, G
      <4>5. QED
        BY <3>2, <4>3, <4>4
    <3>3. QED
      BY <3>1, <3>2
  <2>2. DOMAIN f = SUBSET A /\ f = [s \in SUBSET A |-> f[s]]
    OBVIOUS
  <2> HIDE DEF f
  <2>3. QED
    BY <2>1, <2>2 DEF Folds
<1>7. QED
  BY <1>6

\* The tree after each of the menus of a list.
LEMMA BuildSteps ==
  ASSUME NEW n \in Nat, DOMAIN AllActive = 1 .. n
  PROVE  \E tree :
           /\ tree[0] = Bare
           /\ \A k \in 1 .. n : tree[k] = Hang(tree[k - 1], AllActive[k])
           /\ Build = tree[n]
<1> DEFINE g == CHOOSE g : Folds(g, AllActive, 1 .. n)
           tree == [k \in 0 .. n |-> g[1 .. k]]
<1>1. Folds(g, AllActive, 1 .. n)
  BY FoldsExist
<1>2. Build = g[1 .. n]
  BY BuildUnfolds
<1> HIDE DEF g
<1>3. tree[0] = Bare
  <2>1. tree[0] = g[{}]
    OBVIOUS
  <2> QED
    BY <1>1, <2>1 DEF Folds
<1>4. ASSUME NEW k \in 1 .. n  PROVE  tree[k] = Hang(tree[k - 1], AllActive[k])
  <2>1. 1 .. k \in SUBSET (1 .. n) /\ k \in 1 .. k /\ 1 .. k # {}
    <3>1. k \in 1 .. k /\ \A i \in 1 .. k : i \in 1 .. n
      OBVIOUS
    <3> QED
      BY <3>1
  <2>2. Max(1 .. k) = k
    <3>1. Max(1 .. k) \in 1 .. k /\ \A i \in 1 .. k : i <= Max(1 .. k)
      BY <2>1, MaxIs
    <3> QED
      BY <2>1, <3>1
  <2>3. (1 .. k) \ {k} = 1 .. k - 1
    OBVIOUS
  <2>4. g[1 .. k] = Hang(g[1 .. k - 1], AllActive[k])
    BY <1>1, <2>1, <2>2, <2>3 DEF Folds
  <2>5. k \in 0 .. n /\ k - 1 \in 0 .. n
    OBVIOUS
  <2> QED
    BY <2>4, <2>5
<1>5. tree[n] = g[1 .. n]
  OBVIOUS
<1> HIDE DEF tree
<1> QED
  BY <1>2, <1>3, <1>4, <1>5

-----------------------------------------------------------------------------
(***************************************************************************)
(* What the tree holds of the menus seen so far.                           *)
(***************************************************************************)

Tree == [error : BOOLEAN, roots : Seq(Menu), items : [Menu -> Seq(Menu)]]

Children(p, S) == {m \in S : menu[m].parent = p /\ p \in Active /\ ~Misplaced(m)}

Kept(tree, S) ==
  /\ tree \in Tree
  /\ tree.error <=> \E m \in S : Misplaced(m)
  /\ Enumerates(tree.roots, {m \in S : menu[m].parent = NoParent})
  /\ \A p \in Menu : Enumerates(tree.items[p], Children(p, S))

\* The types of the table say what hangs from what.
LEMMA TypesOfParents ==
  ASSUME MenusTypeOK, NEW m \in Menu
  PROVE  /\ menu[m].parent \in Menu \cup {NoParent}
         /\ menu[m].parent = NoParent <=> menu[m].type = "PRIMARY"
         /\ menu[m].type \in MenuType
BY DEF MenusTypeOK, MenuRow

\* A menu whose parent is active is misplaced if the parent has another type than
\* its own asks for (MenuTreeBuilder.ensureParentIsOfExpectedType).
LEMMA MisplacedIs ==
  ASSUME MenusTypeOK, NEW m \in Menu, menu[m].parent # NoParent, ~Orphan(m)
  PROVE  /\ menu[m].parent \in Active
         /\ Misplaced(m) <=> menu[menu[m].parent].type # ExpectedParentType(menu[m].type)
<1>1. menu[m].parent \in Active /\ menu[m].parent \in Menu
  BY DEF Orphan, Active
<1>2. menu[m].type \in {"SECONDARY", "TERTIARY"}
  BY TypesOfParents DEF MenuType
<1>3. menu[menu[m].parent].type \in {"PRIMARY", "SECONDARY", "TERTIARY"}
  BY <1>1, TypesOfParents DEF MenuType
<1> QED
  BY <1>1, <1>2, <1>3 DEF Misplaced, ExpectedParentType

\* Hanging the next menu keeps the account of the ones hung so far.
LEMMA HangKeeps ==
  ASSUME MenusTypeOK, NEW S \in SUBSET Active, NEW m \in Active,
         \A n \in S : ComesFirst(n, m), NEW tree, Kept(tree, S)
  PROVE  Kept(Hang(tree, m), S \cup {m})
<1> DEFINE up == menu[m].parent
           new == Hang(tree, m)
<1>1. m \in Menu /\ tree \in Tree /\ \A s \in Seq(Menu) : Append(s, m) \in Seq(Menu)
  BY DEF Active, Kept
<1>2. up \in Menu \cup {NoParent}
  BY <1>1, TypesOfParents
<1>3. CASE up = NoParent
  <2>1. new = [tree EXCEPT !.roots = Append(tree.roots, m)]
    BY <1>3 DEF Hang
  <2>2. new \in Tree /\ new.error = tree.error /\ new.items = tree.items
        /\ new.roots = Append(tree.roots, m)
    BY <1>1, <2>1 DEF Tree
  <2>3. ~Misplaced(m) /\ NoParent \notin Active
    BY <1>3, MenuAssumption DEF Misplaced, Active
  <2>4. {n \in S \cup {m} : menu[n].parent = NoParent}
          = {n \in S : menu[n].parent = NoParent} \cup {m}
    BY <1>3
  <2>5. Enumerates(new.roots, {n \in S \cup {m} : menu[n].parent = NoParent})
    <3>1. Enumerates(tree.roots, {n \in S : menu[n].parent = NoParent})
      BY DEF Kept
    <3> QED
      BY <2>2, <2>4, <3>1, EnumeratesOneMore
  <2>6. \A p \in Menu : Children(p, S \cup {m}) = Children(p, S)
    BY <1>3, MenuAssumption DEF Children
  <2> QED
    BY <2>2, <2>3, <2>5, <2>6 DEF Kept
<1>4. CASE up # NoParent /\ (Orphan(m) \/ Misplaced(m))
  <2>1. {n \in S \cup {m} : menu[n].parent = NoParent} = {n \in S : menu[n].parent = NoParent}
    BY <1>4
  <2>2. \A p \in Menu : Children(p, S \cup {m}) = Children(p, S)
    BY <1>4 DEF Children, Orphan
  <2>3. CASE Orphan(m)
    <3>1. new = tree
      BY <1>4, <2>3 DEF Hang
    <3>2. ~Misplaced(m)
      BY <2>3 DEF Orphan, Misplaced
    <3> QED
      BY <2>1, <2>2, <3>1, <3>2 DEF Kept
  <2>4. CASE ~Orphan(m)
    <3>1. new = [tree EXCEPT !.error = TRUE] /\ Misplaced(m)
      BY <1>1, <1>4, <2>4, MisplacedIs DEF Hang
    <3>2. new \in Tree /\ new.error = TRUE /\ new.items = tree.items /\ new.roots = tree.roots
      BY <1>1, <3>1 DEF Tree
    <3> QED
      BY <2>1, <2>2, <3>1, <3>2 DEF Kept
  <2> QED
    BY <2>3, <2>4
<1>5. CASE up # NoParent /\ ~Orphan(m) /\ ~Misplaced(m)
  <2>1. up \in Active /\ up \in Menu
    BY <1>1, <1>5, MisplacedIs DEF Active
  <2>2. new = [tree EXCEPT !.items[up] = Append(tree.items[up], m)]
    BY <1>1, <1>5, MisplacedIs DEF Hang
  <2>3. /\ new \in Tree /\ new.error = tree.error /\ new.roots = tree.roots
        /\ new.items[up] = Append(tree.items[up], m)
        /\ \A p \in Menu \ {up} : new.items[p] = tree.items[p]
    <3> DEFINE items == [tree.items EXCEPT ![up] = Append(tree.items[up], m)]
    <3>1. tree.items \in [Menu -> Seq(Menu)]
      BY <1>1 DEF Tree
    <3>2. /\ items \in [Menu -> Seq(Menu)] /\ items[up] = Append(tree.items[up], m)
          /\ \A p \in Menu \ {up} : items[p] = tree.items[p]
      BY <1>1, <2>1, <3>1
    <3>3. new = [tree EXCEPT !.items = items]
      BY <2>2
    <3> HIDE DEF items, new
    <3> QED
      BY <1>1, <3>2, <3>3 DEF Tree
  <2> HIDE DEF new
  <2>4. {n \in S \cup {m} : menu[n].parent = NoParent} = {n \in S : menu[n].parent = NoParent}
    BY <1>5
  <2>5. ASSUME NEW p \in Menu  PROVE Enumerates(new.items[p], Children(p, S \cup {m}))
    <3>1. Enumerates(tree.items[p], Children(p, S))
      BY DEF Kept
    <3>2. CASE p = up
      <4>1. Children(p, S \cup {m}) = Children(p, S) \cup {m}
        BY <1>5, <2>1, <3>2 DEF Children
      <4>2. \A n \in Children(p, S) : ComesFirst(n, m)
        BY DEF Children
      <4>3. Enumerates(Append(tree.items[up], m), Children(p, S) \cup {m})
        BY <3>1, <3>2, <4>2, EnumeratesOneMore
      <4> QED
        BY <2>3, <3>2, <4>1, <4>3
    <3>3. CASE p # up
      <4>1. Children(p, S \cup {m}) = Children(p, S)
        BY <3>3 DEF Children
      <4> QED
        BY <2>3, <3>1, <3>3, <4>1
    <3> QED
      BY <3>2, <3>3
  <2>6. Kept(new, S \cup {m})
    <3>1. new.error <=> \E n \in S \cup {m} : Misplaced(n)
      BY <1>5, <2>3 DEF Kept
    <3>2. Enumerates(new.roots, {n \in S \cup {m} : menu[n].parent = NoParent})
      BY <2>3, <2>4 DEF Kept
    <3> QED
      BY <2>3, <2>5, <3>1, <3>2 DEF Kept
  <2> QED
    BY <2>6 DEF new
<1> QED
  BY <1>3, <1>4, <1>5

\* The pass begins with nothing hung.
LEMMA BareKeeps == Kept(Bare, {})
<1>1. Bare \in Tree
  BY DEF Bare, Tree
<1>2. Enumerates(<<>>, {})
  BY DEF Enumerates
<1>3. \A p \in Menu : Children(p, {}) = {} /\ Bare.items[p] = <<>>
  BY DEF Children, Bare
<1> QED
  BY <1>1, <1>2, <1>3 DEF Kept, Bare

\* After the pass the account is of all the active menus.
LEMMA BuildKeeps ==
  ASSUME MenusTypeOK
  PROVE  Kept(Build, Active)
<1> DEFINE FirstOnes(k) == {AllActive[i] : i \in 1 .. k}
<1>0. Active \in SUBSET Menu
  BY DEF Active
<1>1. Enumerates(AllActive, Active)
  BY <1>0, SortedEnumerates DEF AllActive
<1>2. PICK n \in Nat : n = Len(AllActive) /\ DOMAIN AllActive = 1 .. n
                       /\ \A i \in 1 .. n : AllActive[i] \in Active
  BY <1>1 DEF Enumerates
<1>3. PICK tree : /\ tree[0] = Bare
                  /\ \A k \in 1 .. n : tree[k] = Hang(tree[k - 1], AllActive[k])
                  /\ Build = tree[n]
  BY <1>2, BuildSteps
<1> DEFINE K == {k \in 0 .. n : Kept(tree[k], FirstOnes(k))}
<1>4. 0 \in K
  <2>1. FirstOnes(0) = {}
    OBVIOUS
  <2>2. Kept(tree[0], FirstOnes(0))
    BY <1>3, <2>1, BareKeeps
  <2> QED
    BY <2>2
<1>5. ASSUME NEW k \in 0 .. n - 1, k \in K  PROVE  k + 1 \in K
  <2>1. k + 1 \in 1 .. n /\ (k + 1) - 1 = k
    BY <1>2
  <2>2. FirstOnes(k + 1) = FirstOnes(k) \cup {AllActive[k + 1]}
    <3>1. 1 .. k + 1 = (1 .. k) \cup {k + 1}
      OBVIOUS
    <3> QED
      BY <3>1
  <2>3. \A i \in 1 .. k : i \in 1 .. n /\ i < k + 1
    BY <1>2
  <2>4. \A m \in FirstOnes(k) : m \in Active /\ ComesFirst(m, AllActive[k + 1])
    BY <1>1, <1>2, <2>1, <2>3 DEF Enumerates
  <2>5. AllActive[k + 1] \in Active
    BY <1>2, <2>1
  <2>6. tree[k + 1] = Hang(tree[k], AllActive[k + 1])
    BY <1>3, <2>1
  <2>7. Kept(tree[k], FirstOnes(k))
    BY <1>5
  <2>8. FirstOnes(k) \in SUBSET Active
    BY <2>4
  <2> HIDE DEF FirstOnes
  <2>9. Kept(tree[k + 1], FirstOnes(k + 1))
    BY <2>2, <2>4, <2>5, <2>6, <2>7, <2>8, HangKeeps
  <2> QED
    BY <2>1, <2>9
<1> HIDE DEF K
<1>6. 0 .. n \subseteq K
  BY <1>4, <1>5, UpTo
<1>7. FirstOnes(n) = Active
  BY <1>1, <1>2 DEF Enumerates
<1>8. Kept(tree[n], FirstOnes(n))
  <2> HIDE DEF FirstOnes
  <2> QED
    BY <1>6 DEF K
<1> QED
  BY <1>3, <1>7, <1>8

-----------------------------------------------------------------------------
\* The types of the table and of the marks.
THEOREM MenusTypes == MenusSpec => []MenusTypeOK
<1>1. MenusInit => MenusTypeOK
  BY DEF MenusInit, MenusTypeOK
<1>2. MenusTypeOK /\ [MenusNext]_menusVars => MenusTypeOK'
  <2>1. SUFFICES ASSUME MenusTypeOK, [MenusNext]_menusVars PROVE MenusTypeOK'
    OBVIOUS
  <2>2. ASSUME NEW m \in Menu, NEW value \in BOOLEAN, UpdateIsNew(m, value)
        PROVE  MenusTypeOK'
    BY <2>1, <2>2 DEF UpdateIsNew, MenusTypeOK
  <2>3. ASSUME NEW m \in Menu, SwitchBySql(m)  PROVE MenusTypeOK'
    <3>1. menu[m] \in MenuRow /\ menu \in [Menu -> MenuRow]
      BY <2>1 DEF MenusTypeOK
    <3>2. [menu[m] EXCEPT !.isActive = ~menu[m].isActive] \in MenuRow
      BY <3>1 DEF MenuRow
    <3> QED
      BY <2>1, <2>3, <3>1, <3>2 DEF SwitchBySql, MenusTypeOK
  <2>4. CASE UNCHANGED menusVars
    BY <2>1, <2>4 DEF menusVars, MenusTypeOK
  <2> QED
    BY <2>1, <2>2, <2>3, <2>4 DEF MenusNext
<1> QED
  BY <1>1, <1>2, PTL DEF MenusSpec

\* Of a well-formed table the tree shows what is visible.
LEMMA BuildIsRight == MenusTypeOK => TreeIsWhatIsVisible
<1> SUFFICES ASSUME MenusTypeOK PROVE TreeIsWhatIsVisible
  OBVIOUS
<1> DEFINE tree == Build
           inTree == Hanging(tree, Hanging(tree, ToSet(tree.roots)))
<1>1. Kept(tree, Active) /\ Active \subseteq Menu
  BY BuildKeeps DEF Active
<1> HIDE DEF tree
<1>2. CASE \E m \in Active : Misplaced(m)
  BY <1>1, <1>2 DEF Kept, TreeIsWhatIsVisible, tree
<1>3. CASE ~ \E m \in Active : Misplaced(m)
  <2>1. ~tree.error
    BY <1>1, <1>3 DEF Kept
  <2>2. \A p \in Active : Children(p, Active) = Siblings(p)
    BY <1>3 DEF Children, Siblings
  <2>3. \A S, s : Enumerates(s, S) => ToSet(s) = S
    BY DEF Enumerates, ToSet
  <2>4. Enumerates(tree.roots, Siblings(NoParent))
    BY <1>1 DEF Kept, Siblings
  <2>5. \A p \in Active : Enumerates(tree.items[p], Siblings(p))
    BY <1>1, <2>2 DEF Kept
  <2>6. \A p : Siblings(p) \subseteq Active /\ Siblings(p) \in SUBSET Menu
    BY <1>1 DEF Siblings
  <2>7. tree.roots = Sorted(Siblings(NoParent))
    BY <2>4, <2>6, SortedEnumerates, EnumerationIsOne
  <2>8. ASSUME NEW p \in Active  PROVE tree.items[p] = Sorted(Siblings(p))
    BY <2>5, <2>6, SortedEnumerates, EnumerationIsOne
  <2>9. \A S \in SUBSET Active : Hanging(tree, S) = S \cup {m \in Active : menu[m].parent \in S}
    <3>1. ASSUME NEW S \in SUBSET Active
          PROVE  Hanging(tree, S) = S \cup UNION {Siblings(m) : m \in S}
      <4>1. \A m \in S : ToSet(tree.items[m]) = Siblings(m)
        BY <2>3, <2>5
      <4> QED
        BY <4>1 DEF Hanging
    <3> QED
      BY <3>1 DEF Siblings
  <2>10. ToSet(tree.roots) = Siblings(NoParent)
    BY <2>3, <2>4
  <2> DEFINE two == Siblings(NoParent) \cup {m \in Active : menu[m].parent \in Siblings(NoParent)}
  <2>11. inTree = two \cup {m \in Active : menu[m].parent \in two}
    <3>1. Hanging(tree, ToSet(tree.roots)) = two
      BY <2>6, <2>9, <2>10
    <3>2. two \in SUBSET Active
      BY <2>6
    <3> HIDE DEF two
    <3> QED
      BY <2>9, <3>1, <3>2
  <2>12. ASSUME NEW m \in Active, menu[m].parent # NoParent, menu[m].parent \in Active,
                menu[menu[m].parent].parent # NoParent, menu[menu[m].parent].parent \in Active
         PROVE  menu[menu[menu[m].parent].parent].parent = NoParent
    <3> DEFINE up == menu[m].parent
               top == menu[up].parent
    <3>1. ~Misplaced(m) /\ ~Misplaced(up)
      BY <1>3, <2>12
    <3>2. <<menu[top].type, menu[up].type>>
            \in {<<"PRIMARY", "SECONDARY">>, <<"SECONDARY", "TERTIARY">>}
      BY <2>12, <3>1 DEF Misplaced
    <3>3. <<menu[up].type, menu[m].type>>
            \in {<<"PRIMARY", "SECONDARY">>, <<"SECONDARY", "TERTIARY">>}
      BY <2>12, <3>1 DEF Misplaced
    <3>4. menu[top].type = "PRIMARY"
      BY <3>2, <3>3
    <3> QED
      BY <1>1, <2>12, <3>4, TypesOfParents
  <2>13. inTree = Visible
    <3>1. NoParent \notin Active
      BY <1>1, MenuAssumption
    <3>2. \A m \in Active : m \in two <=> (menu[m].parent = NoParent
            \/ (menu[m].parent \in Active /\ menu[menu[m].parent].parent = NoParent))
      BY DEF Siblings
    <3>3. two \subseteq Active
      BY <2>6
    <3> HIDE DEF two, inTree
    <3>4. \A m \in Active : m \in inTree <=> m \in Visible
      BY <2>11, <2>12, <3>1, <3>2, <3>3 DEF Visible
    <3> QED
      BY <2>11, <3>3, <3>4 DEF Visible
  <2>14. Visible \subseteq Active
    BY DEF Visible
  <2> QED
    BY <1>3, <2>1, <2>7, <2>8, <2>13, <2>14 DEF TreeIsWhatIsVisible, tree
<1> QED
  BY <1>2, <1>3

\* Whatever menus are switched on and off, the pass over the active ones shows
\* exactly those none of whose ancestors is off, each under its parent and in
\* order, and fails exactly when one hangs from an active menu of the wrong
\* type (MenuTreeBuilder.build).
THEOREM TreeIsRight == MenusSpec => []TreeIsWhatIsVisible
BY MenusTypes, BuildIsRight, PTL

-----------------------------------------------------------------------------
(***************************************************************************)
(* The parts side by side.                                                 *)
(***************************************************************************)

\* A list and its reader keep their types, whether or not its order is total.
THEOREM ListingTypes == ListingSpec => []ListingTypeOK
<1>1. ListingInit => ListingTypeOK
  BY NotReadingIsReader, ListingAssumption DEF ListingInit, ListingTypeOK, ReaderRow
<1>2. ASSUME ListingTypeOK, [ListingNext]_listingVars  PROVE ListingTypeOK'
  <2>1. reader \in ReaderRow /\ NotReading \in ReaderRow
    BY <1>2 DEF ListingTypeOK, ReaderRow, NotReading
  <2>2. \A page : \A rows \in Pages(page) : rows \subseteq shown
    BY DEF Pages, kSubset
  <2>3. CASE StartReading
    <3>1. reader' \in ReaderRow
      BY <1>2, <2>3 DEF StartReading, NotReading, ReaderRow, ListingTypeOK
    <3> QED
      BY <1>2, <2>3, <3>1 DEF StartReading, ListingTypeOK, ReaderRow
  <2>4. CASE ReadRows
    <3>1. PICK rows \in Pages(reader.page) :
            reader' = [reader EXCEPT !.counted = FALSE, !.seen = reader.seen \cup rows,
                                     !.twice = reader.twice \cup (reader.seen \cap rows)]
      BY <2>4 DEF ReadRows
    <3>2. rows \subseteq RowId
      BY <1>2, <2>2, <3>1 DEF ListingTypeOK
    <3>3. reader' \in ReaderRow
      BY <2>1, <3>1, <3>2 DEF ReaderRow
    <3> QED
      BY <1>2, <2>4, <3>3 DEF ReadRows, ListingTypeOK, ReaderRow
  <2>5. CASE ReadTotal
    <3> DEFINE over == Cardinality(shown) <= Offset(reader.page + 1)
    <3>1. reader' \in ReaderRow
      <4>1. reader' = [reader EXCEPT !.counted = TRUE, !.page = @ + 1, !.done = over]
        BY <2>5 DEF ReadTotal
      <4>2. over \in BOOLEAN
        OBVIOUS
      <4> HIDE DEF over
      <4>3. PICK v \in BOOLEAN : v = over
        BY <4>2
      <4>4. reader' = [reader EXCEPT !.counted = TRUE, !.page = @ + 1, !.done = v]
        BY <4>1, <4>3
      <4>5. reader' = [page |-> reader.page + 1, counted |-> TRUE, done |-> v,
                       due |-> reader.due, seen |-> reader.seen, twice |-> reader.twice,
                       appeared |-> reader.appeared, vanished |-> reader.vanished,
                       moved |-> reader.moved]
        BY <2>1, <4>4 DEF ReaderRow
      <4>6. reader.page + 1 \in Nat
        BY <2>1 DEF ReaderRow
      <4> QED
        BY <2>1, <4>3, <4>5, <4>6, Zenon DEF ReaderRow
    <3> QED
      BY <1>2, <2>5, <3>1 DEF ReadTotal, ListingTypeOK, ReaderRow
  <2>6. CASE StopReading
    BY <1>2, <2>1, <2>6 DEF StopReading, ListingTypeOK, ReaderRow
  <2>7. ASSUME NEW i \in RowId, Insert(i) \/ Leave(i) \/ Return(i) \/ Move(i)
        PROVE  ListingTypeOK'
    <3>1. Key \subseteq 0 .. MaxKey /\ 0 \notin Key
      BY ListingAssumption DEF Key
    <3>2. \A event \in {"appeared", "vanished", "moved"} : Seen(event) \in ReaderRow
      <4>1. [reader EXCEPT !["appeared"] = TRUE] \in ReaderRow
        BY <2>1 DEF ReaderRow
      <4>2. [reader EXCEPT !["vanished"] = TRUE] \in ReaderRow
        BY <2>1 DEF ReaderRow
      <4>3. [reader EXCEPT !["moved"] = TRUE] \in ReaderRow
        BY <2>1 DEF ReaderRow
      <4> QED
        BY <2>1, <4>1, <4>2, <4>3 DEF Seen
    <3>3. reader' \in ReaderRow
      BY <2>7, <3>2 DEF Insert, Leave, Return, Move
    <3>4. /\ listing' \in Listed /\ row' \in [RowId -> 0 .. MaxKey]
          /\ shown' \in SUBSET {j \in RowId : row'[j] # 0}
      BY <1>2, <2>7, <3>1 DEF Insert, Leave, Return, Move, ListingTypeOK
    <3> QED
      BY <3>3, <3>4 DEF ListingTypeOK, ReaderRow
  <2>8. CASE UNCHANGED listingVars
    BY <1>2, <2>8 DEF listingVars, ListingTypeOK
  <2> QED
    BY <1>2, <2>3, <2>4, <2>5, <2>6, <2>7, <2>8 DEF ListingNext
<1> QED
  BY <1>1, <1>2, PTL DEF ListingSpec

\* The parts share no state, so the five side by side behave as each of them
\* alone.
THEOREM FrontIsItsParts ==
  ASSUME Listed # {}, Order # {}
  PROVE  FrontSpec => Spec /\ ListingSpec /\ MenusSpec /\ QuotesSpec /\ ItemsSpec
<1>1. MenuRow # {}
  <2>1. PICK o \in Order : TRUE
    OBVIOUS
  <2>2. [parent |-> NoParent, type |-> "PRIMARY", order |-> o, isActive |-> TRUE] \in MenuRow
    BY <2>1 DEF MenuRow, MenuType
  <2> QED
    BY <2>2
<1>2. FrontInit => Init /\ ListingInit /\ MenusInit /\ QuotesInit /\ ItemsInit
  BY <1>1 DEF FrontInit, ListingInit, MenusInit
<1>3. [FrontNext]_<<vars, listingVars, menusVars, quote, itemsVars, part>>
        => /\ [Next]_vars /\ [ListingNext]_listingVars /\ [MenusNext]_menusVars
           /\ [QuotesNext]_quote /\ [ItemsNext]_itemsVars
  BY DEF FrontNext
<1> QED
  BY <1>2, <1>3, PTL DEF FrontSpec, Spec, ListingSpec, MenusSpec, QuotesSpec, ItemsSpec

\* The parts keep their types side by side.
THEOREM FrontTypes ==
  ASSUME Listed # {}, Order # {}  PROVE FrontSpec => []FrontTypeOK
<1>1. TypeOK /\ ListingTypeOK /\ MenusTypeOK /\ ItemsTypeOK => FrontTypeOK
  BY DEF FrontTypeOK
<1> QED
  BY <1>1, FrontIsItsParts, PricesTypes, ListingTypes, MenusTypes, ItemTypes, PTL

\* So side by side they keep all that each of them promises.
THEOREM FrontKeepsPromises ==
  ASSUME Listed # {}, Order # {}, AllTotal
  PROVE  FrontSpec => /\ []OneOwnConfigPerBranch /\ DoesWhatItSays
                      /\ []ReadsEachOnce /\ []TreeIsWhatIsVisible
                      /\ []QuoteIsHonoured /\ WritesItsOwn
BY FrontIsItsParts, OneConfigEach, SaysAndDoes, PagesSuffice, TreeIsRight, QuotesAreHonoured,
   BusinessesStayApart, PTL

=============================================================================
