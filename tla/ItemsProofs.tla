---------------------------- MODULE ItemsProofs -----------------------------
(***************************************************************************)
(* Theorems about Items, for any requests, businesses, names, units and    *)
(* bounds.  What a request saves was decided when it read, so the          *)
(* invariant says of each request what its answers still guarantee when it *)
(* writes: rows never leave their business, never change their SKU, and    *)
(* the sequence only grows.                                                *)
(***************************************************************************)
EXTENDS Items, TLAPS

-----------------------------------------------------------------------------
(***************************************************************************)
(* The invariant.                                                          *)
(***************************************************************************)

\* Every SKU in the table was drawn, for one item.
SkusAreDrawn ==
  /\ \A i \in ItemRows : item[i].sku <= number
  /\ \A i, j \in ItemRows : i # j => item[i].sku # item[j].sku

\* What a new item holds: once it has drawn a number, one nobody stored.
NewOk(r) ==
  /\ r.step # "idle" => r.copy \in ItemRow /\ r.copy.business = r.business
  /\ r.step \in {"save", "commit"} =>
       /\ r.copy.sku \in 1 .. number
       /\ SkuIndexAllows(r.copy)

\* What a copy of a row holds: its row exists, in the business that asked, and
\* copy and row agree on what no update changes.
CopyOk(r) ==
  /\ r.step \in {"name", "save", "commit"}
  /\ r.id \in ItemRows
  /\ r.copy \in ItemRow
  /\ r.copy.business = r.business
  /\ item[r.id].business = r.copy.business
  /\ item[r.id].sku = r.copy.sku
  /\ r.step = "commit" =>
       /\ r.seen \in ItemRow
       /\ r.seen.business = r.copy.business
       /\ r.seen.sku = r.copy.sku

Sound(r) == IF r.id = NoId THEN NewOk(r) ELSE CopyOk(r)

RequestsOk == \A p \in Caller : Sound(call[p])

\* Two creations never hold the same number.
OwnNumbers ==
  \A p, q \in Drawing : p # q => call[p].copy.sku # call[q].copy.sku

IInv == ItemsTypeOK /\ SkusAreDrawn /\ RequestsOk /\ OwnNumbers

\* One request at a time.
OneAtATime == \A p, q \in Caller : p = q

\* What the question of the name still guarantees.
AskedOk(r) ==
  /\ r.id = NoId /\ r.step \in {"sku", "save", "commit"} => ~NameIsTaken(r.copy.name, r.business)
  /\ r.id # NoId /\ r.step \in {"save", "commit"} =>
       \A i \in FoundIn(r.business) \ {r.id} : item[i].name # r.copy.name
  /\ r.id # NoId /\ r.step = "commit" => r.seen = item[r.id]

NInv == IInv /\ NamesDiffer /\ \A p \in Caller : AskedOk(call[p])

-----------------------------------------------------------------------------
(***************************************************************************)
(* Type correctness and numbers.                                           *)
(***************************************************************************)

LEMMA InitHolds == ItemsInit => NInv
  BY ItemBounds, NoneIsNoItem
  DEF ItemsInit, NInv, IInv, ItemsTypeOK, SkusAreDrawn, RequestsOk, Sound, OwnNumbers, NamesDiffer, AskedOk,
      NewOk, ItemRows, Drawing, NoCall, CallRow, CallStep, NoId, ItemId


\* A request that has drawn a number and not written it yet.
Holds(r) == r.id = NoId /\ r.step \in {"save", "commit"}

\* The tables stay, and what one request holds becomes something sound.
LEMMA RequestMoves ==
  ASSUME IInv, NEW p \in Caller, NEW r \in CallRow, Sound(r),
         Holds(r) => \A q \in Drawing \ {p} : call[q].copy.sku # r.copy.sku,
         CallGoes(p, r), UNCHANGED <<item, number>>
  PROVE  IInv'
<1>1. /\ call' = [call EXCEPT ![p] = r]
      /\ call \in [Caller -> CallRow]
  BY DEF CallGoes, IInv, ItemsTypeOK
<1>2. call' \in [Caller -> CallRow] /\ ItemRows' = ItemRows
  BY <1>1 DEF ItemRows
<1>3. ItemsTypeOK' /\ SkusAreDrawn'
  BY <1>2 DEF IInv, ItemsTypeOK, SkusAreDrawn
<1>4. \A q \in Caller : Sound(call[q]) /\ Sound(call'[q])
  BY <1>1 DEF IInv, RequestsOk
<1>5. RequestsOk'
  <2>1. \A q \in Caller : Sound(call[q])'
    BY <1>2, <1>4 DEF Sound, NewOk, CopyOk, SkuIndexAllows
  <2> QED  BY <2>1 DEF RequestsOk
<1>6. OwnNumbers'
  <2>1. \A q \in Caller \ {p} : call'[q] = call[q]
    BY <1>1
  <2>2. call'[p] = r
    BY <1>1
  <2>3. \A q \in Drawing' \ {p} : q \in Drawing \ {p} /\ call'[q] = call[q]
    BY <2>1 DEF Drawing
  <2>4. p \in Drawing' => Holds(r)
    BY <2>2 DEF Drawing, Holds
  <2> QED  BY <2>2, <2>3, <2>4 DEF OwnNumbers, IInv
<1> QED  BY <1>3, <1>5, <1>6 DEF IInv

LEMMA IdleIsSound == NoCall \in CallRow /\ Sound(NoCall) /\ ~Holds(NoCall)
  BY DEF NoCall, CallRow, CallStep, Sound, NewOk, Holds, NoId

LEMMA CreateKeeps ==
  ASSUME IInv, NEW p \in Caller, CreateItem(p)  PROVE IInv'
<1>1. PICK b \in Business, n \in Name, u \in Unit :
        CallGoes(p, [step |-> "name", business |-> b, id |-> NoId,
                 copy |-> NewItem(b, n, u), seen |-> None])
  BY DEF CreateItem
<1> DEFINE r == [step |-> "name", business |-> b, id |-> NoId,
                 copy |-> NewItem(b, n, u), seen |-> None]
<1>2. NewItem(b, n, u) \in ItemRow /\ NewItem(b, n, u).business = b
  BY ItemBounds DEF NewItem, ItemRow, NoSku
<1>3. r \in CallRow /\ Sound(r) /\ ~Holds(r)
  BY <1>2 DEF CallRow, CallStep, Sound, NewOk, Holds
<1>4. UNCHANGED <<item, number>>
  BY DEF CreateItem
<1> HIDE DEF r
<1> QED  BY <1>1, <1>3, <1>4, RequestMoves DEF r

LEMMA ChangedKeeps ==
  ASSUME NEW row \in ItemRow, NEW n \in Name, NEW u \in Unit
  PROVE  /\ Renamed(row, n, u) \in ItemRow
         /\ Renamed(row, n, u).business = row.business
         /\ Renamed(row, n, u).sku = row.sku
         /\ Renamed(row, n, u).name = n
  BY DEF Renamed, ItemRow

LEMMA UpdateKeeps ==
  ASSUME IInv, NEW p \in Caller, UpdateItem(p)  PROVE IInv'
<1>1. PICK b \in Business : \E i \in FoundIn(b), n \in Name, u \in Unit, step \in {"name", "save"} :
        CallGoes(p, [step |-> step, business |-> b, id |-> i,
                 copy |-> Renamed(item[i], n, u), seen |-> None])
  BY DEF UpdateItem
<1>2. PICK i \in FoundIn(b), n \in Name, u \in Unit, step \in {"name", "save"} :
        CallGoes(p, [step |-> step, business |-> b, id |-> i,
                 copy |-> Renamed(item[i], n, u), seen |-> None])
  BY <1>1
<1> DEFINE r == [step |-> step, business |-> b, id |-> i,
                 copy |-> Renamed(item[i], n, u), seen |-> None]
<1>3. /\ i \in ItemRows /\ i \in ItemId /\ i # NoId
      /\ item[i] \in ItemRow
      /\ item[i].business = b
  BY ItemBounds DEF FoundIn, ItemRows, IInv, ItemsTypeOK, ItemId, NoId
<1>4. /\ Renamed(item[i], n, u) \in ItemRow
      /\ Renamed(item[i], n, u).business = item[i].business
      /\ Renamed(item[i], n, u).sku = item[i].sku
  BY <1>3, ChangedKeeps
<1>5. r \in CallRow /\ Sound(r) /\ ~Holds(r)
  BY <1>3, <1>4 DEF CallRow, CallStep, Sound, CopyOk, Holds
<1>6. UNCHANGED <<item, number>>
  BY DEF UpdateItem
<1> HIDE DEF r
<1> QED  BY <1>2, <1>5, <1>6, RequestMoves DEF r

LEMMA AskKeeps ==
  ASSUME IInv, NEW p \in Caller, AskName(p)  PROVE IInv'
<1> DEFINE r == call[p]
           s == [r EXCEPT !.step = IF r.id = NoId THEN "sku" ELSE "save"]
<1>1. r \in CallRow /\ r.step = "name" /\ Sound(r)
  BY DEF AskName, CallAt, IInv, ItemsTypeOK, RequestsOk
<1>2. UNCHANGED <<item, number>>
  BY DEF AskName
<1>3. CASE CallEnds(p)
  BY <1>2, <1>3, IdleIsSound, RequestMoves DEF CallEnds
<1>4. CASE CallGoes(p, s)
  <2>1. s \in CallRow
    BY <1>1 DEF CallRow, CallStep
  <2>2. Sound(s) /\ ~Holds(s)
    BY <1>1 DEF CallRow, Sound, NewOk, CopyOk, Holds
  <2> HIDE DEF s
  <2> QED  BY <1>2, <1>4, <2>1, <2>2, RequestMoves
<1> QED  BY <1>3, <1>4 DEF AskName

LEMMA SelectKeeps ==
  ASSUME IInv, NEW p \in Caller, SelectItem(p)  PROVE IInv'
<1> DEFINE r == call[p]
           s == [r EXCEPT !.step = "commit", !.seen = IF r.id = NoId THEN None ELSE item[r.id]]
<1>1. r \in CallRow /\ r.step = "save" /\ Sound(r)
  BY DEF SelectItem, CallAt, IInv, ItemsTypeOK, RequestsOk
<1>2. UNCHANGED <<item, number>> /\ CallGoes(p, s)
  BY DEF SelectItem
<1>3. r.id # NoId => r.id \in ItemRows /\ item[r.id] \in ItemRow
  BY <1>1 DEF Sound, CopyOk, ItemRows, IInv, ItemsTypeOK
<1>4. s \in CallRow
  BY <1>1, <1>3 DEF CallRow, CallStep
<1>5. Sound(s)
  BY <1>1, <1>3 DEF CallRow, Sound, NewOk, CopyOk
<1>6. Holds(s) => \A q \in Drawing \ {p} : call[q].copy.sku # s.copy.sku
  <2>1. Holds(s) => p \in Drawing /\ s.copy = r.copy
    BY <1>1 DEF Holds, Drawing, CallRow
  <2> QED  BY <2>1 DEF IInv, OwnNumbers, Drawing
<1> HIDE DEF s
<1> QED  BY <1>2, <1>4, <1>5, <1>6, RequestMoves

LEMMA FailsKeeps ==
  ASSUME IInv, NEW p \in Caller, CallFails(p)  PROVE IInv'
  BY IdleIsSound, RequestMoves DEF CallFails, CallEnds

\* The number that is drawn is beyond all that are stored or held.
LEMMA DrawKeeps ==
  ASSUME IInv, NEW p \in Caller, DrawSku(p)  PROVE IInv'
<1> DEFINE r == call[p]
           s == [r EXCEPT !.step = "save", !.copy.sku = NextSku]
<1>1. /\ r \in CallRow /\ r.step = "sku" /\ r.id = NoId
      /\ r.copy \in ItemRow /\ r.copy.business = r.business
  BY DEF DrawSku, CallAt, IInv, ItemsTypeOK, RequestsOk, Sound, NewOk, CopyOk
<1>2. /\ number \in 0 .. MaxNumber /\ number < MaxNumber
      /\ number' = number + 1 /\ NextSku = number + 1
      /\ item' = item /\ ItemRows' = ItemRows
      /\ call' = [call EXCEPT ![p] = s]
      /\ call \in [Caller -> CallRow]
  BY DEF DrawSku, CallGoes, NextSku, ItemRows, IInv, ItemsTypeOK
<1>3. /\ s.step = "save" /\ s.id = NoId /\ s.business = r.business /\ s.seen = r.seen
      /\ s.copy = [r.copy EXCEPT !.sku = number + 1]
  BY <1>1, <1>2 DEF CallRow
<1>4. s.copy \in ItemRow /\ s.copy.sku = number + 1 /\ s.copy.business = s.business
  BY <1>1, <1>2, <1>3, ItemBounds DEF ItemRow, NoSku
<1>5. s \in CallRow
  BY <1>1, <1>2, <1>3, <1>4, ItemBounds DEF CallRow, CallStep, ItemRow, NoSku
<1> HIDE DEF s
<1>6. call'[p] = s /\ \A q \in Caller \ {p} : call'[q] = call[q]
  BY <1>2
<1>7. ItemsTypeOK'
  BY <1>2, <1>5, ItemBounds DEF IInv, ItemsTypeOK
<1>8. \A i \in ItemRows : item[i].sku \in 1 .. number
  BY <1>2, ItemBounds DEF IInv, SkusAreDrawn, ItemsTypeOK, ItemRows, ItemRow, NoSku
<1>9. SkusAreDrawn'
  BY <1>2, <1>8 DEF IInv, SkusAreDrawn
<1>10. \A q \in Drawing : call[q].copy.sku \in 1 .. number
  BY DEF Drawing, IInv, RequestsOk, Sound, NewOk
<1>11. Sound(call[p])'
  <2>1. \A i \in ItemRows' : item'[i].sku # s.copy.sku
    BY <1>2, <1>4, <1>8
  <2>2. s.copy.sku \in 1 .. number'
    BY <1>2, <1>4, ItemBounds
  <2>3. /\ call'[p].copy \in ItemRow /\ call'[p].copy.business = call'[p].business
        /\ call'[p].copy.sku \in 1 .. number'
        /\ \A i \in ItemRows' : item'[i].sku # call'[p].copy.sku
        /\ call'[p].id = NoId
    BY <1>3, <1>4, <1>6, <2>1, <2>2
  <2> QED  BY <2>3 DEF Sound, NewOk, SkuIndexAllows
<1>12. \A q \in Caller \ {p} : Sound(call[q])'
  <2> TAKE q \in Caller \ {p}
  <2>1. Sound(call[q])
    BY DEF IInv, RequestsOk
  <2> QED  BY <1>2, <1>6, <2>1 DEF Sound, NewOk, CopyOk, SkuIndexAllows
<1>13. RequestsOk'
  BY <1>11, <1>12 DEF RequestsOk
<1>14. OwnNumbers'
  <2>1. \A q \in Drawing' \ {p} : q \in Drawing /\ call'[q] = call[q]
    BY <1>6 DEF Drawing
  <2> QED  BY <1>2, <1>4, <1>6, <1>10, <2>1 DEF OwnNumbers, IInv
<1> QED  BY <1>7, <1>9, <1>13, <1>14 DEF IInv

-----------------------------------------------------------------------------
(***************************************************************************)
(* The save.                                                               *)
(***************************************************************************)

\* What an update writes keeps the business and the SKU of its row.
LEMMA WrittenKeeps ==
  ASSUME NEW row \in ItemRow, NEW seen \in ItemRow, NEW copy \in ItemRow,
         seen.business = copy.business, seen.sku = copy.sku
  PROVE  /\ Written(row, seen, copy) \in ItemRow
         /\ Written(row, seen, copy).business = row.business
         /\ Written(row, seen, copy).sku = row.sku
<1>1. DOMAIN row = {"business", "name", "unit", "sku"}
  BY DEF ItemRow
<1>2. \A c \in DOMAIN row : Written(row, seen, copy)[c] = IF copy[c] # seen[c] THEN copy[c] ELSE row[c]
  BY DEF Written
<1>3. Written(row, seen, copy) =
        [business |-> Written(row, seen, copy).business, name |-> Written(row, seen, copy).name,
         unit |-> Written(row, seen, copy).unit, sku |-> Written(row, seen, copy).sku]
  BY <1>1 DEF Written
<1>4. /\ Written(row, seen, copy).business = row.business
      /\ Written(row, seen, copy).sku = row.sku
  BY <1>1, <1>2
<1>5. Written(row, seen, copy).name \in Name /\ Written(row, seen, copy).unit \in Unit
  BY <1>1, <1>2 DEF ItemRow
<1> QED  BY <1>3, <1>4, <1>5 DEF ItemRow

\* What a save does to the table: it inserts the copy, which has a number of
\* its own, writes over the row of the copy, or does nothing.
Inserts(p, i) ==
  /\ Holds(call[p])
  /\ i \in ItemId \ ItemRows
  /\ call[p].copy \in ItemRow
  /\ call[p].copy.business = call[p].business
  /\ call[p].copy.sku \in 1 .. number
  /\ SkuIndexAllows(call[p].copy)
  /\ item' = [item EXCEPT ![i] = call[p].copy]

Overwrites(p, i) ==
  /\ i = call[p].id /\ i \in ItemRows
  /\ item[i].business = call[p].business
  /\ item' = [item EXCEPT ![i] = Written(@, call[p].seen, call[p].copy)]
  /\ item'[i] \in ItemRow
  /\ item'[i].business = item[i].business
  /\ item'[i].sku = item[i].sku

LEMMA SaveDoes ==
  ASSUME IInv, NEW p \in Caller, CommitItem(p)
  PROVE  \/ item' = item
         \/ \E i \in ItemId : Inserts(p, i) \/ Overwrites(p, i)
<1> DEFINE r == call[p]
<1>1. r.step = "commit" /\ Sound(r)
  BY DEF CommitItem, CallAt, IInv, RequestsOk
<1>2. item \in [ItemId -> ItemRow \cup {None}]
  BY DEF IInv, ItemsTypeOK
<1>3. CASE r.id = NoId
  <2>1. PICK i \in ItemId : IsNextItem(i) /\ item' = IF SkuIndexAllows(r.copy) THEN [item EXCEPT ![i] = r.copy] ELSE item
    BY <1>3 DEF CommitItem
  <2>2. Holds(r) /\ NewOk(r)
    BY <1>1, <1>3 DEF Holds, Sound
  <2>3. ASSUME SkuIndexAllows(r.copy)  PROVE Inserts(p, i)
    BY <1>1, <2>1, <2>2, <2>3 DEF Inserts, IsNextItem, NewOk
  <2> QED  BY <2>1, <2>3
<1>4. CASE r.id # NoId
  <2> DEFINE i == r.id
  <2>1. CopyOk(r)
    BY <1>1, <1>4 DEF Sound
  <2>2. item' = [item EXCEPT ![i] = Written(@, r.seen, r.copy)]
    BY <1>4 DEF CommitItem
  <2>3. i \in ItemRows /\ i \in ItemId /\ item[i] \in ItemRow
    BY <1>2, <2>1 DEF CopyOk, ItemRows
  <2>4. item'[i] = Written(item[i], r.seen, r.copy)
    BY <1>2, <2>2, <2>3
  <2>5. /\ r.copy \in ItemRow /\ r.seen \in ItemRow
        /\ r.seen.business = r.copy.business /\ r.seen.sku = r.copy.sku
    BY <1>1, <2>1 DEF CopyOk
  <2>6. item'[i] \in ItemRow /\ item'[i].business = item[i].business /\ item'[i].sku = item[i].sku
    BY <2>3, <2>4, <2>5, WrittenKeeps
  <2>7. item[i].business = r.business
    BY <2>1 DEF CopyOk
  <2>8. Overwrites(p, i)
    BY <2>2, <2>3, <2>6, <2>7 DEF Overwrites
  <2> QED  BY <2>3, <2>8
<1> QED  BY <1>3, <1>4

\* What a save, whatever it does, leaves as it was.
LEMMA SaveSettles ==
  ASSUME IInv, NEW p \in Caller, CommitItem(p)
  PROVE  /\ item' \in [ItemId -> ItemRow \cup {None}]
         /\ ItemRows \subseteq ItemRows'
         /\ \A i \in ItemRows : item'[i].business = item[i].business /\ item'[i].sku = item[i].sku
         /\ \A i \in ItemRows' \ ItemRows :
              /\ Holds(call[p])
              /\ item'[i] = call[p].copy
              /\ item'[i].business = call[p].business
              /\ item'[i].sku \in 1 .. number
              /\ SkuIndexAllows(call[p].copy)
              /\ ItemRows' = ItemRows \cup {i}
<1>1. item \in [ItemId -> ItemRow \cup {None}] /\ None \notin ItemRow
  BY NoneIsNoItem DEF IInv, ItemsTypeOK
<1>2. CASE item' = item
  BY <1>1, <1>2 DEF ItemRows
<1>3. CASE \E i \in ItemId : Inserts(p, i)
  <2>1. PICK i \in ItemId : Inserts(p, i)
    BY <1>3
  <2>2. /\ item'[i] = call[p].copy
        /\ \A j \in ItemId \ {i} : item'[j] = item[j]
        /\ item' \in [ItemId -> ItemRow \cup {None}]
    BY <1>1, <2>1 DEF Inserts
  <2>3. ItemRows' = ItemRows \cup {i}
    BY <1>1, <2>1, <2>2 DEF ItemRows, Inserts
  <2> QED  BY <2>1, <2>2, <2>3 DEF Inserts, ItemRows
<1>4. CASE \E i \in ItemId : Overwrites(p, i)
  <2>1. PICK i \in ItemId : Overwrites(p, i)
    BY <1>4
  <2>2. /\ item'[i] \in ItemRow
        /\ \A j \in ItemId \ {i} : item'[j] = item[j]
        /\ item' \in [ItemId -> ItemRow \cup {None}]
    BY <1>1, <2>1 DEF Overwrites
  <2>3. ItemRows' = ItemRows
    BY <1>1, <2>1, <2>2 DEF ItemRows, Overwrites
  <2> QED  BY <2>1, <2>2, <2>3 DEF Overwrites, ItemRows
<1> QED  BY <1>2, <1>3, <1>4, SaveDoes

LEMMA SaveKeeps ==
  ASSUME IInv, NEW p \in Caller, CommitItem(p)  PROVE IInv'
<1>1. /\ number' = number
      /\ call' = [call EXCEPT ![p] = NoCall]
      /\ call \in [Caller -> CallRow]
  BY DEF CommitItem, CallEnds, CallGoes, IInv, ItemsTypeOK
<1>2. /\ call'[p] = NoCall
      /\ \A q \in Caller \ {p} : call'[q] = call[q]
      /\ call' \in [Caller -> CallRow]
  BY <1>1, IdleIsSound
<1>3. \A i \in ItemRows' \ ItemRows :
        /\ Holds(call[p])
        /\ item'[i] = call[p].copy
        /\ item'[i].sku \in 1 .. number
        /\ SkuIndexAllows(call[p].copy)
        /\ ItemRows' = ItemRows \cup {i}
  BY SaveSettles
<1>4. /\ item' \in [ItemId -> ItemRow \cup {None}]
      /\ ItemRows \subseteq ItemRows'
      /\ \A i \in ItemRows : item'[i].business = item[i].business /\ item'[i].sku = item[i].sku
  BY SaveSettles
<1>5. ItemsTypeOK'
  <2>1. \A i \in ItemRows' : item'[i].sku # NoSku
    BY <1>3, <1>4 DEF IInv, ItemsTypeOK, NoSku
  <2> QED  BY <1>1, <1>2, <1>4, <2>1 DEF IInv, ItemsTypeOK
<1>6. SkusAreDrawn'
  <2>1. \A i \in ItemRows' : item'[i].sku <= number
    BY <1>3, <1>4, ItemBounds DEF IInv, ItemsTypeOK, SkusAreDrawn
  <2>2. ASSUME NEW i \in ItemRows', NEW j \in ItemRows', i # j
        PROVE  item'[i].sku # item'[j].sku
    <3>1. CASE i \in ItemRows /\ j \in ItemRows
      BY <1>4, <2>2, <3>1 DEF IInv, SkusAreDrawn
    <3>2. CASE i \notin ItemRows
      <4>1. j \in ItemRows /\ item'[j].sku = item[j].sku
        BY <1>3, <1>4, <2>2, <3>2
      <4> QED  BY <1>3, <3>2, <4>1 DEF SkuIndexAllows
    <3>3. CASE j \notin ItemRows
      <4>1. i \in ItemRows /\ item'[i].sku = item[i].sku
        BY <1>3, <1>4, <2>2, <3>3
      <4> QED  BY <1>3, <3>3, <4>1 DEF SkuIndexAllows
    <3> QED  BY <3>1, <3>2, <3>3
  <2> QED  BY <1>1, <2>1, <2>2 DEF SkusAreDrawn
<1>7. ASSUME NEW q \in Caller \ {p}  PROVE Sound(call[q])'
  <2>1. call'[q] = call[q] /\ Sound(call[q])
    BY <1>2 DEF IInv, RequestsOk
  <2>2. CASE call[q].id = NoId
    <3>1. NewOk(call[q])
      BY <2>1, <2>2 DEF Sound
    <3>2. call[q].step \in {"save", "commit"} => \A i \in ItemRows' : item'[i].sku # call[q].copy.sku
      <4> SUFFICES ASSUME call[q].step \in {"save", "commit"}, NEW i \in ItemRows'
                   PROVE  item'[i].sku # call[q].copy.sku
        OBVIOUS
      <4>1. CASE i \in ItemRows
        BY <1>4, <3>1, <4>1 DEF NewOk, SkuIndexAllows
      <4>2. CASE i \notin ItemRows
        <5>1. p \in Drawing /\ q \in Drawing
          BY <1>3, <2>2, <4>2 DEF Drawing, Holds
        <5> QED  BY <1>3, <4>2, <5>1 DEF IInv, OwnNumbers
      <4> QED  BY <4>1, <4>2
    <3> QED  BY <1>1, <2>1, <2>2, <3>1, <3>2 DEF Sound, NewOk, SkuIndexAllows
  <2>3. CASE call[q].id # NoId
    <3>1. CopyOk(call[q])
      BY <2>1, <2>3 DEF Sound
    <3>2. CopyOk(call[q])'
      BY <1>4, <2>1, <3>1 DEF CopyOk
    <3> QED  BY <2>1, <2>3, <3>2 DEF Sound
  <2> QED  BY <2>2, <2>3
<1>8. RequestsOk'
  <2>1. Sound(call[p])'
    BY <1>2 DEF Sound, NewOk, NoCall, NoId
  <2> QED  BY <1>7, <2>1 DEF RequestsOk
<1>9. OwnNumbers'
  <2>1. \A q \in Drawing' : q \in Drawing /\ call'[q] = call[q]
    BY <1>2 DEF Drawing, NoCall
  <2> QED  BY <2>1 DEF OwnNumbers, IInv
<1> QED  BY <1>5, <1>6, <1>8, <1>9 DEF IInv

-----------------------------------------------------------------------------
(***************************************************************************)
(* The theorems that hold whatever overlaps.                               *)
(***************************************************************************)

LEMMA StepKeeps == IInv /\ [ItemsNext]_itemsVars => IInv'
<1> SUFFICES ASSUME IInv, [ItemsNext]_itemsVars  PROVE IInv'
  OBVIOUS
<1>1. CASE UNCHANGED itemsVars
  <2>1. item' = item /\ number' = number /\ call' = call
    BY <1>1 DEF itemsVars
  <2>2. ItemRows' = ItemRows /\ Drawing' = Drawing
    BY <2>1 DEF ItemRows, Drawing
  <2> QED
    BY <2>1, <2>2 DEF IInv, ItemsTypeOK, SkusAreDrawn, RequestsOk, Sound, NewOk, CopyOk,
                      SkuIndexAllows, OwnNumbers
<1>2. CASE ItemsNext
  BY <1>2, CreateKeeps, UpdateKeeps, AskKeeps, DrawKeeps, SelectKeeps, SaveKeeps, FailsKeeps
     DEF ItemsNext
<1> QED  BY <1>1, <1>2

LEMMA Invariant == ItemsSpec => []IInv
<1>1. ItemsInit => IInv
  BY InitHolds DEF NInv
<1> QED  BY <1>1, StepKeeps, PTL DEF ItemsSpec

\* The rows of the table and what requests hold keep their types, and every
\* item has a SKU (InventoryItem, InventoryItemEntity).
THEOREM ItemTypes == ItemsSpec => []ItemsTypeOK
<1>1. IInv => ItemsTypeOK
  BY DEF IInv
<1> QED  BY <1>1, Invariant, PTL

\* The number a creation drew is nobody else's, so the UNIQUE of sku never
\* rejects an item (nextSkuSequence).
THEOREM SkusAreFresh == ItemsSpec => []SkuIsFresh
<1>1. IInv => SkuIsFresh
  BY DEF IInv, SkuIsFresh, OwnNumbers, RequestsOk, Sound, NewOk, Drawing
<1> QED  BY <1>1, Invariant, PTL

\* A save writes items of the business that asks, and never moves one nor
\* changes its SKU, although its only WHERE is the id (save, findById).
THEOREM BusinessesStayApart == ItemsSpec => WritesItsOwn
<1> DEFINE Own ==
      \A p \in Caller, i \in ItemId :
        CallAt(p, "commit") /\ ~CallAt(p, "commit")' /\ item'[i] # item[i] =>
          /\ item'[i].business = call[p].business
          /\ i \in ItemRows => /\ item'[i].business = item[i].business
                           /\ item'[i].sku = item[i].sku
<1>1. IInv /\ [ItemsNext]_itemsVars => [Own]_itemsVars
  <2> SUFFICES ASSUME IInv, ItemsNext, NEW p \in Caller, NEW i \in ItemId,
                      CallAt(p, "commit"), ~CallAt(p, "commit")', item'[i] # item[i]
               PROVE  /\ item'[i].business = call[p].business
                      /\ i \in ItemRows => /\ item'[i].business = item[i].business
                                       /\ item'[i].sku = item[i].sku
    BY DEF Own
  <2>1. PICK q \in Caller : CommitItem(q)
    BY DEF ItemsNext, CreateItem, UpdateItem, AskName, DrawSku, SelectItem, CallFails
  <2>2. q = p
    BY <2>1 DEF CommitItem, CallEnds, CallGoes, CallAt, IInv, ItemsTypeOK
  <2>3. \E j \in ItemId : Inserts(p, j) \/ Overwrites(p, j)
    BY <2>1, <2>2, SaveDoes
  <2>4. item'[i].business = call[p].business
    BY <2>3 DEF Inserts, Overwrites, IInv, ItemsTypeOK
  <2>5. i \in ItemRows => item'[i].business = item[i].business /\ item'[i].sku = item[i].sku
    BY <2>1, SaveSettles
  <2> QED  BY <2>4, <2>5
<1> QED  BY <1>1, Invariant, PTL DEF ItemsSpec, WritesItsOwn

-----------------------------------------------------------------------------
(***************************************************************************)
(* Names, when requests do not overlap: what the question answered still   *)
(* holds when the item is saved, and the row has not changed since it was  *)
(* read, so the save writes the whole copy.                                *)
(***************************************************************************)

\* A step that leaves the table leaves what it said of names.
LEMMA NamesStay ==
  ASSUME NInv, OneAtATime, NEW p \in Caller, UNCHANGED item, IInv', AskedOk(call[p])'
  PROVE  NInv'
  BY DEF NInv, NamesDiffer, OneAtATime, ItemRows

\* One request at a time: the name is free from the answer to the save.
LEMMA AskedStays ==
  ASSUME NInv, NEW p \in Caller,
         AskName(p) \/ DrawSku(p) \/ SelectItem(p)
  PROVE  AskedOk(call[p])'
<1> DEFINE r == call[p]
           s == call'[p]
<1>1. /\ r \in CallRow /\ Sound(r) /\ AskedOk(r)
      /\ call \in [Caller -> CallRow]
  BY DEF NInv, IInv, ItemsTypeOK, RequestsOk
<1>2. item' = item /\ ItemRows' = ItemRows
  BY DEF AskName, DrawSku, SelectItem, ItemRows
<1>3. CASE AskName(p)
  <2>1. CASE CallEnds(p)
    BY <1>1, <2>1 DEF CallEnds, CallGoes, NoCall, AskedOk
  <2>2. CASE ~NameIsTaken(r.copy.name, r.business)
             /\ CallGoes(p, [r EXCEPT !.step = IF r.id = NoId THEN "sku" ELSE "save"])
    <3>1. s.id = r.id /\ s.copy = r.copy /\ s.business = r.business /\ s.step # "commit"
      BY <1>1, <2>2 DEF CallGoes, CallRow
    <3>2. \A i \in FoundIn(r.business) : item[i].name # r.copy.name
      BY <2>2 DEF NameIsTaken
    <3> QED  BY <1>2, <3>1, <3>2 DEF AskedOk, NameIsTaken, FoundIn
  <2> QED  BY <1>3, <2>1, <2>2 DEF AskName
<1>4. CASE DrawSku(p)
  <2>1. r.step = "sku" /\ r.id = NoId /\ r.copy \in ItemRow
    BY <1>1, <1>4 DEF DrawSku, CallAt, Sound, NewOk, CopyOk
  <2>2. s.id = r.id /\ s.business = r.business /\ s.copy.name = r.copy.name
    BY <1>1, <1>4, <2>1 DEF DrawSku, CallGoes, CallRow, ItemRow
  <2>3. ~NameIsTaken(r.copy.name, r.business)
    BY <1>1, <2>1 DEF AskedOk
  <2> QED  BY <1>2, <2>1, <2>2, <2>3 DEF AskedOk, NameIsTaken, FoundIn
<1>5. CASE SelectItem(p)
  <2>1. r.step = "save"
    BY <1>5 DEF SelectItem, CallAt
  <2>2. /\ s.id = r.id /\ s.business = r.business /\ s.copy = r.copy
        /\ s.id # NoId => s.seen = item[s.id]
    BY <1>1, <1>5 DEF SelectItem, CallGoes, CallRow
  <2> QED  BY <1>1, <1>2, <2>1, <2>2 DEF AskedOk, NameIsTaken, FoundIn
<1> QED  BY <1>3, <1>4, <1>5

\* An update that does not ask keeps the name of its row.
LEMMA StartIsAsked ==
  ASSUME NInv, NEW p \in Caller, CreateItem(p) \/ UpdateItem(p) \/ CallFails(p)
  PROVE  AskedOk(call[p])'
<1>1. call \in [Caller -> CallRow] /\ item' = item /\ ItemRows' = ItemRows
  BY DEF NInv, IInv, ItemsTypeOK, CreateItem, UpdateItem, CallFails, ItemRows
<1>2. CASE CreateItem(p)
  <2>1. call'[p].step = "name"
    BY <1>1, <1>2 DEF CreateItem, CallGoes
  <2> QED  BY <2>1 DEF AskedOk
<1>3. CASE CallFails(p)
  BY <1>1, <1>3 DEF CallFails, CallEnds, CallGoes, NoCall, AskedOk
<1>4. CASE UpdateItem(p)
  <2>1. PICK b \in Business : \E i \in FoundIn(b), n \in Name, u \in Unit, step \in {"name", "save"} :
          /\ step = "save" => n = item[i].name
          /\ CallGoes(p, [step |-> step, business |-> b, id |-> i,
                      copy |-> Renamed(item[i], n, u), seen |-> None])
    BY <1>4 DEF UpdateItem
  <2>2. PICK i \in FoundIn(b), n \in Name, u \in Unit, step \in {"name", "save"} :
          /\ step = "save" => n = item[i].name
          /\ CallGoes(p, [step |-> step, business |-> b, id |-> i,
                      copy |-> Renamed(item[i], n, u), seen |-> None])
    BY <2>1
  <2>3. i \in ItemRows /\ i # NoId /\ item[i] \in ItemRow /\ item[i].business = b
    BY ItemBounds DEF FoundIn, ItemRows, NInv, IInv, ItemsTypeOK, ItemId, NoId
  <2>4. /\ call'[p].step = step /\ call'[p].id = i /\ call'[p].business = b
        /\ call'[p].copy = Renamed(item[i], n, u)
    BY <1>1, <2>2 DEF CallGoes
  <2>5. call'[p].copy.name = n
    BY <2>3, <2>4, ChangedKeeps
  <2>6. step = "save" => \A j \in FoundIn(b) \ {i} : item[j].name # n
    BY <2>2, <2>3 DEF NInv, NamesDiffer, FoundIn
  <2> QED  BY <1>1, <2>3, <2>4, <2>5, <2>6 DEF AskedOk, FoundIn
<1> QED  BY <1>2, <1>3, <1>4

\* The row is what was read, so what is written is the copy.
LEMMA WrittenIsCopy ==
  ASSUME NEW row \in ItemRow, NEW copy \in ItemRow  PROVE Written(row, row, copy).name = copy.name
  BY DEF Written, ItemRow

LEMMA SaveNames ==
  ASSUME NInv, OneAtATime, NEW p \in Caller, CommitItem(p)  PROVE NInv'
<1> DEFINE r == call[p]
<1>1. IInv /\ IInv'
  BY SaveKeeps DEF NInv
<1>2. AskedOk(call[p])'
  BY <1>1 DEF CommitItem, CallEnds, CallGoes, NoCall, AskedOk, IInv, ItemsTypeOK
<1>3. r.step = "commit" /\ AskedOk(r) /\ Sound(r)
  BY <1>1 DEF CommitItem, CallAt, NInv, IInv, RequestsOk
<1>4. CASE item' = item
  BY <1>1, <1>2, <1>4, NamesStay
<1>5. ASSUME NEW k \in ItemId, Inserts(p, k) \/ Overwrites(p, k)
      PROVE  /\ ItemRows' = ItemRows \cup {k}
             /\ item'[k].business = r.business
             /\ \A i \in ItemRows \ {k} : item'[i] = item[i]
             /\ \A i \in FoundIn(r.business) \ {k} : item[i].name # item'[k].name
  <2>1. item \in [ItemId -> ItemRow \cup {None}] /\ None \notin ItemRow
    BY <1>1, NoneIsNoItem DEF IInv, ItemsTypeOK
  <2>2. CASE Inserts(p, k)
    <3>1. item'[k] = r.copy /\ r.copy.business = r.business /\ r.id = NoId /\ r.copy \in ItemRow
      BY <2>1, <2>2 DEF Inserts, Holds
    <3>2. ~NameIsTaken(r.copy.name, r.business)
      BY <1>3, <3>1 DEF AskedOk
    <3>3. \A i \in ItemId \ {k} : item'[i] = item[i]
      BY <2>1, <2>2 DEF Inserts
    <3>4. ItemRows' = ItemRows \cup {k}
      BY <2>1, <3>1, <3>3 DEF ItemRows
    <3> QED  BY <3>1, <3>2, <3>3, <3>4 DEF NameIsTaken, ItemRows
  <2>3. CASE Overwrites(p, k)
    <3>1. k = r.id /\ k \in ItemRows /\ item[k].business = r.business
          /\ item'[k] \in ItemRow /\ item'[k].business = item[k].business
      BY <2>3 DEF Overwrites
    <3>2. r.id # NoId /\ item[k] \in ItemRow
      BY <2>1, <3>1, ItemBounds DEF ItemRows, ItemId, NoId
    <3>3. r.seen = item[k] /\ r.copy \in ItemRow
      BY <1>3, <3>1, <3>2 DEF AskedOk, Sound, CopyOk
    <3>4. item'[k] = Written(item[k], r.seen, r.copy)
      BY <2>1, <2>3 DEF Overwrites
    <3>5. item'[k].name = r.copy.name
      BY <3>2, <3>3, <3>4, WrittenIsCopy
    <3>6. \A i \in FoundIn(r.business) \ {k} : item[i].name # r.copy.name
      BY <1>3, <3>1, <3>2 DEF AskedOk
    <3>7. \A i \in ItemId \ {k} : item'[i] = item[i]
      BY <2>1, <2>3 DEF Overwrites
    <3>8. ItemRows' = ItemRows \cup {k}
      BY <2>1, <3>1, <3>7 DEF ItemRows
    <3> QED  BY <3>1, <3>5, <3>6, <3>7, <3>8 DEF ItemRows
  <2> QED  BY <1>5, <2>2, <2>3
<1>6. CASE \E k \in ItemId : Inserts(p, k) \/ Overwrites(p, k)
  <2>1. PICK k \in ItemId : Inserts(p, k) \/ Overwrites(p, k)
    BY <1>6
  <2>2. /\ ItemRows' = ItemRows \cup {k}
        /\ item'[k].business = r.business
        /\ \A i \in ItemRows \ {k} : item'[i] = item[i]
        /\ \A i \in FoundIn(r.business) \ {k} : item[i].name # item'[k].name
    BY <1>5, <2>1
  <2>3. NamesDiffer'
    BY <2>2 DEF NamesDiffer, NInv, FoundIn
  <2> QED  BY <1>1, <1>2, <2>3 DEF NInv, OneAtATime
<1> QED  BY <1>1, <1>4, <1>6, SaveDoes

\* Requests that do not overlap never give two items of a business one name:
\* no index sees to that, only the question each asks before it writes
\* (existsByName).
THEOREM NamesAlwaysDiffer ==
  ASSUME OneAtATime  PROVE ItemsSpec => []NamesDiffer
<1>1. NInv /\ [ItemsNext]_itemsVars => NInv'
  <2> SUFFICES ASSUME NInv, [ItemsNext]_itemsVars  PROVE NInv'
    OBVIOUS
  <2>1. IInv'
    BY StepKeeps DEF NInv
  <2>2. CASE UNCHANGED itemsVars
    <3>1. item' = item /\ call' = call /\ ItemRows' = ItemRows
      BY <2>2 DEF itemsVars, ItemRows
    <3> QED  BY <2>1, <3>1 DEF NInv, NamesDiffer, AskedOk, NameIsTaken, FoundIn
  <2>3. CASE ItemsNext
    <3>1. PICK p \in Caller :
            \/ CreateItem(p) \/ UpdateItem(p) \/ AskName(p) \/ DrawSku(p)
            \/ SelectItem(p) \/ CommitItem(p) \/ CallFails(p)
      BY <2>3 DEF ItemsNext
    <3>2. CASE CommitItem(p)
      BY <3>2, OneAtATime, SaveNames
    <3>3. CASE CreateItem(p) \/ UpdateItem(p) \/ CallFails(p)
      <4>1. UNCHANGED item
        BY <3>3 DEF CreateItem, UpdateItem, CallFails
      <4> QED  BY <2>1, <3>3, <4>1, OneAtATime, StartIsAsked, NamesStay
    <3>4. CASE AskName(p) \/ DrawSku(p) \/ SelectItem(p)
      <4>1. UNCHANGED item
        BY <3>4 DEF AskName, DrawSku, SelectItem
      <4> QED  BY <2>1, <3>4, <4>1, OneAtATime, AskedStays, NamesStay
    <3> QED  BY <3>1, <3>2, <3>3, <3>4
  <2> QED  BY <2>2, <2>3
<1>2. NInv => NamesDiffer
  BY DEF NInv
<1> QED  BY <1>1, <1>2, InitHolds, PTL DEF ItemsSpec

=============================================================================
