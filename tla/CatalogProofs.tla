--------------------------- MODULE CatalogProofs ----------------------------
(***************************************************************************)
(* What holds of the catalogue for any number of requests, businesses and  *)
(* rows.                                                                   *)
(*                                                                         *)
(* None of the properties is inductive: what a request writes was decided  *)
(* when it read, so the invariant has to say of every copy in flight what  *)
(* the questions already answered guarantee (RequestOK), and that later    *)
(* writes of others do not undo it: rows are never removed, never change   *)
(* their business or their SKU, and the sequence only grows.               *)
(***************************************************************************)
EXTENDS Catalog, TLAPS

Requests == [step : Step, kind : Kind, id : Nat, copy : Copy]

\* Row i is there and is of the business and the SKU of the copy.
IsCopyOf(copy, i) ==
  /\ i \in Rows(product)
  /\ product[i].business = copy.business
  /\ product[i].sku = copy.sku

\* What a request that writes a category has found out.
CategoryRequestOK(r) ==
  /\ r.step \in {"name", "write"}
  /\ r.copy \in CategoryRow
  /\ r.id # NoId =>
       r.id \in Rows(category) /\ category[r.id].business = r.copy.business

\* What a request that writes a product has found out.
ProductRequestOK(r) ==
  /\ r.copy \in ProductRow
  /\ r.id # NoId => IsCopyOf(r.copy, r.id) /\ r.copy.offer \in Fitting
  /\ r.step \in {"name", "sku"} => r.id = NoId
  /\ r.step = "category" => r.id # NoId
  /\ r.step # "category" => r.copy.category \in CategoriesOf(r.copy.business)
  /\ r.step = "write" => r.copy.offer \in Fitting /\ r.copy.sku \in 1 .. sku

RequestOK(r) ==
  /\ r \in Requests
  /\ r.step # "idle" /\ r.kind = "category" => CategoryRequestOK(r)
  /\ r.step # "idle" /\ r.kind = "product" => ProductRequestOK(r)

\* Every stored SKU was drawn from the sequence, and for one product only.
SkusAreDrawn ==
  /\ \A i \in Rows(product) : product[i].sku \in 1 .. sku
  /\ \A i, j \in Rows(product) : i # j => product[i].sku # product[j].sku

TablesOK ==
  /\ category \in [CategoryId -> CategoryRow \cup {None}]
  /\ product \in [ProductId -> ProductRow \cup {None}]
  /\ sku \in 0 .. MaxSku

RequestsOK ==
  /\ request \in [Request -> Requests]
  /\ \A p \in Request : RequestOK(request[p])

\* The inductive invariant.
IInv ==
  /\ TablesOK
  /\ RequestsOK
  /\ SkusAreDrawn
  /\ PricesFit
  /\ CategoryIsOwn
  /\ SkuIsFresh
  /\ CategoryNamesDiffer

-----------------------------------------------------------------------------
\* Rows hold rows.
LEMMA RowsAreRows ==
  ASSUME TablesOK
  PROVE  /\ \A c \in Rows(category) : c \in CategoryId /\ category[c] \in CategoryRow
         /\ \A i \in Rows(product) : i \in ProductId /\ product[i] \in ProductRow
  BY DEF TablesOK, Rows

\* Initially there is nothing to be wrong.
LEMMA InitOK == Init => IInv
<1> SUFFICES ASSUME Init PROVE IInv
  OBVIOUS
<1>1. Rows(category) = {} /\ Rows(product) = {}
  BY DEF Init, Rows
<1>2. TablesOK
  BY CatalogBounds, SMT DEF Init, TablesOK
<1>3. RequestsOK
  <2>1. Idle \in Requests
    BY DEF Idle, Requests, Step, Kind, Copy, NoId
  <2>2. RequestOK(Idle)
    BY <2>1 DEF RequestOK, Idle
  <2> QED
    BY <2>1, <2>2 DEF Init, RequestsOK
<1>4. SkuIsFresh
  BY DEF Init, Idle, SkuIsFresh, IsAt
<1> QED
  BY <1>1, <1>2, <1>3, <1>4 DEF IInv, SkusAreDrawn, PricesFit, CategoryIsOwn, CategoryNamesDiffer

\* A request moves on, or ends, and the tables stay.
LEMMA RequestMoves ==
  ASSUME IInv, UNCHANGED <<category, product, sku>>,
         NEW p \in Request, NEW r, RequestOK(r),
         request' = [request EXCEPT ![p] = r],
         ~(r.step = "write" /\ r.kind = "product" /\ r.id = NoId)
  PROVE  IInv'
<1>1. Rows(category)' = Rows(category) /\ Rows(product)' = Rows(product)
  BY DEF Rows
<1>2. /\ request' \in [Request -> Requests]
      /\ \A q \in Request : request'[q] = IF q = p THEN r ELSE request[q]
  BY DEF IInv, RequestsOK, RequestOK
<1>3. \A q \in Request : RequestOK(request'[q])
  BY <1>2 DEF IInv, RequestsOK
<1>4. RequestsOK'
  BY <1>1, <1>2, <1>3 DEF RequestsOK, RequestOK, CategoryRequestOK, ProductRequestOK, IsCopyOf,
     CategoriesOf, IInv
<1>5. SkuIsFresh'
  <2> SUFFICES ASSUME NEW s \in Request,
                      request'[s].step = "write", request'[s].kind = "product",
                      request'[s].id = NoId
               PROVE  /\ \A i \in Rows(product) : product[i].sku # request'[s].copy.sku
                      /\ \A q \in Request \ {s} :
                           request'[q].step = "write" /\ request'[q].kind = "product" =>
                             request'[q].copy.sku # request'[s].copy.sku
    BY <1>1 DEF SkuIsFresh, IsAt
  <2>1. s # p /\ request'[s] = request[s]
    BY <1>2
  <2>2. \A i \in Rows(product) : product[i].sku # request[s].copy.sku
    BY <2>1 DEF IInv, SkuIsFresh, IsAt
  <2>3. ASSUME NEW q \in Request \ {s}, request'[q].step = "write", request'[q].kind = "product"
        PROVE  request'[q].copy.sku # request'[s].copy.sku
    <3>1. CASE q = p
      <4>1. IsCopyOf(r.copy, r.id)
        BY <1>2, <2>3, <3>1 DEF RequestOK, ProductRequestOK
      <4> QED
        BY <1>2, <2>1, <2>2, <3>1, <4>1 DEF IsCopyOf
    <3>2. CASE q # p
      BY <1>2, <2>1, <2>3, <3>2 DEF IInv, SkuIsFresh, IsAt
    <3> QED
      BY <3>1, <3>2
  <2> QED
    BY <2>1, <2>2, <2>3
<1> QED
  BY <1>1, <1>4, <1>5 DEF IInv, TablesOK, SkusAreDrawn, PricesFit, CategoryIsOwn,
     CategoryNamesDiffer, CategoriesOf

\* A request in no step has nothing to be wrong with.
LEMMA IdleIsOK == RequestOK(Idle)
  BY DEF RequestOK, Idle, Requests, Step, Kind, Copy, NoId

-----------------------------------------------------------------------------
(***************************************************************************)
(* One lemma per action.                                                   *)
(***************************************************************************)

\* Dying, or being answered, leaves nothing behind.
LEMMA EndsOK ==
  ASSUME IInv, UNCHANGED <<category, product, sku>>, NEW p \in Request, Ends(p)
  PROVE  IInv'
  BY RequestMoves, IdleIsOK DEF Ends, Idle

LEMMA CreateCategoryOK ==
  ASSUME IInv, NEW p \in Request, NEW b \in Business, CreateCategory(p, b)
  PROVE  IInv'
<1>1. PICK n \in CategoryName :
        Goes(p, "write", "category", NoId, [business |-> b, name |-> n, active |-> TRUE])
  BY DEF CreateCategory, NewCategory
<1> DEFINE r == [step |-> "write", kind |-> "category", id |-> NoId,
                 copy |-> [business |-> b, name |-> n, active |-> TRUE]]
<1>2. r.copy \in CategoryRow
  BY DEF CategoryRow
<1>3. RequestOK(r)
  BY <1>2 DEF RequestOK, CategoryRequestOK, Requests, Step, Kind, Copy, NoId
<1>4. request' = [request EXCEPT ![p] = r] /\ r.kind # "product"
  BY <1>1 DEF Goes
<1> HIDE DEF r
<1> QED
  BY <1>3, <1>4, RequestMoves DEF CreateCategory

LEMMA UpdateCategoryOK ==
  ASSUME IInv, NEW p \in Request, NEW c \in CategoryId, UpdateCategory(p, c)
  PROVE  IInv'
<1>1. PICK n \in CategoryName, a \in BOOLEAN, step \in {"name", "write"} :
        Goes(p, step, "category", c, [category[c] EXCEPT !.name = n, !.active = a])
  BY DEF UpdateCategory, ChangedCategory
<1> DEFINE copy == [category[c] EXCEPT !.name = n, !.active = a]
           r == [step |-> step, kind |-> "category", id |-> c, copy |-> copy]
<1>2. c \in Rows(category) /\ category[c] \in CategoryRow
  BY RowsAreRows DEF UpdateCategory, IInv
<1>3. copy \in CategoryRow /\ copy.business = category[c].business
  BY <1>2 DEF CategoryRow
<1>4. request' = [request EXCEPT ![p] = r] /\ r.kind # "product"
  BY <1>1 DEF Goes
<1> HIDE DEF copy
<1>5. RequestOK(r)
  BY <1>2, <1>3 DEF RequestOK, CategoryRequestOK, Requests, Step, Kind, Copy, CategoryId
<1> HIDE DEF r
<1> QED
  BY <1>4, <1>5, RequestMoves DEF UpdateCategory

LEMMA CreateProductOK ==
  ASSUME IInv, NEW p \in Request, NEW b \in Business, NEW c \in CategoryId,
         CreateProduct(p, b, c)
  PROVE  IInv'
<1>1. PICK n \in ProductName, o \in Offer :
        Goes(p, "name", "product", NoId,
             [business |-> b, category |-> c, name |-> n,
              offer |-> o, sku |-> NoSku, status |-> "ACTIVE"])
  BY DEF CreateProduct, NewProduct
<1> DEFINE copy == [business |-> b, category |-> c, name |-> n,
                    offer |-> o, sku |-> NoSku, status |-> "ACTIVE"]
           r == [step |-> "name", kind |-> "product", id |-> NoId, copy |-> copy]
<1>2. copy \in ProductRow
  BY CatalogBounds, SMT DEF ProductRow, NoSku, Status
<1>3. copy.category \in CategoriesOf(copy.business)
  BY DEF CreateProduct, ExistsForTenant
<1>4. request' = [request EXCEPT ![p] = r] /\ r.step # "write"
  BY <1>1 DEF Goes
<1> HIDE DEF copy
<1>5. RequestOK(r)
  BY <1>2, <1>3 DEF RequestOK, ProductRequestOK, Requests, Step, Kind, Copy, NoId
<1> HIDE DEF r
<1> QED
  BY <1>4, <1>5, RequestMoves DEF CreateProduct

\* A product that is found is a row, and its copy is of its business and SKU.
LEMMA CopyOfFound ==
  ASSUME IInv, NEW i \in Found, NEW copy \in ProductRow,
         copy.business = product[i].business, copy.sku = product[i].sku
  PROVE  /\ IsCopyOf(copy, i)
         /\ i \in Nat \ {NoId}
         /\ copy.sku \in 1 .. sku
<1>1. i \in Rows(product) /\ i \in ProductId
  BY RowsAreRows DEF Found, Shown, IInv
<1>2. i \in Nat \ {NoId}
  BY <1>1, CatalogBounds, SMT DEF ProductId, NoId
<1> QED
  BY <1>1, <1>2 DEF IsCopyOf, IInv, SkusAreDrawn

LEMMA UpdateProductOK ==
  ASSUME IInv, NEW p \in Request, NEW i \in ProductId, UpdateProduct(p, i)
  PROVE  IInv'
<1>1. PICK c \in CategoryId, n \in ProductName, o \in Offer, s \in StatusAfter(product[i].status) :
        /\ UpdateAccepts(o)
        /\ Goes(p, IF c = product[i].category THEN "write" ELSE "category", "product", i,
                [ChangedProduct(product[i], c, n, o) EXCEPT !.status = s])
  BY DEF UpdateProduct
<1> DEFINE copy == [ChangedProduct(product[i], c, n, o) EXCEPT !.status = s]
           step == IF c = product[i].category THEN "write" ELSE "category"
           r == [step |-> step, kind |-> "product", id |-> i, copy |-> copy]
<1>2. i \in Found /\ i \in Rows(product) /\ product[i] \in ProductRow
  BY RowsAreRows DEF UpdateProduct, Found, Shown, IInv
<1>3. s \in Status
  <2>1. product[i].status \in Status
    BY <1>2 DEF ProductRow
  <2> QED
    BY <1>1, <2>1 DEF StatusAfter, Transitions, Status
<1>4. /\ copy \in ProductRow
      /\ copy.business = product[i].business /\ copy.sku = product[i].sku
      /\ copy.offer = o /\ copy.category = c
  BY <1>2, <1>3 DEF ProductRow, ChangedProduct
<1>5. request' = [request EXCEPT ![p] = r]
  BY <1>1 DEF Goes
<1> HIDE DEF copy
<1>6. IsCopyOf(copy, i) /\ i \in Nat \ {NoId} /\ copy.sku \in 1 .. sku
  BY <1>2, <1>4, CopyOfFound
<1>7. step # "category" => copy.category \in CategoriesOf(copy.business)
  BY <1>2, <1>4 DEF IInv, CategoryIsOwn
<1>8. copy.offer \in Fitting
  BY <1>1, <1>4 DEF UpdateAccepts
<1>9. step \in {"write", "category"}
  OBVIOUS
<1> HIDE DEF step
<1>10. RequestOK(r)
  BY <1>4, <1>6, <1>7, <1>8, <1>9 DEF RequestOK, ProductRequestOK, Requests, Step, Kind, Copy
<1>11. r.id # NoId
  BY <1>6
<1> HIDE DEF r
<1> QED
  BY <1>5, <1>10, <1>11, RequestMoves DEF UpdateProduct

LEMMA DeleteProductOK ==
  ASSUME IInv, NEW p \in Request, NEW i \in ProductId, DeleteProduct(p, i)
  PROVE  IInv'
<1> DEFINE copy == [product[i] EXCEPT !.status = "DELETED"]
           r == [step |-> "write", kind |-> "product", id |-> i, copy |-> copy]
<1>1. i \in Found /\ i \in Rows(product) /\ product[i] \in ProductRow
  BY RowsAreRows DEF DeleteProduct, Found, Shown, IInv
<1>2. /\ copy \in ProductRow
      /\ copy.business = product[i].business /\ copy.sku = product[i].sku
      /\ copy.offer = product[i].offer /\ copy.category = product[i].category
  BY <1>1 DEF ProductRow, Status
<1>3. request' = [request EXCEPT ![p] = r]
  BY DEF Goes, DeleteProduct, Deleted
<1> HIDE DEF copy
<1>4. IsCopyOf(copy, i) /\ i \in Nat \ {NoId} /\ copy.sku \in 1 .. sku
  BY <1>1, <1>2, CopyOfFound
<1>5. copy.category \in CategoriesOf(copy.business) /\ copy.offer \in Fitting
  BY <1>1, <1>2 DEF IInv, CategoryIsOwn, PricesFit
<1>6. RequestOK(r)
  BY <1>2, <1>4, <1>5 DEF RequestOK, ProductRequestOK, Requests, Step, Kind, Copy
<1>7. r.id # NoId
  BY <1>4
<1> HIDE DEF r
<1> QED
  BY <1>3, <1>6, <1>7, RequestMoves DEF DeleteProduct

\* A request that only changes its step.
LEMMA ToIsGoes ==
  ASSUME IInv, NEW p \in Request, NEW step, To(p, step)
  PROVE  request' = [request EXCEPT ![p] =
           [step |-> step, kind |-> request[p].kind, id |-> request[p].id, copy |-> request[p].copy]]
<1>1. request[p] \in Requests
  BY DEF IInv, RequestsOK
<1>2. [request[p] EXCEPT !.step = step] =
        [step |-> step, kind |-> request[p].kind, id |-> request[p].id, copy |-> request[p].copy]
  BY <1>1 DEF Requests
<1> QED
  BY <1>2 DEF To

\* Only the product of an update asks about its category.
LEMMA AsksCategory ==
  ASSUME IInv, NEW p \in Request, IsAt(p, "category")
  PROVE  request[p].kind = "product"
  BY DEF IInv, RequestsOK, RequestOK, CategoryRequestOK, Requests, Kind, IsAt

LEMMA AskCategoryOK ==
  ASSUME IInv, NEW p \in Request, AskCategory(p)
  PROVE  IInv'
<1>1. CASE Ends(p)
  BY <1>1, EndsOK DEF AskCategory
<1>2. CASE /\ To(p, "write")
           /\ ExistsForTenant(request[p].copy.category, request[p].copy.business)
  <2> DEFINE r == [step |-> "write", kind |-> request[p].kind, id |-> request[p].id,
                   copy |-> request[p].copy]
  <2>1. request' = [request EXCEPT ![p] = r]
    BY <1>2, ToIsGoes
  <2>2. ProductRequestOK(request[p]) /\ request[p].step = "category"
    BY AsksCategory DEF AskCategory, IsAt, IInv, RequestsOK, RequestOK
  <2>3. /\ request[p].id # NoId
        /\ request[p] \in Requests
        /\ request[p].kind = "product"
    BY <2>2, AsksCategory DEF ProductRequestOK, AskCategory, IInv, RequestsOK
  <2>4. request[p].copy.sku \in 1 .. sku
    BY <2>2, <2>3 DEF ProductRequestOK, IsCopyOf, IInv, SkusAreDrawn
  <2>5. RequestOK(r)
    BY <1>2, <2>2, <2>3, <2>4 DEF RequestOK, ProductRequestOK, ExistsForTenant, Requests, Step
  <2>6. r.id # NoId
    BY <2>3
  <2> HIDE DEF r
  <2> QED
    BY <2>1, <2>5, <2>6, RequestMoves DEF AskCategory
<1> QED
  BY <1>1, <1>2 DEF AskCategory

LEMMA AskNameOK ==
  ASSUME IInv, NEW p \in Request, AskName(p)
  PROVE  IInv'
<1>1. RequestOK(request[p]) /\ request[p].step = "name" /\ request[p] \in Requests
  BY DEF AskName, IsAt, IInv, RequestsOK
<1>2. CASE Ends(p)
  BY <1>2, EndsOK DEF AskName
<1>3. CASE To(p, "sku") /\ request[p].kind = "product"
  <2> DEFINE r == [step |-> "sku", kind |-> request[p].kind, id |-> request[p].id,
                   copy |-> request[p].copy]
  <2>1. request' = [request EXCEPT ![p] = r]
    BY <1>3, ToIsGoes
  <2>2. RequestOK(r)
    BY <1>1, <1>3 DEF RequestOK, ProductRequestOK, Requests, Step
  <2>3. r.step # "write"
    OBVIOUS
  <2> HIDE DEF r
  <2> QED
    BY <2>1, <2>2, <2>3, RequestMoves DEF AskName
<1>4. CASE To(p, "write") /\ request[p].kind # "product"
  <2> DEFINE r == [step |-> "write", kind |-> request[p].kind, id |-> request[p].id,
                   copy |-> request[p].copy]
  <2>1. request' = [request EXCEPT ![p] = r]
    BY <1>4, ToIsGoes
  <2>2. RequestOK(r)
    BY <1>1, <1>4 DEF RequestOK, CategoryRequestOK, Requests, Step
  <2>3. r.kind # "product"
    BY <1>4
  <2> HIDE DEF r
  <2> QED
    BY <2>1, <2>2, <2>3, RequestMoves DEF AskName
<1>5. \/ Ends(p)
      \/ To(p, "sku") /\ request[p].kind = "product"
      \/ To(p, "write") /\ request[p].kind # "product"
  BY DEF AskName
<1> QED
  BY <1>2, <1>3, <1>4, <1>5

\* Rows are never removed, and keep what identifies them.
Grows ==
  /\ \A c \in Rows(category) :
       c \in Rows(category)' /\ category'[c].business = category[c].business
  /\ \A i \in Rows(product) :
       /\ i \in Rows(product)'
       /\ product'[i].business = product[i].business
       /\ product'[i].sku = product[i].sku
  /\ sku' \in Nat /\ sku <= sku'

\* What a request has found out stays true while the tables grow.
LEMMA RequestStaysOK ==
  ASSUME IInv, Grows, NEW r, RequestOK(r)
  PROVE  RequestOK(r)'
<1>1. \A b : CategoriesOf(b) \subseteq CategoriesOf(b)'
  BY DEF Grows, CategoriesOf
<1>2. 1 .. sku \subseteq 1 .. sku'
  BY SMT DEF Grows, IInv, TablesOK
<1>3. CategoryRequestOK(r) => CategoryRequestOK(r)'
  BY DEF Grows, CategoryRequestOK
<1>4. ProductRequestOK(r) => ProductRequestOK(r)'
  <2>1. \A copy, i : IsCopyOf(copy, i) => IsCopyOf(copy, i)'
    BY DEF Grows, IsCopyOf
  <2> QED
    BY <1>1, <1>2, <2>1 DEF ProductRequestOK
<1> QED
  BY <1>3, <1>4 DEF RequestOK

\* The requests of the others stay right.
LEMMA RequestsStayOK ==
  ASSUME IInv, Grows, NEW p \in Request, NEW r, RequestOK(r)',
         request' = [request EXCEPT ![p] = r]
  PROVE  RequestsOK'
<1>1. /\ request' \in [Request -> Requests]
      /\ \A q \in Request : request'[q] = IF q = p THEN r ELSE request[q]
  BY DEF IInv, RequestsOK, RequestOK
<1> SUFFICES ASSUME NEW q \in Request
             PROVE  RequestOK(request[q])'
  BY <1>1 DEF RequestsOK
<1>2. PICK k : request'[q] = k /\ RequestOK(k)'
  <2>1. CASE q = p
    BY <1>1, <2>1
  <2>2. CASE q # p
    <3>1. PICK k \in Requests : k = request[q] /\ RequestOK(k)
      BY DEF IInv, RequestsOK
    <3> QED
      BY <1>1, <2>2, <3>1, RequestStaysOK
  <2> QED
    BY <2>1, <2>2
<1> QED
  BY <1>2 DEF RequestOK, CategoryRequestOK, ProductRequestOK, IsCopyOf

\* The number drawn is above every number in use.
LEMMA DrawSkuOK ==
  ASSUME IInv, NEW p \in Request, DrawSku(p)
  PROVE  IInv'
<1>1. sku' = sku + 1 /\ sku \in Nat /\ sku' \in 0 .. MaxSku
  BY CatalogBounds, SMT DEF DrawSku, NextSku, IInv, TablesOK
<1>2. Rows(category)' = Rows(category) /\ Rows(product)' = Rows(product)
  BY DEF DrawSku, Rows
<1>3. /\ RequestOK(request[p])
      /\ request[p].step = "sku"
      /\ request[p] \in Requests
  BY DEF DrawSku, IsAt, IInv, RequestsOK
<1>4. request[p].kind = "product"
  BY <1>3 DEF RequestOK, CategoryRequestOK, Requests, Kind
<1> DEFINE copy == [request[p].copy EXCEPT !.sku = sku + 1]
           w == [step |-> "write", kind |-> "product", id |-> NoId, copy |-> copy]
<1>5. PICK r \in {Idle, w} :
        /\ request' = [request EXCEPT ![p] = r]
        /\ r = w => request[p].copy.offer \in Fitting
  <2>1. CASE request[p].copy.offer \in Fitting
    <3>1. request' = [request EXCEPT ![p] = w]
      BY <2>1 DEF DrawSku, Goes, NextSku
    <3> HIDE DEF w
    <3> QED
      BY <2>1, <3>1
  <2>2. CASE request[p].copy.offer \notin Fitting
    <3>1. request' = [request EXCEPT ![p] = Idle]
      BY <2>2 DEF DrawSku, Ends
    <3>2. Idle # w
      BY DEF Idle
    <3> HIDE DEF w
    <3> QED
      BY <3>1, <3>2
  <2> QED
    BY <2>1, <2>2
<1>6. ProductRequestOK(request[p]) /\ request[p].id = NoId /\ request[p].copy \in ProductRow
  BY <1>3, <1>4 DEF RequestOK, ProductRequestOK
<1>7. /\ copy \in ProductRow
      /\ copy.sku = sku + 1
      /\ copy.offer = request[p].copy.offer
      /\ copy.category = request[p].copy.category
      /\ copy.business = request[p].copy.business
  BY <1>1, <1>6, SMT DEF ProductRow, NoSku
<1>8. RequestOK(r)'
  <2>1. CASE r = Idle
    BY <2>1, IdleIsOK DEF RequestOK, Idle
  <2>2. CASE r = w
    <3>1. r.copy = copy /\ r.step = "write" /\ r.kind = "product" /\ r.id = NoId
      BY <2>2
    <3> HIDE DEF w
    <3>2. r \in Requests
      BY <1>7, <2>2 DEF Requests, Step, Kind, Copy, NoId, w
    <3> HIDE DEF copy
    <3>3. r.copy \in ProductRow /\ r.copy.category \in CategoriesOf(r.copy.business)
      BY <1>3, <1>6, <1>7, <3>1 DEF ProductRequestOK
    <3>4. r.copy.offer \in Fitting
      BY <1>5, <1>7, <2>2, <3>1
    <3>5. r.copy.sku \in 1 .. sku'
      BY <1>1, <1>7, <3>1, SMT
    <3> QED
      BY <1>2, <3>1, <3>2, <3>3, <3>4, <3>5
      DEF RequestOK, ProductRequestOK, CategoriesOf, DrawSku
  <2> QED
    BY <2>1, <2>2
<1>9. \A q \in Request : request'[q] = IF q = p THEN r ELSE request[q]
  BY <1>5 DEF IInv, RequestsOK
<1>10. RequestsOK'
  <2>1. Grows
    BY <1>1, <1>2, SMT DEF Grows, DrawSku
  <2> QED
    BY <1>5, <1>8, <2>1, RequestsStayOK
<1>11. SkusAreDrawn'
  BY <1>1, <1>2, SMT DEF IInv, SkusAreDrawn, DrawSku
\* Whoever is about to write holds a number the sequence gave before.
<1>12. \A q \in Request \ {p} :
         request[q].step = "write" /\ request[q].kind = "product" => request[q].copy.sku \in 1 .. sku
  BY DEF IInv, RequestsOK, RequestOK, ProductRequestOK
<1>13. SkuIsFresh'
  <2> SUFFICES ASSUME NEW s \in Request,
                      request'[s].step = "write", request'[s].kind = "product",
                      request'[s].id = NoId
               PROVE  /\ \A i \in Rows(product) : product[i].sku # request'[s].copy.sku
                      /\ \A q \in Request \ {s} :
                           request'[q].step = "write" /\ request'[q].kind = "product" =>
                             request'[q].copy.sku # request'[s].copy.sku
    BY <1>2 DEF SkuIsFresh, IsAt, DrawSku
  <2>1. CASE s = p
    <3>1. request'[s] = w
      BY <1>5, <1>9, <2>1 DEF Idle
    <3>2. request'[s].copy.sku = sku + 1
      <4>1. w.copy = copy
        OBVIOUS
      <4> HIDE DEF w, copy
      <4> QED
        BY <1>7, <3>1, <4>1
    <3> HIDE DEF w, copy
    <3>3. \A i \in Rows(product) : product[i].sku # sku + 1
      BY <1>1, SMT DEF IInv, SkusAreDrawn
    <3>4. \A q \in Request \ {s} :
            request'[q].step = "write" /\ request'[q].kind = "product" =>
              request'[q].copy.sku # sku + 1
      BY <1>1, <1>9, <1>12, <2>1, SMT
    <3> QED
      BY <3>2, <3>3, <3>4
  <2>2. CASE s # p
    <3>1. request'[s] = request[s]
      BY <1>9, <2>2
    <3>2. request[s].copy.sku # sku + 1
      BY <1>1, <1>12, <2>2, <3>1, SMT
    <3>3. request'[p].step = "write" => request'[p].copy.sku = sku + 1
      <4>1. w.copy = copy
        OBVIOUS
      <4> HIDE DEF w, copy
      <4> QED
        BY <1>5, <1>7, <1>9, <4>1 DEF Idle
    <3> HIDE DEF w, copy
    <3>4. \A q \in Request \ {s, p} : request'[q] = request[q]
      BY <1>9
    <3>5. /\ \A i \in Rows(product) : product[i].sku # request[s].copy.sku
          /\ \A q \in Request \ {s} :
               request[q].step = "write" /\ request[q].kind = "product" =>
                 request[q].copy.sku # request[s].copy.sku
      BY <3>1 DEF IInv, SkuIsFresh, IsAt
    <3> QED
      BY <3>1, <3>2, <3>3, <3>4, <3>5
  <2> QED
    BY <2>1, <2>2
<1>14. TablesOK' /\ PricesFit' /\ CategoryIsOwn' /\ CategoryNamesDiffer'
  BY <1>1, <1>2 DEF IInv, TablesOK, PricesFit, CategoryIsOwn, CategoryNamesDiffer, CategoriesOf, DrawSku
<1> QED
  BY <1>10, <1>11, <1>13, <1>14 DEF IInv

\* A request that has written is no longer about to write.
LEMMA FreshAfterEnding ==
  ASSUME IInv, NEW p \in Request, Ends(p),
         \A s \in Request \ {p} :
           IsAt(s, "write") /\ request[s].kind = "product" /\ request[s].id = NoId =>
             \A i \in Rows(product)' : product'[i].sku # request[s].copy.sku
  PROVE  SkuIsFresh'
<1>1. \A q \in Request : request'[q] = IF q = p THEN Idle ELSE request[q]
  BY DEF IInv, RequestsOK, Ends
<1>2. Idle.step # "write"
  BY DEF Idle
<1> QED
  BY <1>1, <1>2 DEF SkuIsFresh, IsAt, IInv

\* Tables that stay keep their rows.
LEMMA NothingGrows ==
  ASSUME IInv, UNCHANGED <<category, product, sku>>
  PROVE  Grows
<1>1. Rows(category)' = Rows(category) /\ Rows(product)' = Rows(product)
  BY DEF Rows
<1> QED
  BY <1>1, SMT DEF Grows, IInv, TablesOK

LEMMA WriteCategoryOK ==
  ASSUME IInv, NEW p \in Request, WriteCategory(p)
  PROVE  IInv' /\ Grows
<1> DEFINE copy == request[p].copy
           id == request[p].id
<1>1. PICK c \in CategoryId :
        /\ IF id = NoId THEN IsNext(category, c) ELSE c = id
        /\ category' = IF CategoryIndexAllows(c, copy) THEN [category EXCEPT ![c] = copy] ELSE category
  BY DEF WriteCategory
<1>2. Ends(p) /\ UNCHANGED <<product, sku>>
  BY DEF WriteCategory
<1>3. CASE ~CategoryIndexAllows(c, copy)
  <2>1. UNCHANGED <<category, product, sku>>
    BY <1>1, <1>2, <1>3
  <2> QED
    BY <1>2, <2>1, EndsOK, NothingGrows
<1>4. CASE CategoryIndexAllows(c, copy)
  <2>1. CategoryRequestOK(request[p])
    BY DEF WriteCategory, IsAt, IInv, RequestsOK, RequestOK
  <2>2. /\ copy \in CategoryRow /\ copy # None
        /\ c \in Rows(category) => category[c].business = copy.business
    BY <1>1, <2>1, NoneIsNoRow DEF CategoryRequestOK, IsNext
  <2>4. category' = [category EXCEPT ![c] = copy] /\ category \in [CategoryId -> CategoryRow \cup {None}]
    BY <1>1, <1>4 DEF IInv, TablesOK
  <2> HIDE DEF copy, id
  <2>5. /\ DOMAIN category = CategoryId /\ DOMAIN category' = CategoryId
        /\ category'[c] = copy
        /\ \A d \in CategoryId \ {c} : category'[d] = category[d]
    BY <2>4
  <2>6. /\ Rows(category)' = Rows(category) \cup {c}
        /\ \A d \in Rows(category) : category'[d].business = category[d].business
    BY <2>2, <2>5 DEF Rows
  <2>7. Rows(product)' = Rows(product)
    BY <1>2 DEF Rows
  <2>8. Grows
    BY <1>2, <2>6, <2>7, SMT DEF Grows, IInv, TablesOK
  <2>9. RequestOK(Idle)' /\ request' = [request EXCEPT ![p] = Idle]
    BY <1>2, IdleIsOK DEF RequestOK, Idle, Ends
  <2>10. RequestsOK'
    BY <2>8, <2>9, RequestsStayOK
  <2>11. TablesOK'
    BY <1>2, <2>2, <2>4 DEF TablesOK, IInv
  <2>12. SkuIsFresh'
    BY <1>2, <2>7, FreshAfterEnding DEF IInv, SkuIsFresh
  <2>13. CategoryIsOwn'
    BY <1>2, <2>6, <2>7 DEF IInv, CategoryIsOwn, CategoriesOf
  <2>14. CategoryNamesDiffer'
    <3>1. \A d \in Rows(category) \ {c} :
            category[d].business = copy.business => category[d].name # copy.name
      BY <1>4 DEF CategoryIndexAllows, CategoriesOf
    <3>2. Rows(category) \subseteq CategoryId
      BY <2>5 DEF Rows
    <3> QED
      BY <2>5, <2>6, <3>1, <3>2 DEF IInv, CategoryNamesDiffer
  <2> QED
    BY <1>2, <2>7, <2>10, <2>11, <2>12, <2>8, <2>13, <2>14 DEF IInv, SkusAreDrawn, PricesFit
<1> QED
  BY <1>3, <1>4

LEMMA WriteProductOK ==
  ASSUME IInv, NEW p \in Request, WriteProduct(p)
  PROVE  IInv' /\ Grows
<1> DEFINE copy == request[p].copy
           id == request[p].id
<1>1. PICK i \in ProductId :
        /\ IF id = NoId THEN IsNext(product, i) ELSE i = id
        /\ product' = IF SkuIndexAllows(i, copy) THEN [product EXCEPT ![i] = copy] ELSE product
  BY DEF WriteProduct
<1>2. Ends(p) /\ UNCHANGED <<category, sku>>
  BY DEF WriteProduct
<1>3. CASE ~SkuIndexAllows(i, copy)
  <2>1. UNCHANGED <<category, product, sku>>
    BY <1>1, <1>2, <1>3
  <2> QED
    BY <1>2, <2>1, EndsOK, NothingGrows
<1>4. CASE SkuIndexAllows(i, copy)
  <2>1. ProductRequestOK(request[p]) /\ request[p].step = "write" /\ request[p].kind = "product"
    BY DEF WriteProduct, IsAt, IInv, RequestsOK, RequestOK
  <2>2. /\ copy \in ProductRow /\ copy # None
        /\ copy.category \in CategoriesOf(copy.business)
        /\ copy.offer \in Fitting
        /\ copy.sku \in 1 .. sku
    BY <2>1, NoneIsNoRow DEF ProductRequestOK
  <2>3. id = NoId => i \notin Rows(product)
    BY <1>1 DEF IsNext
  <2>4. i \in Rows(product) => product[i].business = copy.business /\ product[i].sku = copy.sku
    BY <1>1, <2>1, <2>3 DEF ProductRequestOK, IsCopyOf
  <2>5. product' = [product EXCEPT ![i] = copy] /\ product \in [ProductId -> ProductRow \cup {None}]
    BY <1>1, <1>4 DEF IInv, TablesOK
  <2>6. \A s \in Request \ {p} :
          IsAt(s, "write") /\ request[s].kind = "product" /\ request[s].id = NoId =>
            /\ request[s].copy.sku # copy.sku
            /\ \A j \in Rows(product) : product[j].sku # request[s].copy.sku
    BY <2>1 DEF IInv, SkuIsFresh, IsAt
  <2>7. \A j \in Rows(product) \ {i} : product[j].sku # copy.sku
    BY <1>4 DEF SkuIndexAllows
  <2> HIDE DEF copy, id
  <2>8. /\ DOMAIN product = ProductId /\ DOMAIN product' = ProductId
        /\ product'[i] = copy
        /\ \A j \in ProductId \ {i} : product'[j] = product[j]
    BY <2>5
  <2>9. /\ Rows(product)' = Rows(product) \cup {i}
        /\ Rows(product) \subseteq ProductId
        /\ Rows(category)' = Rows(category)
    BY <1>2, <2>2, <2>8 DEF Rows
  <2>10. Grows
    BY <1>2, <2>4, <2>8, <2>9, SMT DEF Grows, IInv, TablesOK
  <2>11. RequestOK(Idle)' /\ request' = [request EXCEPT ![p] = Idle]
    BY <1>2, IdleIsOK DEF RequestOK, Idle, Ends
  <2>12. RequestsOK'
    BY <2>10, <2>11, RequestsStayOK
  <2>13. TablesOK'
    BY <1>2, <2>2, <2>5 DEF TablesOK, IInv
  <2>14. SkuIsFresh'
    BY <1>2, <2>6, <2>8, <2>9, FreshAfterEnding
  <2>15. SkusAreDrawn'
    BY <1>2, <2>2, <2>7, <2>8, <2>9 DEF IInv, SkusAreDrawn
  <2>16. PricesFit'
    BY <2>2, <2>8, <2>9 DEF IInv, PricesFit
  <2>17. CategoryIsOwn'
    BY <1>2, <2>2, <2>8, <2>9 DEF IInv, CategoryIsOwn, CategoriesOf
  <2>18. CategoryNamesDiffer'
    BY <1>2, <2>9 DEF IInv, CategoryNamesDiffer
  <2> QED
    BY <2>12, <2>13, <2>14, <2>15, <2>16, <2>17, <2>18, <2>10 DEF IInv
<1> QED
  BY <1>3, <1>4

-----------------------------------------------------------------------------
LEMMA StepOK ==
  ASSUME IInv, [Next]_vars
  PROVE  IInv'
<1>1. ASSUME NEW p \in Request, RequestStep(p)
      PROVE  IInv'
  <2>1. ASSUME NEW b \in Business, CreateCategory(p, b) PROVE IInv'
    BY <2>1, CreateCategoryOK
  <2>2. ASSUME NEW c \in CategoryId, UpdateCategory(p, c) PROVE IInv'
    BY <2>2, UpdateCategoryOK
  <2>3. ASSUME NEW b \in Business, NEW c \in CategoryId, CreateProduct(p, b, c) PROVE IInv'
    BY <2>3, CreateProductOK
  <2>4. ASSUME NEW i \in ProductId, UpdateProduct(p, i) PROVE IInv'
    BY <2>4, UpdateProductOK
  <2>5. ASSUME NEW i \in ProductId, DeleteProduct(p, i) PROVE IInv'
    BY <2>5, DeleteProductOK
  <2>6. CASE AskCategory(p)
    BY <2>6, AskCategoryOK
  <2>7. CASE AskName(p)
    BY <2>7, AskNameOK
  <2>8. CASE DrawSku(p)
    BY <2>8, DrawSkuOK
  <2>9. CASE WriteCategory(p)
    BY <2>9, WriteCategoryOK
  <2>10. CASE WriteProduct(p)
    BY <2>10, WriteProductOK
  <2>11. CASE Dies(p)
    BY <2>11, EndsOK DEF Dies
  <2> QED
    BY <1>1, <2>1, <2>2, <2>3, <2>4, <2>5, <2>6, <2>7, <2>8, <2>9, <2>10, <2>11 DEF RequestStep
<1>2. CASE UNCHANGED vars
  <2>1. /\ UNCHANGED <<category, product, sku, request>>
        /\ Rows(category)' = Rows(category) /\ Rows(product)' = Rows(product)
    BY <1>2 DEF vars, Rows
  <2> QED
    BY <2>1 DEF IInv, TablesOK, RequestsOK, RequestOK, CategoryRequestOK, ProductRequestOK, IsCopyOf,
      SkusAreDrawn, PricesFit, CategoryIsOwn, SkuIsFresh, CategoryNamesDiffer, CategoriesOf, IsAt
<1> QED
  BY <1>1, <1>2 DEF Next

\* The invariant of every catalogue.
THEOREM CatalogInvariant == Spec => []IInv
<1>1. Init => IInv
  BY InitOK
<1>2. IInv /\ [Next]_vars => IInv'
  BY StepOK
<1> QED
  BY <1>1, <1>2, PTL DEF Spec

\* Tables and requests hold what their types say; in particular no product
\* ever reaches a status but the three that Status.TRANSITIONS leads to.
THEOREM CatalogTypes == Spec => []TypeOK
<1>1. IInv => TypeOK
  BY DEF IInv, TablesOK, RequestsOK, Requests, TypeOK
<1> QED
  BY <1>1, CatalogInvariant, PTL

\* Every stored price leaves the stored margin on the stored cost, however
\* many updates overlap (Product.ensurePricingIsConsistent).
THEOREM PricesAlwaysFit == Spec => []PricesFit
<1>1. IInv => PricesFit
  BY DEF IInv
<1> QED
  BY <1>1, CatalogInvariant, PTL

\* No product is ever in a category of another business
\* (ProductCategoryChecker.existsForTenant).
THEOREM CategoriesAreOwn == Spec => []CategoryIsOwn
<1>1. IInv => CategoryIsOwn
  BY DEF IInv
<1> QED
  BY <1>1, CatalogInvariant, PTL

\* The UNIQUE of the SKU never rejects a product (nextSkuSequence).
THEOREM SkusAreFresh == Spec => []SkuIsFresh
<1>1. IInv => SkuIsFresh
  BY DEF IInv
<1> QED
  BY <1>1, CatalogInvariant, PTL

\* No two categories of a business ever have one name, although the request
\* asks before it writes (uq_product_category_name_tenant_lower).
THEOREM CategoryNamesAlwaysDiffer == Spec => []CategoryNamesDiffer
<1>1. IInv => CategoryNamesDiffer
  BY DEF IInv
<1> QED
  BY <1>1, CatalogInvariant, PTL

\* What a stale copy writes back never moves a product to another business,
\* nor changes its SKU, nor moves a category (ProductRepositoryImpl.update
\* writes those columns with the others).
THEOREM IdentitiesAreForLife == Spec => IdentityIsForLife
<1> DEFINE A == /\ \A i \in Rows(product) : /\ product'[i].business = product[i].business
                                             /\ product'[i].sku = product[i].sku
                /\ \A c \in Rows(category) : category'[c].business = category[c].business
<1>1. IInv /\ [Next]_vars => [A]_vars
  <2> SUFFICES ASSUME IInv, NEW p \in Request, RequestStep(p)
               PROVE  A
    BY DEF Next
  <2>1. CASE WriteCategory(p)
    BY <2>1, WriteCategoryOK DEF Grows
  <2>2. CASE WriteProduct(p)
    BY <2>2, WriteProductOK DEF Grows
  <2>3. CASE UNCHANGED <<category, product>>
    BY <2>3
  <2>4. \/ WriteCategory(p)
        \/ WriteProduct(p)
        \/ UNCHANGED <<category, product>>
    BY DEF RequestStep, CreateCategory, UpdateCategory, CreateProduct, UpdateProduct, DeleteProduct,
       AskCategory, AskName, DrawSku, Dies
  <2> QED
    BY <2>1, <2>2, <2>3, <2>4
<1> QED
  BY <1>1, CatalogInvariant, PTL DEF Spec, IdentityIsForLife

=============================================================================
