------------------------------ MODULE Catalog -------------------------------
(***************************************************************************)
(* The products a business sells and the categories they are grouped in    *)
(* (src/src/context/products, src/src/context/product-categories).         *)
(*                                                                         *)
(* A request asks what it needs to know of other rows and writes one row,  *)
(* whole, at the end.  Each question and the write are statements of their *)
(* own: other requests run in between, and a request may die before any of *)
(* them.                                                                   *)
(*                                                                         *)
(* Left out: the question whether the business exists, which comes first   *)
(* (closing one is modelled in Registry); descriptions, images and dates,  *)
(* which nothing is decided by; recipes, which the requests of this        *)
(* version neither take nor load, and which an update leaves alone; and    *)
(* the events ProductCreated and ProductDeleted, which nobody subscribes   *)
(* to.                                                                     *)
(***************************************************************************)
EXTENDS FiniteSets, Pricing

CONSTANTS
  Request,      \* requests that can be in flight at the same time
  Business,
  CategoryName,
  ProductName,
  Cost,         \* costs, prices and margins clients write, the margins with
  Price,        \* as many decimals as they like
  RawMargin,
  None,         \* a row not inserted yet
  MaxCategory,  \* bound: categories ever inserted
  MaxProduct,   \* bound: products ever inserted
  MaxSku        \* bound: numbers ever drawn from product_sku_seq

ASSUME OfferAssumption == Cost \subseteq Nat /\ Price \subseteq Nat /\ RawMargin \subseteq Nat
ASSUME CatalogBounds == MaxCategory \in Nat /\ MaxProduct \in Nat /\ MaxSku \in Nat

VARIABLES
  category,  \* table product_category
  product,   \* table product
  sku,       \* the last number product_sku_seq gave
  request    \* the requests in flight

vars == <<category, product, sku, request>>

-----------------------------------------------------------------------------
(***************************************************************************)
(* Tables.                                                                 *)
(***************************************************************************)

CategoryId == 1 .. MaxCategory
ProductId == 1 .. MaxProduct
NoId == 0
NoSku == 0

Status == {"ACTIVE", "INACTIVE", "DELETED"}

\* Mutant of Transitions: the status ARCHIVED of the enumeration is reached.
TransitionsToArchived(s) ==
  CASE s \in {"ACTIVE", "INACTIVE"} -> {"ACTIVE", "INACTIVE", "DELETED", "ARCHIVED"} \ {s}
    [] OTHER -> {}

\* Status.TRANSITIONS; nothing reaches ARCHIVED.
Transitions(s) ==
  CASE s = "ACTIVE" -> {"INACTIVE", "DELETED"}
    [] s = "INACTIVE" -> {"ACTIVE", "DELETED"}
    [] s = "DELETED" -> {}

\* What a client may offer a product for: the margin is accepted as written
\* and kept rounded.
Offer ==
  [cost : Cost, price : Price, margin : {StoredMargin(m) : m \in {r \in RawMargin : ValidRawMargin(r)}}]

Fitting == {o \in Offer : Fits(o.cost, o.price, o.margin)}

CategoryRow == [business : Business, name : CategoryName, active : BOOLEAN]

ProductRow ==
  [business : Business, category : CategoryId, name : ProductName, offer : Offer,
   sku : NoSku .. MaxSku, status : Status]

\* A row that is not inserted yet is told from every row that is.
ASSUME NoneIsNoRow == None \notin CategoryRow \cup ProductRow

Rows(table) == {i \in DOMAIN table : table[i] # None}

\* The next row of a table: rows are numbered in the order they are inserted.
IsNext(table, i) == i \in DOMAIN table \ Rows(table) /\ 1 .. i - 1 \subseteq Rows(table)

CategoriesOf(b) == {c \in Rows(category) : category[c].business = b}

\* Mutant of ExistsForTenant: the category is found whoever it belongs to.
ExistsAnywhere(c, b) == c \in Rows(category)

\* ProductCategoryChecker.existsForTenant.
ExistsForTenant(c, b) == c \in CategoriesOf(b)

Shown == {i \in Rows(product) : product[i].status # "DELETED"}

ProductsOf(b) == {i \in Shown : product[i].business = b}

\* A row becomes a product again through the checks of its values.
Readable(r) == ValidMargin(r.offer.margin)

\* findById: a deleted product does not exist.
Found == {i \in Shown : Readable(product[i])}

\* Mutant of CategoryIndexAllows: the index is not unique.
NoCategoryIndex(i, r) == TRUE

\* uq_product_category_name_tenant_lower: row i may hold r.
CategoryIndexAllows(i, r) ==
  \A c \in CategoriesOf(r.business) \ {i} : category[c].name # r.name

\* The UNIQUE of product_sku_seq.
SkuIndexAllows(i, r) == \A j \in Rows(product) \ {i} : product[j].sku # r.sku

-----------------------------------------------------------------------------
(***************************************************************************)
(* Requests.  copy is the row the request will write, as row id of its     *)
(* table or, when id is NoId, as a new row.                                *)
(***************************************************************************)

Step == {"idle", "category", "name", "sku", "write"}

Kind == {"category", "product"}

Idle == [step |-> "idle", kind |-> "product", id |-> NoId, copy |-> None]

Goes(p, step, kind, id, copy) ==
  request' = [request EXCEPT ![p] =
    [step |-> step, kind |-> kind, id |-> id, copy |-> copy]]

To(p, step) == request' = [request EXCEPT ![p].step = step]

Ends(p) == request' = [request EXCEPT ![p] = Idle]

IsAt(p, step) == request[p].step = step

(***************************************************************************)
(* Categories.                                                             *)
(***************************************************************************)

NewCategory(b, n) == [business |-> b, name |-> n, active |-> TRUE]

\* ProductCategory.update, activate, deactivate.
ChangedCategory(r, n, a) == [r EXCEPT !.name = n, !.active = a]

CreateCategory(p, b) ==
  /\ IsAt(p, "idle")
  /\ \E n \in CategoryName :
       /\ \A c \in CategoriesOf(b) : category[c].name # n
       /\ Goes(p, "write", "category", NoId, NewCategory(b, n))
  /\ UNCHANGED <<category, product, sku>>

\* Without a name in the request the name of the row is not asked about.
UpdateCategory(p, c) ==
  /\ IsAt(p, "idle")
  /\ c \in Rows(category)
  /\ \E n \in CategoryName, a \in BOOLEAN, step \in {"name", "write"} :
       /\ step = "write" => n = category[c].name
       /\ Goes(p, step, "category", c, ChangedCategory(category[c], n, a))
  /\ UNCHANGED <<category, product, sku>>

(***************************************************************************)
(* Products.                                                               *)
(***************************************************************************)

NewProduct(b, c, n, o) ==
  [business |-> b, category |-> c, name |-> n, offer |-> o, sku |-> NoSku, status |-> "ACTIVE"]

\* Product.update.
ChangedProduct(r, c, n, o) == [r EXCEPT !.category = c, !.name = n, !.offer = o]

CreateProduct(p, b, c) ==
  /\ IsAt(p, "idle")
  /\ ExistsForTenant(c, b)
  /\ \E n \in ProductName, o \in Offer :
       Goes(p, "name", "product", NoId, NewProduct(b, c, n, o))
  /\ UNCHANGED <<category, product, sku>>

\* changeStatus leads to ACTIVE and INACTIVE alone.
StatusAfter(s) == {s} \cup (Transitions(s) \ {"DELETED"})

\* Mutant of UpdateAccepts: the offer is only looked at when it is created.
UpdateAcceptsAny(o) == TRUE

\* update ends in ensurePricingIsConsistent.
UpdateAccepts(o) == o \in Fitting

\* The name is not asked about; the category is when the request gives one.
\* What a request leaves out of the offer is taken from the row it loaded.
UpdateProduct(p, i) ==
  /\ IsAt(p, "idle")
  /\ i \in Found
  /\ \E c \in CategoryId, n \in ProductName, o \in Offer, s \in StatusAfter(product[i].status) :
       /\ UpdateAccepts(o)
       /\ Goes(p, IF c = product[i].category THEN "write" ELSE "category", "product", i,
               [ChangedProduct(product[i], c, n, o) EXCEPT !.status = s])
  /\ UNCHANGED <<category, product, sku>>

Deleted(r) == [r EXCEPT !.status = "DELETED"]

DeleteProduct(p, i) ==
  /\ IsAt(p, "idle")
  /\ i \in Found
  /\ Goes(p, "write", "product", i, Deleted(product[i]))
  /\ UNCHANGED <<category, product, sku>>

(***************************************************************************)
(* The questions.  The wrong answer ends the request.                      *)
(***************************************************************************)

AskCategory(p) ==
  /\ IsAt(p, "category")
  /\ IF ExistsForTenant(request[p].copy.category, request[p].copy.business)
     THEN To(p, "write")
     ELSE Ends(p)
  /\ UNCHANGED <<category, product, sku>>

\* The name of a deleted product is free again.
NameIsFree(r) ==
  IF r.kind = "product"
  THEN \A i \in ProductsOf(r.copy.business) : product[i].name # r.copy.name
  ELSE CategoryIndexAllows(r.id, r.copy)

AskName(p) ==
  /\ IsAt(p, "name")
  /\ CASE ~NameIsFree(request[p]) -> Ends(p)
       [] NameIsFree(request[p]) /\ request[p].kind = "product" -> To(p, "sku")
       [] OTHER -> To(p, "write")
  /\ UNCHANGED <<category, product, sku>>

\* Mutant of NextSku: the products are counted.
NextSkuByCount == Cardinality(Rows(product)) + 1

\* nextval('product_sku_seq').
NextSku == sku + 1

\* The number is drawn before the offer is looked at, and is not given back.
DrawSku(p) ==
  /\ IsAt(p, "sku")
  /\ sku < MaxSku
  /\ sku' = NextSku
  /\ IF request[p].copy.offer \in Fitting
     THEN Goes(p, "write", "product", NoId, [request[p].copy EXCEPT !.sku = NextSku])
     ELSE Ends(p)
  /\ UNCHANGED <<category, product>>

(***************************************************************************)
(* The writes.  An update names the row by its id alone and writes every   *)
(* column.                                                                 *)
(***************************************************************************)

WriteCategory(p) ==
  /\ IsAt(p, "write")
  /\ request[p].kind = "category"
  /\ LET r == request[p] IN
       \E c \in CategoryId :
         /\ IF r.id = NoId THEN IsNext(category, c) ELSE c = r.id
         /\ category' = IF CategoryIndexAllows(c, r.copy)
                        THEN [category EXCEPT ![c] = r.copy]
                        ELSE category
  /\ Ends(p)
  /\ UNCHANGED <<product, sku>>

WriteProduct(p) ==
  /\ IsAt(p, "write")
  /\ request[p].kind = "product"
  /\ LET r == request[p] IN
       \E i \in ProductId :
         /\ IF r.id = NoId THEN IsNext(product, i) ELSE i = r.id
         /\ product' = IF SkuIndexAllows(i, r.copy)
                       THEN [product EXCEPT ![i] = r.copy]
                       ELSE product
  /\ Ends(p)
  /\ UNCHANGED <<category, sku>>

\* A statement fails, or the process dies, before the write commits.
Dies(p) ==
  /\ ~IsAt(p, "idle")
  /\ Ends(p)
  /\ UNCHANGED <<category, product, sku>>

-----------------------------------------------------------------------------
Init ==
  /\ category = [c \in CategoryId |-> None]
  /\ product = [i \in ProductId |-> None]
  /\ sku = 0
  /\ request = [p \in Request |-> Idle]

RequestStep(p) ==
  \/ \E b \in Business : CreateCategory(p, b)
  \/ \E c \in CategoryId : UpdateCategory(p, c)
  \/ \E b \in Business, c \in CategoryId : CreateProduct(p, b, c)
  \/ \E i \in ProductId : UpdateProduct(p, i) \/ DeleteProduct(p, i)
  \/ AskCategory(p)
  \/ AskName(p)
  \/ DrawSku(p)
  \/ WriteCategory(p)
  \/ WriteProduct(p)
  \/ Dies(p)

Next == \E p \in Request : RequestStep(p)

Spec == Init /\ [][Next]_vars

-----------------------------------------------------------------------------
(***************************************************************************)
(* Properties.                                                             *)
(***************************************************************************)

Copy == CategoryRow \cup ProductRow \cup {None}

\* Type correctness of the tables and of the requests.
TypeOK ==
  /\ category \in [CategoryId -> CategoryRow \cup {None}]
  /\ product \in [ProductId -> ProductRow \cup {None}]
  /\ sku \in 0 .. MaxSku
  /\ request \in [Request -> [step : Step, kind : Kind, id : Nat, copy : Copy]]

\* The price of every stored product leaves its margin on its cost, although
\* an update may give one of the three and take the others from a row that
\* other updates are replacing (Product.ensurePricingIsConsistent).
PricesFit == \A i \in Rows(product) : product[i].offer \in Fitting

\* A product is in a category of its own business, although the foreign key
\* only asks that the category exists (ProductCategoryChecker.existsForTenant).
CategoryIsOwn ==
  \A i \in Rows(product) : product[i].category \in CategoriesOf(product[i].business)

\* The number a creation drew is nobody else's, stored or in flight: the
\* UNIQUE of the column never rejects a product (nextSkuSequence).
SkuIsFresh ==
  \A p \in Request :
    IsAt(p, "write") /\ request[p].kind = "product" /\ request[p].id = NoId =>
      /\ \A i \in Rows(product) : product[i].sku # request[p].copy.sku
      /\ \A q \in Request \ {p} :
           IsAt(q, "write") /\ request[q].kind = "product" =>
             request[q].copy.sku # request[p].copy.sku

\* No two categories of a business have one name, whatever the requests that
\* asked for it at the same time were told (ProductCategoryRepositoryImpl).
CategoryNamesDiffer ==
  \A c, d \in Rows(category) :
    c # d /\ category[c].business = category[d].business => category[c].name # category[d].name

\* What a stale copy writes back never moves a product to another business,
\* nor changes its SKU, nor moves a category (ProductRepositoryImpl.update
\* writes the business and the SKU with everything else).
IdentityIsForLife ==
  [][/\ \A i \in Rows(product) : /\ product'[i].business = product[i].business
                                  /\ product'[i].sku = product[i].sku
     /\ \A c \in Rows(category) : category'[c].business = category[c].business]_vars

\* A stored product can be loaded again (docs/arquitectura.md: value objects
\* are validated when they are created).
StoredIsReadable == \A i \in Rows(product) : Readable(product[i])

\* A deleted product stays deleted (EntityStatus.Deleted: it is not shown and
\* cannot be modified).
DeletedIsFinal ==
  [][\A i \in ProductId :
       product[i] # None /\ product[i].status = "DELETED" => product'[i] = product[i]]_vars

=============================================================================
