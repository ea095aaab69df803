------------------------------ MODULE Registry ------------------------------
(***************************************************************************)
(* The businesses (tenants), their branches and their users, and the       *)
(* requests that create, change and remove them (src/src/context/tenants,  *)
(* src/src/context/branch, src/src/context/user).                          *)
(*                                                                         *)
(* A request that changes a row loads it, asks other tables what it needs  *)
(* to know and writes the whole row back; one that creates a row asks and  *)
(* inserts.  Each question and each write is a statement of its own, and   *)
(* any other request may run in between.                                   *)
(*                                                                         *)
(* The columns kept are those that are unique, that refer to other rows or *)
(* that open and close a row.  A business has three names (name, slug and  *)
(* NIT) and a user two (user name and email): each pair of columns with a  *)
(* unique index is represented by one name, compared without case.         *)
(***************************************************************************)
EXTENDS Naturals

CONSTANTS
  Request,   \* requests that can be in flight at the same time
  Name,
  NoName,    \* the name of a row not made yet
  MaxRow     \* bound: rows ever inserted, of the three tables

ASSUME NameAssumption == NoName \notin Name
ASSUME RowBound == MaxRow \in Nat

VARIABLES
  created,   \* rows inserted so far: 1..created
  row,       \* the rows of the three tables
  request    \* the row each request in flight will write, and what it asks first

vars == <<created, row, request>>

-----------------------------------------------------------------------------
(***************************************************************************)
(* Rows.                                                                   *)
(***************************************************************************)

RowId == 1 .. MaxRow
NoRow == 0
Table == {"tenant", "branch", "user"}

TenantRow == [kind: {"tenant"}, tenant: {NoRow}, branch: {NoRow}, name: Name,
              active: BOOLEAN, deleted: BOOLEAN]

BranchRow == [kind: {"branch"}, tenant: RowId, branch: {NoRow}, name: Name,
              active: BOOLEAN, deleted: BOOLEAN]

\* An operational user has a branch; users are paused, never deleted.
UserRow == [kind: {"user"}, tenant: RowId, branch: RowId \cup {NoRow}, name: Name,
            active: BOOLEAN, deleted: {FALSE}]

\* Every row is born active.
New(kind, t, b, n) ==
  [kind |-> kind, tenant |-> t, branch |-> b, name |-> n,
   active |-> TRUE, deleted |-> FALSE]

Empty == New("none", NoRow, NoRow, NoName)

Row == TenantRow \cup BranchRow \cup UserRow \cup {Empty}

IsAny(kind, i) == i \in 1 .. created

IsA(kind, i) == i \in 1 .. created /\ row[i].kind = kind

SameName(r, s) == r.kind = s.kind /\ r.tenant = s.tenant /\ r.name = s.name

NoIndex(i, r) == TRUE

\* The unique indexes, which leave deleted rows out: row i may hold r.
IndexAllows(i, r) ==
  r.deleted \/ \A j \in 1 .. created \ {i} : row[j].deleted \/ ~SameName(row[j], r)

-----------------------------------------------------------------------------
(***************************************************************************)
(* Requests.                                                               *)
(***************************************************************************)

\* What may still have to be asked, always in this order.
Question == {"tenant", "branch", "name"}

\* id is the row to write, NoRow for an INSERT.
Idle == [id |-> NoRow, copy |-> Empty, asks |-> {}]

IsIdle(p) == request[p].copy.kind = "none"

Holds(p, i, copy, asks) ==
  /\ request' = [request EXCEPT ![p] = [id |-> i, copy |-> copy, asks |-> asks]]
  /\ UNCHANGED <<created, row>>

Ends(p) == request' = [request EXCEPT ![p] = Idle]

Init ==
  /\ created = 0
  /\ row = [i \in RowId |-> Empty]
  /\ request = [p \in Request |-> Idle]

\* searchAggregateById: a deleted row is not found.
Finds(p, kind, i) == IsIdle(p) /\ IsA(kind, i) /\ ~row[i].deleted

\* A new name is asked for; one that differs in case alone is not.
Asks(i, n) == IF n = row[i].name THEN {} ELSE {"name"}

Flip(r) == [r EXCEPT !.active = ~@]

(***************************************************************************)
(* Businesses.                                                             *)
(***************************************************************************)

NewTenant(n) == New("tenant", NoRow, NoRow, n)

ChangedTenant(r, n) == [r EXCEPT !.name = n]

DeletedTenant(r) == [r EXCEPT !.deleted = TRUE, !.active = FALSE]

CreateTenant(p) ==
  /\ IsIdle(p)
  /\ \E n \in Name : Holds(p, NoRow, NewTenant(n), {"name"})

UpdateTenant(p, i) ==
  /\ Finds(p, "tenant", i)
  /\ \E n \in Name : Holds(p, i, ChangedTenant(row[i], n), Asks(i, n))

ToggleTenantStatus(p, i) ==
  /\ Finds(p, "tenant", i)
  /\ Holds(p, i, Flip(row[i]), {})

DeleteTenant(p, i) ==
  /\ Finds(p, "tenant", i)
  /\ Holds(p, i, DeletedTenant(row[i]), {})

(***************************************************************************)
(* Branches.  The business of a request is that of its token.              *)
(***************************************************************************)

NewBranch(t, n) == New("branch", t, NoRow, n)

\* A change may switch the branch on or off as well.
ChangedBranch(r, n) == {[s EXCEPT !.name = n] : s \in {r, Flip(r)}}

DeletedBranch(r) == [r EXCEPT !.deleted = TRUE]

CreateBranch(p, t) ==
  /\ IsIdle(p)
  /\ IsA("tenant", t)
  /\ \E n \in Name : Holds(p, NoRow, NewBranch(t, n), {"tenant", "name"})

UpdateBranch(p, i) ==
  /\ Finds(p, "branch", i)
  /\ \E n \in Name : \E copy \in ChangedBranch(row[i], n) :
       Holds(p, i, copy, Asks(i, n))

DeleteBranch(p, i) ==
  /\ Finds(p, "branch", i)
  /\ Holds(p, i, DeletedBranch(row[i]), {})

(***************************************************************************)
(* Users.  An administrative role has no branch, an operational one has.   *)
(***************************************************************************)

NewUser(t, b, n) == New("user", t, b, n)

ChangedUser(r, n) == [r EXCEPT !.name = n]

Reassigned(r, b) == [r EXCEPT !.branch = b]

AsksBranch(b) == IF b = NoRow THEN {} ELSE {"branch"}

CreateUser(p, t, b) ==
  /\ IsIdle(p)
  /\ IsA("tenant", t)
  /\ b = NoRow \/ IsA("branch", b)
  /\ \E n \in Name :
       Holds(p, NoRow, NewUser(t, b, n), {"tenant", "name"} \cup AsksBranch(b))

\* ensureActive: an inactive user is not changed.
FindsActiveUser(p, i) == Finds(p, "user", i) /\ row[i].active

UpdateUser(p, i) ==
  /\ FindsActiveUser(p, i)
  /\ \E n \in Name : Holds(p, i, ChangedUser(row[i], n), Asks(i, n))

\* The password is not a column of the model, but its change writes the others.
ChangeUserPassword(p, i) ==
  /\ FindsActiveUser(p, i)
  /\ Holds(p, i, row[i], {})

ReassignUser(p, i, b) ==
  /\ FindsActiveUser(p, i)
  /\ b = NoRow \/ IsA("branch", b)
  /\ Holds(p, i, Reassigned(row[i], b), AsksBranch(b))

ToggleUserStatus(p, i) ==
  /\ Finds(p, "user", i)
  /\ Holds(p, i, Flip(row[i]), {})

-----------------------------------------------------------------------------
(***************************************************************************)
(* What a request asks before it writes.  A wrong answer ends it (Fails).  *)
(***************************************************************************)

Answered(p, question) ==
  /\ request' = [request EXCEPT ![p].asks = @ \ {question}]
  /\ UNCHANGED <<created, row>>

\* Only the users' checker refuses a business that is paused.
AskTenant(p) ==
  LET copy == request[p].copy IN
  /\ "tenant" \in request[p].asks
  /\ ~row[copy.tenant].deleted
  /\ copy.kind = "user" => row[copy.tenant].active
  /\ Answered(p, "tenant")

\* existsInTenant
ExistsInTenant(b, t) == row[b].tenant = t /\ row[b].active /\ ~row[b].deleted

AskBranch(p) ==
  LET copy == request[p].copy IN
  /\ "branch" \in request[p].asks /\ "tenant" \notin request[p].asks
  /\ ExistsInTenant(copy.branch, copy.tenant)
  /\ Answered(p, "branch")

\* existsByName and the like: a deleted business keeps its names, a deleted
\* branch does not; only a user is told apart from itself.
Taken(i, r) ==
  \E j \in 1 .. created :
    /\ SameName(row[j], r)
    /\ r.kind = "branch" => ~row[j].deleted
    /\ r.kind = "user" => j # i

AskName(p) ==
  /\ request[p].asks = {"name"}
  /\ ~Taken(request[p].id, request[p].copy)
  /\ Answered(p, "name")

-----------------------------------------------------------------------------
(***************************************************************************)
(* Writing.                                                                *)
(***************************************************************************)

Writes(p) == ~IsIdle(p) /\ request[p].asks = {}

Save(p) ==
  /\ Writes(p)
  /\ request[p].id = NoRow
  /\ created < MaxRow
  /\ IndexAllows(created + 1, request[p].copy)
  /\ created' = created + 1
  /\ row' = [row EXCEPT ![created + 1] = request[p].copy]
  /\ Ends(p)

WhereIdOnly(i) == TRUE

\* The WHERE of the UPDATEs.
Where(i) == ~row[i].deleted

\* Every column but the business is written, from the copy; a row that is no
\* longer there is not, and nobody is told.
Update(p) ==
  LET i == request[p].id
      written == [request[p].copy EXCEPT !.tenant = row[i].tenant]
  IN
  /\ Writes(p)
  /\ i # NoRow
  /\ IF Where(i)
       THEN IndexAllows(i, written) /\ row' = [row EXCEPT ![i] = written]
       ELSE UNCHANGED row
  /\ Ends(p)
  /\ UNCHANGED created

\* An answer or a unique index refuses, or a query fails: nothing is written.
Fails(p) ==
  /\ ~IsIdle(p)
  /\ Ends(p)
  /\ UNCHANGED <<created, row>>

Next ==
  \E p \in Request :
    \/ CreateTenant(p)
    \/ \E i \in RowId :
         \/ UpdateTenant(p, i) \/ ToggleTenantStatus(p, i) \/ DeleteTenant(p, i)
         \/ CreateBranch(p, i) \/ UpdateBranch(p, i) \/ DeleteBranch(p, i)
         \/ UpdateUser(p, i) \/ ChangeUserPassword(p, i) \/ ToggleUserStatus(p, i)
         \/ \E b \in RowId \cup {NoRow} : CreateUser(p, i, b) \/ ReassignUser(p, i, b)
    \/ AskTenant(p) \/ AskBranch(p) \/ AskName(p)
    \/ Save(p) \/ Update(p) \/ Fails(p)

Spec == Init /\ [][Next]_vars

-----------------------------------------------------------------------------
(***************************************************************************)
(* Properties.                                                             *)
(***************************************************************************)

\* Rows and requests have the shape of the tables and of what a use case holds.
TypeOK ==
  /\ created \in 0 .. MaxRow
  /\ row \in [RowId -> Row]
  /\ request \in [Request -> [id: 0 .. created, copy: Row, asks: SUBSET Question]]

Exists(i) == i \in 1 .. created
Live(i) == Exists(i) /\ ~row[i].deleted

\* A deleted business or branch is never written again, not even by a request
\* that loaded it before and writes it back whole (the WHERE of update).
DeletedIsFinal ==
  [][\A i \in RowId : Exists(i) /\ row[i].deleted => row'[i] = row[i]]_vars

\* A user's branch is a branch of the user's business; no foreign key says so,
\* only existsInTenant and the columns that update leaves out.
StaffInOwnTenant ==
  \A i \in 1 .. created : row[i].kind = "user" /\ row[i].branch # NoRow =>
    /\ IsA("branch", row[i].branch)
    /\ row[row[i].branch].tenant = row[i].tenant

NameKey(table, t, n) == [table |-> table, tenant |-> t, name |-> n]

Absent == NameKey("none", NoRow, NoName)
Retired == NameKey("deleted", NoRow, NoName)

KeyOf(r) == NameKey(r.kind, r.tenant, r.name)

Entries == INSTANCE Directory WITH
  Entry <- RowId,
  Key <- [table: Table, tenant: RowId \cup {NoRow}, name: Name],
  key <- [i \in RowId |-> IF ~Exists(i) THEN Absent
                          ELSE IF row[i].deleted THEN Retired ELSE KeyOf(row[i])]

\* The three tables and their requests are a directory: whatever overlaps, no
\* two rows in use share a name, and deleted rows are gone for good.
ImplementsDirectory == Entries!Spec

\* "una sucursal inactiva no recibe nada" (branch.repository.ts): a user is
\* never put in a branch that is inactive or deleted at that moment.
InactiveBranchReceivesNothing ==
  [][\A i \in RowId :
       LET b == row'[i].branch IN
       b # NoRow /\ b # row[i].branch => row[b].active /\ ~row[b].deleted]_vars

=============================================================================
