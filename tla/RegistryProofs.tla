--------------------------- MODULE RegistryProofs ---------------------------
(***************************************************************************)
(* What holds of Registry for any number of requests, names and rows.      *)
(*                                                                         *)
(* Whatever a request loads or builds is a sound row (Sound): of the table *)
(* and the business of the row it will replace, not deleted if it is to be *)
(* inserted, and with a branch that is either still to be asked for or     *)
(* already known to be of its business.  Rows never change table nor       *)
(* business, so what was sound when it was loaded is sound when it is      *)
(* written; the indexes and the WHERE of the update do the rest.           *)
(***************************************************************************)
EXTENDS Registry, TLAPS

USE NameAssumption, RowBound

-----------------------------------------------------------------------------
(***************************************************************************)
(* The inductive invariant.                                                *)
(***************************************************************************)

\* What a request that is not idle may hold.
Sound(i, copy, asks) ==
  /\ copy.kind \in Table
  /\ i # NoRow => copy.kind = row[i].kind /\ copy.tenant = row[i].tenant
  /\ i = NoRow => ~copy.deleted
  /\ copy.branch # NoRow =>
       /\ IsA("branch", copy.branch)
       /\ "branch" \in asks \/ row[copy.branch].tenant = copy.tenant

SoundRequests ==
  \A p \in Request :
    request[p] = Idle \/ Sound(request[p].id, request[p].copy, request[p].asks)

RowsExist == \A i \in 1 .. created : row[i].kind \in Table

NamesDiffer ==
  \A i, j \in 1 .. created : Live(i) /\ Live(j) /\ SameName(row[i], row[j]) => i = j

IInv == TypeOK /\ SoundRequests /\ RowsExist /\ NamesDiffer /\ StaffInOwnTenant

-----------------------------------------------------------------------------
(***************************************************************************)
(* The steps of Next, by what they do to the state.                        *)
(***************************************************************************)

\* A request starts and holds a sound row.
Starts(p) ==
  \E i \in 0 .. created, copy \in Row, asks \in SUBSET Question :
    Holds(p, i, copy, asks) /\ Sound(i, copy, asks)

\* An answer that matters is the one about a branch.
Asked(p) ==
  /\ \E question \in Question : Answered(p, question)
  /\ request[p].asks # {}
  /\ "branch" \in request[p].asks /\ "branch" \notin request'[p].asks =>
       ExistsInTenant(request[p].copy.branch, request[p].copy.tenant)

Keeps(r, s) == s.kind = r.kind /\ s.tenant = r.tenant /\ s.branch = r.branch

LEMMA RowFields ==
  \A r \in Row :
    /\ r.branch \in RowId \cup {NoRow}
    /\ r.tenant \in RowId \cup {NoRow}
    /\ r.deleted \in BOOLEAN /\ r.active \in BOOLEAN
    /\ r.kind \in Table => r.name \in Name
    /\ r.kind = "user" => r.deleted = FALSE
    /\ r.kind # "user" => r.branch = NoRow
<1> SUFFICES ASSUME NEW r \in Row
             PROVE  /\ r.branch \in RowId \cup {NoRow}
                    /\ r.tenant \in RowId \cup {NoRow}
                    /\ r.deleted \in BOOLEAN /\ r.active \in BOOLEAN
                    /\ r.kind \in Table => r.name \in Name
                    /\ r.kind = "user" => r.deleted = FALSE
                    /\ r.kind # "user" => r.branch = NoRow
  OBVIOUS
<1>1. CASE r \in TenantRow
  BY <1>1 DEF TenantRow
<1>2. CASE r \in BranchRow
  BY <1>2 DEF BranchRow
<1>3. CASE r \in UserRow
  BY <1>3 DEF UserRow
<1>4. CASE r = Empty
  BY <1>4 DEF Empty, New, Table
<1>5. QED
  BY <1>1, <1>2, <1>3, <1>4 DEF Row

\* What the operations make of a row is a row of the same table.
LEMMA Edits ==
  ASSUME NEW r \in Row, r.kind \in Table
  PROVE  /\ Flip(r) \in Row
         /\ \A n \in Name : [r EXCEPT !.name = n] \in Row
         /\ r.kind # "user" => [r EXCEPT !.deleted = TRUE] \in Row
         /\ r.kind # "user" => [r EXCEPT !.deleted = TRUE, !.active = FALSE] \in Row
         /\ r.kind = "user" =>
              \A b \in RowId \cup {NoRow} : [r EXCEPT !.branch = b] \in Row
<1>1. CASE r \in TenantRow
  BY <1>1 DEF Row, TenantRow, Flip
<1>2. CASE r \in BranchRow
  BY <1>2 DEF Row, BranchRow, Flip
<1>3. CASE r \in UserRow
  BY <1>3 DEF Row, UserRow, Flip
<1>4. r # Empty
  BY DEF Empty, New, Table
<1>5. QED
  BY <1>1, <1>2, <1>3, <1>4 DEF Row

LEMMA EditsKeep ==
  ASSUME NEW r \in Row
  PROVE  /\ Keeps(r, Flip(r))
         /\ \A n \in Name : Keeps(r, [r EXCEPT !.name = n])
         /\ Keeps(r, [r EXCEPT !.deleted = TRUE])
         /\ Keeps(r, [r EXCEPT !.deleted = TRUE, !.active = FALSE])
<1>1. CASE r \in TenantRow
  BY <1>1 DEF TenantRow, Flip, Keeps
<1>2. CASE r \in BranchRow
  BY <1>2 DEF BranchRow, Flip, Keeps
<1>3. CASE r \in UserRow
  BY <1>3 DEF UserRow, Flip, Keeps
<1>4. CASE r = Empty
  BY <1>4 DEF Empty, New, Flip, Keeps
<1>5. QED
  BY <1>1, <1>2, <1>3, <1>4 DEF Row

LEMMA Births ==
  \A n \in Name :
    /\ New("tenant", NoRow, NoRow, n) \in Row
    /\ \A t \in RowId : New("branch", t, NoRow, n) \in Row
    /\ \A t \in RowId, b \in RowId \cup {NoRow} : New("user", t, b, n) \in Row
BY DEF Row, TenantRow, BranchRow, UserRow, New

\* A row in the table may be loaded.
LEMMA Loaded ==
  ASSUME IInv, NEW i \in 1 .. created
  PROVE  /\ i \in RowId /\ i # NoRow /\ i \in 0 .. created
         /\ row[i] \in Row /\ row[i].kind \in Table
         /\ Sound(i, row[i], {})
<1>1. i \in RowId /\ i # NoRow /\ i \in 0 .. created
  BY DEF IInv, TypeOK, RowId, NoRow
<1>2. row[i] \in Row /\ row[i].kind \in Table
  BY <1>1 DEF IInv, TypeOK, RowsExist
<1>3. row[i].branch # NoRow =>
        IsA("branch", row[i].branch) /\ row[row[i].branch].tenant = row[i].tenant
  BY <1>2, RowFields DEF IInv, StaffInOwnTenant
<1>4. QED
  BY <1>1, <1>2, <1>3 DEF Sound

\* Every step of Next starts a request, answers a question, writes or gives up.
LEMMA Steps ==
  ASSUME IInv, Next
  PROVE  \E p \in Request :
           Starts(p) \/ Asked(p) \/ Save(p) \/ Update(p) \/ Fails(p)
<1> USE DEF Table
<1>0. TypeOK
  BY DEF IInv
<1>1. ASSUME NEW p \in Request, CreateTenant(p)
      PROVE  Starts(p)
  <2>1. PICK n \in Name : Holds(p, NoRow, New("tenant", NoRow, NoRow, n), {"name"})
    BY <1>1 DEF CreateTenant, NewTenant
  <2>2. Sound(NoRow, New("tenant", NoRow, NoRow, n), {"name"})
    BY DEF Sound, New, NoRow
  <2>3. NoRow \in 0 .. created
    BY <1>0 DEF TypeOK, NoRow
  <2>4. New("tenant", NoRow, NoRow, n) \in Row /\ {"name"} \in SUBSET Question
    BY Births DEF Question
  <2>5. QED
    BY <2>1, <2>2, <2>3, <2>4 DEF Starts
<1>2. ASSUME NEW p \in Request, NEW t \in RowId, CreateBranch(p, t)
      PROVE  Starts(p)
  <2>1. PICK n \in Name :
          Holds(p, NoRow, New("branch", t, NoRow, n), {"tenant", "name"})
    BY <1>2 DEF CreateBranch, NewBranch
  <2>2. Sound(NoRow, New("branch", t, NoRow, n), {"tenant", "name"})
    BY DEF Sound, New, NoRow
  <2>3. NoRow \in 0 .. created
    BY <1>0 DEF TypeOK, NoRow
  <2>4. New("branch", t, NoRow, n) \in Row /\ {"tenant", "name"} \in SUBSET Question
    BY Births DEF Question
  <2>5. QED
    BY <2>1, <2>2, <2>3, <2>4 DEF Starts
<1>3. ASSUME NEW p \in Request, NEW t \in RowId, NEW b \in RowId \cup {NoRow},
             CreateUser(p, t, b)
      PROVE  Starts(p)
  <2> DEFINE asks == {"tenant", "name"} \cup AsksBranch(b)
  <2>1. PICK n \in Name : Holds(p, NoRow, New("user", t, b, n), asks)
    BY <1>3 DEF CreateUser, NewUser
  <2>2. b # NoRow => IsA("branch", b) /\ "branch" \in asks
    BY <1>3 DEF CreateUser, AsksBranch
  <2>3. New("user", t, b, n).kind = "user" /\ New("user", t, b, n).branch = b
          /\ New("user", t, b, n).deleted = FALSE
    BY DEF New
  <2>4. Sound(NoRow, New("user", t, b, n), asks)
    BY <2>2, <2>3 DEF Sound
  <2>5. NoRow \in 0 .. created
    BY <1>0 DEF TypeOK, NoRow
  <2>6. New("user", t, b, n) \in Row /\ asks \in SUBSET Question
    BY Births DEF Question, AsksBranch
  <2>7. QED
    BY <2>1, <2>4, <2>5, <2>6 DEF Starts
<1>4. ASSUME NEW p \in Request, NEW kind \in Table, NEW i \in RowId,
             Finds(p, kind, i)
      PROVE  /\ i \in 1 .. created
             /\ row[i].kind = kind
             /\ row[i].deleted = FALSE
             /\ i \in 0 .. created /\ i # NoRow
             /\ row[i] \in Row /\ Sound(i, row[i], {})
  <2>1. i \in 1 .. created /\ row[i].kind = kind /\ ~row[i].deleted
    BY <1>4 DEF Finds, IsA
  <2>2. QED
    BY <2>1, Loaded, RowFields
\* What an operation changes of a row it found keeps it sound.
<1>5. ASSUME NEW i \in 1 .. created, NEW copy \in Row, NEW asks \in SUBSET Question,
             Keeps(row[i], copy)
      PROVE  Sound(i, copy, asks)
  BY <1>5, Loaded DEF Sound, Keeps
<1>6. ASSUME NEW p \in Request, NEW i \in RowId, UpdateTenant(p, i)
      PROVE  Starts(p)
  <2>1. Finds(p, "tenant", i)
    BY <1>6 DEF UpdateTenant
  <2>2. PICK n \in Name : Holds(p, i, [row[i] EXCEPT !.name = n], Asks(i, n))
    BY <1>6 DEF UpdateTenant, ChangedTenant
  <2>3. [row[i] EXCEPT !.name = n] \in Row /\ Asks(i, n) \in SUBSET Question
    BY <1>4, <2>1, Edits DEF Asks, Question
  <2>4. Sound(i, [row[i] EXCEPT !.name = n], Asks(i, n))
    BY <1>4, <1>5, <2>1, <2>3, EditsKeep
  <2>5. QED
    BY <1>4, <2>1, <2>2, <2>3, <2>4 DEF Starts
<1>7. ASSUME NEW p \in Request, NEW kind \in {"tenant", "user"}, NEW i \in RowId,
             Finds(p, kind, i), Holds(p, i, Flip(row[i]), {})
      PROVE  Starts(p)
  <2>1. Flip(row[i]) \in Row /\ {} \in SUBSET Question
    BY <1>4, <1>7, Edits
  <2>2. Keeps(row[i], Flip(row[i]))
    BY <1>4, <1>7, EditsKeep
  <2>3. Sound(i, Flip(row[i]), {})
    BY <1>4, <1>5, <1>7, <2>1, <2>2
  <2>4. QED
    BY <1>4, <1>7, <2>1, <2>3 DEF Starts
<1>8. ASSUME NEW p \in Request, NEW i \in RowId, DeleteTenant(p, i)
      PROVE  Starts(p)
  <2> DEFINE copy == [row[i] EXCEPT !.deleted = TRUE, !.active = FALSE]
  <2>1. Finds(p, "tenant", i) /\ Holds(p, i, copy, {})
    BY <1>8 DEF DeleteTenant, DeletedTenant
  <2>2. copy \in Row /\ {} \in SUBSET Question
    BY <1>4, <2>1, Edits
  <2>3. Sound(i, copy, {})
    BY <1>4, <1>5, <2>1, <2>2, EditsKeep
  <2>4. QED
    BY <1>4, <2>1, <2>2, <2>3 DEF Starts
<1>9. ASSUME NEW p \in Request, NEW i \in RowId, UpdateBranch(p, i)
      PROVE  Starts(p)
  <2>1. Finds(p, "branch", i)
    BY <1>9 DEF UpdateBranch
  <2>2. PICK n \in Name, r \in {row[i], Flip(row[i])} :
          Holds(p, i, [r EXCEPT !.name = n], Asks(i, n))
    BY <1>9 DEF UpdateBranch, ChangedBranch
  <2>3. r \in Row /\ r.kind = "branch" /\ Keeps(row[i], r)
    <3>1. row[i] \in Row /\ row[i].kind = "branch"
      BY <1>4, <2>1
    <3>2. Flip(row[i]) \in Row /\ Keeps(row[i], Flip(row[i]))
      BY <3>1, Edits, EditsKeep
    <3>3. QED
      BY <2>2, <3>1, <3>2 DEF Keeps
  <2>4. [r EXCEPT !.name = n] \in Row /\ Asks(i, n) \in SUBSET Question
    BY <2>3, Edits DEF Asks, Question
  <2>5. Keeps(row[i], [r EXCEPT !.name = n])
    BY <2>3, EditsKeep DEF Keeps
  <2>6. Sound(i, [r EXCEPT !.name = n], Asks(i, n))
    BY <1>4, <1>5, <2>1, <2>4, <2>5
  <2>7. QED
    BY <1>4, <2>1, <2>2, <2>4, <2>6 DEF Starts
<1>10. ASSUME NEW p \in Request, NEW i \in RowId, DeleteBranch(p, i)
       PROVE  Starts(p)
  <2> DEFINE copy == [row[i] EXCEPT !.deleted = TRUE]
  <2>1. Finds(p, "branch", i) /\ Holds(p, i, copy, {})
    BY <1>10 DEF DeleteBranch, DeletedBranch
  <2>2. copy \in Row /\ {} \in SUBSET Question
    BY <1>4, <2>1, Edits
  <2>3. Sound(i, copy, {})
    BY <1>4, <1>5, <2>1, <2>2, EditsKeep
  <2>4. QED
    BY <1>4, <2>1, <2>2, <2>3 DEF Starts
<1>11. ASSUME NEW p \in Request, NEW i \in RowId, UpdateUser(p, i)
       PROVE  Starts(p)
  <2>1. Finds(p, "user", i)
    BY <1>11 DEF UpdateUser, FindsActiveUser
  <2>2. PICK n \in Name : Holds(p, i, [row[i] EXCEPT !.name = n], Asks(i, n))
    BY <1>11 DEF UpdateUser, ChangedUser
  <2>3. [row[i] EXCEPT !.name = n] \in Row /\ Asks(i, n) \in SUBSET Question
    BY <1>4, <2>1, Edits DEF Asks, Question
  <2>4. Sound(i, [row[i] EXCEPT !.name = n], Asks(i, n))
    BY <1>4, <1>5, <2>1, <2>3, EditsKeep
  <2>5. QED
    BY <1>4, <2>1, <2>2, <2>3, <2>4 DEF Starts
<1>12. ASSUME NEW p \in Request, NEW i \in RowId, ChangeUserPassword(p, i)
       PROVE  Starts(p)
  <2>1. Finds(p, "user", i) /\ Holds(p, i, row[i], {})
    BY <1>12 DEF ChangeUserPassword, FindsActiveUser
  <2>2. QED
    BY <1>4, <2>1 DEF Starts
<1>13. ASSUME NEW p \in Request, NEW i \in RowId, NEW b \in RowId \cup {NoRow},
              ReassignUser(p, i, b)
       PROVE  Starts(p)
  <2> DEFINE copy == [row[i] EXCEPT !.branch = b]
  <2>1. Finds(p, "user", i) /\ Holds(p, i, copy, AsksBranch(b))
    BY <1>13 DEF ReassignUser, FindsActiveUser, Reassigned
  <2>2. copy \in Row /\ AsksBranch(b) \in SUBSET Question
    BY <1>4, <2>1, Edits DEF AsksBranch, Question
  <2>3. copy.kind = row[i].kind /\ copy.tenant = row[i].tenant /\ copy.branch = b
    BY <1>4, <2>1, <2>2 DEF Row, TenantRow, BranchRow, UserRow, Empty, New
  <2>4. b # NoRow => IsA("branch", b) /\ "branch" \in AsksBranch(b)
    BY <1>13 DEF ReassignUser, AsksBranch
  <2>5. Sound(i, copy, AsksBranch(b))
    BY <1>4, <2>1, <2>3, <2>4 DEF Sound
  <2>6. QED
    BY <1>4, <2>1, <2>2, <2>5 DEF Starts
<1>14. ASSUME NEW p \in Request, AskTenant(p) \/ AskBranch(p) \/ AskName(p)
       PROVE  Asked(p)
  <2>1. request[p].asks \in SUBSET Question
    BY <1>0 DEF TypeOK
  <2>2. CASE AskTenant(p)
    BY <1>0, <2>1, <2>2 DEF AskTenant, Asked, Answered, Question, TypeOK
  <2>3. CASE AskBranch(p)
    BY <1>0, <2>1, <2>3 DEF AskBranch, Asked, Answered, Question, TypeOK
  <2>4. CASE AskName(p)
    BY <1>0, <2>1, <2>4 DEF AskName, Asked, Answered, Question, TypeOK
  <2>5. QED
    BY <1>14, <2>2, <2>3, <2>4
<1>15. ASSUME NEW p \in Request, NEW i \in RowId,
              ToggleTenantStatus(p, i) \/ ToggleUserStatus(p, i)
       PROVE  Starts(p)
  BY <1>7, <1>15 DEF ToggleTenantStatus, ToggleUserStatus
<1>16. QED
  BY <1>1, <1>2, <1>3, <1>6, <1>8, <1>9, <1>10, <1>11, <1>12, <1>13, <1>14, <1>15
  DEF Next

-----------------------------------------------------------------------------
(***************************************************************************)
(* What a write does.                                                      *)
(***************************************************************************)

\* Row i, new or in use, becomes copy, and request p is over.
Puts(p, i, copy) ==
  /\ created' \in 0 .. MaxRow
  /\ created' = created \/ (created' = created + 1 /\ i = created + 1)
  /\ i \in 1 .. created'
  /\ IF i \in 1 .. created
       THEN ~row[i].deleted /\ copy.kind = row[i].kind /\ copy.tenant = row[i].tenant
       ELSE ~copy.deleted
  /\ copy.kind \in Table
  /\ copy.branch # NoRow =>
       IsA("branch", copy.branch) /\ row[copy.branch].tenant = copy.tenant
  /\ IndexAllows(i, copy)
  /\ row' = [row EXCEPT ![i] = copy]
  /\ Ends(p)

\* The business a row already has is the one the copy has.
LEMMA SameTenant == \A r \in Row : [r EXCEPT !.tenant = r.tenant] = r
<1> SUFFICES ASSUME NEW r \in Row
             PROVE  [r EXCEPT !.tenant = r.tenant] = r
  OBVIOUS
<1>1. CASE r \in TenantRow
  BY <1>1 DEF TenantRow
<1>2. CASE r \in BranchRow
  BY <1>2 DEF BranchRow
<1>3. CASE r \in UserRow
  BY <1>3 DEF UserRow
<1>4. CASE r = Empty
  BY <1>4 DEF Empty, New
<1>5. QED
  BY <1>1, <1>2, <1>3, <1>4 DEF Row

\* A request that writes holds a sound row.
LEMMA Held ==
  ASSUME IInv, NEW p \in Request, Writes(p)
  PROVE  /\ request[p].id \in 0 .. created
         /\ request[p].copy \in Row
         /\ Sound(request[p].id, request[p].copy, {})
<1>1. request[p] # Idle
  BY DEF Writes, IsIdle, Idle, Empty, New
<1>2. QED
  BY <1>1 DEF IInv, TypeOK, SoundRequests, Writes

LEMMA Saves ==
  ASSUME IInv, NEW p \in Request, Save(p)
  PROVE  \E i \in RowId, copy \in Row : Puts(p, i, copy)
<1> DEFINE i == created + 1
           copy == request[p].copy
<1>1. created \in 0 .. MaxRow /\ created < MaxRow /\ created' = created + 1
  BY DEF IInv, TypeOK, Save
<1>2. i \in RowId /\ i \in 1 .. created' /\ i \notin 1 .. created
        /\ created' \in 0 .. MaxRow
  BY <1>1 DEF RowId
<1>3. copy \in Row /\ Sound(NoRow, copy, {})
  BY Held DEF Save
<1>4. /\ copy.kind \in Table
      /\ ~copy.deleted
      /\ copy.branch # NoRow =>
           IsA("branch", copy.branch) /\ row[copy.branch].tenant = copy.tenant
  BY <1>3 DEF Sound
<1>5. IndexAllows(i, copy) /\ row' = [row EXCEPT ![i] = copy] /\ Ends(p)
  BY DEF Save
<1>6. Puts(p, i, copy)
  BY <1>1, <1>2, <1>4, <1>5 DEF Puts
<1>7. QED
  BY <1>2, <1>3, <1>6

LEMMA Updates ==
  ASSUME IInv, NEW p \in Request, Update(p)
  PROVE  \/ \E i \in RowId, copy \in Row : Puts(p, i, copy)
         \/ Fails(p)
<1> DEFINE i == request[p].id
           copy == request[p].copy
<1>1. created' = created /\ created \in 0 .. MaxRow /\ Ends(p) /\ ~IsIdle(p)
  BY DEF IInv, TypeOK, Update, Writes
<1>2. i \in 1 .. created /\ i \in RowId /\ copy \in Row /\ Sound(i, copy, {})
  BY <1>1, Held DEF Update, NoRow, RowId
<1>3. copy.kind = row[i].kind /\ copy.tenant = row[i].tenant /\ copy.kind \in Table
  BY <1>2 DEF Sound, NoRow
<1>4. [copy EXCEPT !.tenant = row[i].tenant] = copy
  BY <1>2, <1>3, SameTenant
<1>5. CASE row[i].deleted
  <2>1. UNCHANGED row
    BY <1>5 DEF Update, Where
  <2>2. QED
    BY <1>1, <2>1 DEF Fails
<1>6. CASE ~row[i].deleted
  <2>1. IndexAllows(i, copy) /\ row' = [row EXCEPT ![i] = copy]
    BY <1>4, <1>6 DEF Update, Where
  <2>2. copy.branch # NoRow =>
          IsA("branch", copy.branch) /\ row[copy.branch].tenant = copy.tenant
    BY <1>2 DEF Sound
  <2>3. Puts(p, i, copy)
    BY <1>1, <1>2, <1>3, <1>6, <2>1, <2>2 DEF Puts
  <2>4. QED
    BY <1>2, <2>3
<1>7. QED
  BY <1>5, <1>6

\* Whatever is written, a row keeps its table and its business, and a deleted
\* row keeps everything.
LEMMA Lasting ==
  ASSUME IInv, NEW p \in Request, NEW i \in RowId, NEW copy \in Row,
         Puts(p, i, copy), NEW j \in 1 .. created
  PROVE  /\ j \in 1 .. created'
         /\ row'[j].kind = row[j].kind
         /\ row'[j].tenant = row[j].tenant
         /\ row[j].deleted => row'[j] = row[j]
         /\ j # i => row'[j] = row[j]
<1>1. created \in Nat /\ created' \in Nat /\ created <= created' /\ j \in RowId
  BY DEF IInv, TypeOK, Puts, RowId
<1>2. row'[j] = IF j = i THEN copy ELSE row[j]
  BY <1>1 DEF IInv, TypeOK, Puts
<1>3. QED
  BY <1>1, <1>2 DEF Puts

-----------------------------------------------------------------------------
(***************************************************************************)
(* The invariant is kept.                                                  *)
(***************************************************************************)

\* Nothing but request p changes, and what p then holds is sound.
Holding(p) ==
  /\ UNCHANGED <<created, row>>
  /\ \E r \in [id: 0 .. created, copy: Row, asks: SUBSET Question] :
       /\ request' = [request EXCEPT ![p] = r]
       /\ r = Idle \/ Sound(r.id, r.copy, r.asks)

LEMMA StartsHold ==
  ASSUME IInv, NEW p \in Request, Starts(p)
  PROVE  Holding(p)
<1>1. PICK i \in 0 .. created, copy \in Row, asks \in SUBSET Question :
        Holds(p, i, copy, asks) /\ Sound(i, copy, asks)
  BY DEF Starts
<1> DEFINE r == [id |-> i, copy |-> copy, asks |-> asks]
<1>2. r \in [id: 0 .. created, copy: Row, asks: SUBSET Question]
  OBVIOUS
<1>3. request' = [request EXCEPT ![p] = r] /\ UNCHANGED <<created, row>>
  BY <1>1 DEF Holds
<1>4. Sound(r.id, r.copy, r.asks)
  BY <1>1
<1> HIDE DEF r
<1>5. QED
  BY <1>2, <1>3, <1>4 DEF Holding

LEMMA AskedHold ==
  ASSUME IInv, NEW p \in Request, Asked(p)
  PROVE  Holding(p)
<1>1. PICK question \in Question : Answered(p, question)
  BY DEF Asked
<1> DEFINE r == [request[p] EXCEPT !.asks = @ \ {question}]
<1>2. request[p] \in [id: 0 .. created, copy: Row, asks: SUBSET Question]
        /\ request \in [Request -> [id: 0 .. created, copy: Row, asks: SUBSET Question]]
  BY DEF IInv, TypeOK
<1>3. /\ r \in [id: 0 .. created, copy: Row, asks: SUBSET Question]
      /\ r.id = request[p].id /\ r.copy = request[p].copy
      /\ r.asks = request[p].asks \ {question}
  BY <1>2
<1>4. request' = [request EXCEPT ![p] = r] /\ UNCHANGED <<created, row>>
  BY <1>1 DEF Answered
<1>5. request'[p] = r
  BY <1>2, <1>4
<1>6. Sound(request[p].id, request[p].copy, request[p].asks)
  BY DEF IInv, SoundRequests, Asked, Idle
<1>7. "branch" \in request[p].asks /\ "branch" \notin r.asks =>
        row[request[p].copy.branch].tenant = request[p].copy.tenant
  BY <1>5 DEF Asked, ExistsInTenant
<1> HIDE DEF r
<1>8. Sound(r.id, r.copy, r.asks)
  BY <1>3, <1>6, <1>7 DEF Sound
<1>9. QED
  BY <1>3, <1>4, <1>8 DEF Holding

LEMMA EndsHold ==
  ASSUME IInv, NEW p \in Request, Fails(p)
  PROVE  Holding(p)
<1>1. Idle \in [id: 0 .. created, copy: Row, asks: SUBSET Question]
  BY DEF IInv, TypeOK, Idle, Row, NoRow
<1>2. QED
  BY <1>1 DEF Holding, Fails, Ends

\* Every step of Next changes what one request holds, or one row.
LEMMA Effects ==
  ASSUME IInv, Next
  PROVE  \E p \in Request :
           Holding(p) \/ \E i \in RowId, copy \in Row : Puts(p, i, copy)
<1>1. PICK p \in Request : Starts(p) \/ Asked(p) \/ Save(p) \/ Update(p) \/ Fails(p)
  BY Steps
<1>2. QED
  BY <1>1, StartsHold, AskedHold, EndsHold, Saves, Updates

LEMMA HoldingKeeps ==
  ASSUME IInv, NEW p \in Request, Holding(p)
  PROVE  IInv'
<1>1. PICK r \in [id: 0 .. created, copy: Row, asks: SUBSET Question] :
        /\ request' = [request EXCEPT ![p] = r]
        /\ r = Idle \/ Sound(r.id, r.copy, r.asks)
  BY DEF Holding
<1>2. created' = created /\ row' = row
  BY DEF Holding
<1>3. TypeOK'
  BY <1>1, <1>2 DEF IInv, TypeOK
<1>4. SoundRequests'
  <2>1. SUFFICES ASSUME NEW q \in Request
                 PROVE  (\/ request[q] = Idle
                         \/ Sound(request[q].id, request[q].copy, request[q].asks))'
    BY DEF SoundRequests
  <2>2. request'[q] = IF q = p THEN r ELSE request[q]
    BY <1>1 DEF IInv, TypeOK
  <2>3. CASE q = p
    BY <1>1, <1>2, <2>2, <2>3 DEF Sound, IsA
  <2>4. CASE q # p
    BY <1>2, <2>2, <2>4 DEF IInv, SoundRequests, Sound, IsA
  <2>5. QED
    BY <2>3, <2>4
<1>5. RowsExist' /\ NamesDiffer' /\ StaffInOwnTenant'
  BY <1>2 DEF IInv, RowsExist, NamesDiffer, StaffInOwnTenant, Live, Exists, IsA
<1>6. QED
  BY <1>3, <1>4, <1>5 DEF IInv

LEMMA PutsKeep ==
  ASSUME IInv, NEW p \in Request, NEW i \in RowId, NEW copy \in Row, Puts(p, i, copy)
  PROVE  IInv'
<1> USE DEF IInv
<1>1. created \in Nat /\ created' \in Nat /\ created <= created'
  BY DEF TypeOK, Puts
<1>2. request' = [request EXCEPT ![p] = Idle] /\ row' = [row EXCEPT ![i] = copy]
  BY DEF Puts, Ends
<1>3. row'[i] = copy
  BY <1>2 DEF TypeOK
<1>4. \A j \in 1 .. created' : j \in 1 .. created \/ j = i
  BY <1>1 DEF Puts
<1>5. \A j \in 1 .. created :
        /\ j \in 1 .. created'
        /\ row'[j].kind = row[j].kind
        /\ row'[j].tenant = row[j].tenant
        /\ j # i => row'[j] = row[j]
  BY Lasting
<1>6. TypeOK'
  <2>1. Idle \in [id: 0 .. created', copy: Row, asks: SUBSET Question]
    BY <1>1 DEF Idle, Row, NoRow
  <2>2. \A q \in Request :
          request[q] \in [id: 0 .. created', copy: Row, asks: SUBSET Question]
    BY <1>1 DEF TypeOK
  <2>3. request' \in [Request -> [id: 0 .. created', copy: Row, asks: SUBSET Question]]
    BY <1>2, <2>1, <2>2 DEF TypeOK
  <2>4. row' \in [RowId -> Row] /\ created' \in 0 .. MaxRow
    BY <1>2 DEF TypeOK, Puts
  <2>5. QED
    BY <2>3, <2>4 DEF TypeOK
\* A branch stays a branch of the same business.
<1>7. ASSUME NEW b, NEW t, IsA("branch", b), row[b].tenant = t
      PROVE  b \in 1 .. created' /\ row'[b].kind = "branch" /\ row'[b].tenant = t
  BY <1>5, <1>7 DEF IsA
<1>8. SoundRequests'
  <2>1. SUFFICES ASSUME NEW q \in Request
                 PROVE  (\/ request[q] = Idle
                         \/ Sound(request[q].id, request[q].copy, request[q].asks))'
    BY DEF SoundRequests
  <2>2. CASE q = p
    BY <1>2, <2>2 DEF TypeOK
  <2>3. CASE q # p /\ request[q] # Idle
    <3> DEFINE r == request[q]
    <3>1. request'[q] = r
      BY <1>2, <2>3 DEF TypeOK
    <3>2. r.id # NoRow => r.id \in 1 .. created
      BY <1>1 DEF TypeOK, NoRow
    <3>3. Sound(r.id, r.copy, r.asks)
      BY <2>3 DEF SoundRequests
    <3> HIDE DEF r
    <3>4. r.id # NoRow => r.copy.kind = row'[r.id].kind /\ r.copy.tenant = row'[r.id].tenant
      BY <1>5, <3>2, <3>3 DEF Sound
    <3>5. r.copy.branch # NoRow =>
            /\ r.copy.branch \in 1 .. created' /\ row'[r.copy.branch].kind = "branch"
            /\ "branch" \in r.asks \/ row'[r.copy.branch].tenant = r.copy.tenant
      BY <1>5, <3>3 DEF Sound, IsA
    <3>6. QED
      BY <3>1, <3>3, <3>4, <3>5 DEF Sound, IsA
  <2>4. CASE q # p /\ request[q] = Idle
    BY <1>2, <2>4 DEF TypeOK
  <2>5. QED
    BY <2>2, <2>3, <2>4
<1>9. RowsExist'
  BY <1>3, <1>4, <1>5 DEF RowsExist, Puts
<1>10. NamesDiffer'
  <2>1. ASSUME NEW j \in 1 .. created, j # i, ~row[j].deleted, ~copy.deleted,
               SameName(row[j], copy)
        PROVE  FALSE
    BY <2>1 DEF Puts, IndexAllows
  <2>2. SUFFICES ASSUME NEW j \in 1 .. created', NEW k \in 1 .. created', j # k,
                        ~row'[j].deleted, ~row'[k].deleted, SameName(row'[j], row'[k])
                 PROVE  FALSE
    BY DEF NamesDiffer, Live
  <2>3. SameName(row'[k], row'[j])
    BY <2>2 DEF SameName
  <2>4. CASE j = i
    BY <1>3, <1>4, <1>5, <2>1, <2>2, <2>3, <2>4
  <2>5. CASE k = i
    BY <1>3, <1>4, <1>5, <2>1, <2>2, <2>5
  <2>6. CASE j # i /\ k # i
    BY <1>4, <1>5, <2>2, <2>6 DEF NamesDiffer, Live, Exists
  <2>7. QED
    BY <2>4, <2>5, <2>6
<1>11. StaffInOwnTenant'
  <2>1. SUFFICES ASSUME NEW j \in 1 .. created', row'[j].kind = "user",
                        row'[j].branch # NoRow
                 PROVE  /\ row'[j].branch \in 1 .. created'
                        /\ row'[row'[j].branch].kind = "branch"
                        /\ row'[row'[j].branch].tenant = row'[j].tenant
    BY DEF StaffInOwnTenant, IsA
  <2>2. CASE j = i
    BY <1>3, <1>7, <2>1, <2>2 DEF Puts
  <2>3. CASE j # i
    BY <1>4, <1>5, <1>7, <2>1, <2>3 DEF StaffInOwnTenant
  <2>4. QED
    BY <2>2, <2>3
<1>12. QED
  BY <1>6, <1>8, <1>9, <1>10, <1>11

LEMMA Start == Init => IInv
<1> SUFFICES ASSUME Init PROVE IInv
  OBVIOUS
<1>1. 1 .. created = {}
  BY DEF Init
<1>2. TypeOK
  BY DEF Init, TypeOK, Idle, Row, NoRow
<1>3. SoundRequests
  BY DEF Init, SoundRequests
<1>4. RowsExist /\ NamesDiffer /\ StaffInOwnTenant
  BY <1>1 DEF RowsExist, NamesDiffer, StaffInOwnTenant
<1>5. QED
  BY <1>2, <1>3, <1>4 DEF IInv

LEMMA Inductive == IInv /\ [Next]_vars => IInv'
<1> SUFFICES ASSUME IInv, [Next]_vars PROVE IInv'
  OBVIOUS
<1>1. CASE Next
  BY <1>1, Effects, HoldingKeeps, PutsKeep
<1>2. CASE UNCHANGED vars
  BY <1>2 DEF vars, IInv, TypeOK, SoundRequests, RowsExist, NamesDiffer,
              StaffInOwnTenant, Sound, IsA, Live, Exists
<1>3. QED
  BY <1>1, <1>2

\* The inductive invariant holds in every reachable state.
THEOREM Invariance == Spec => []IInv
BY Start, Inductive, PTL DEF Spec

-----------------------------------------------------------------------------
(***************************************************************************)
(* The results.                                                            *)
(***************************************************************************)

\* Rows and requests always have the shape of the tables and of the use cases.
THEOREM TypeCorrect == Spec => []TypeOK
<1>1. IInv => TypeOK
  BY DEF IInv
<1>2. QED
  BY <1>1, Invariance, PTL

\* A user is never assigned to a branch of another business, whatever requests
\* overlap between existsInTenant and the write.
THEOREM StaffStaysInTenant == Spec => []StaffInOwnTenant
<1>1. IInv => StaffInOwnTenant
  BY DEF IInv
<1>2. QED
  BY <1>1, Invariance, PTL

\* A business or branch that was deleted is never written again, although the
\* requests that loaded it before still write whole rows.
THEOREM DeletedForEver == Spec => DeletedIsFinal
<1>1. ASSUME IInv, [Next]_vars
      PROVE  [\A i \in RowId : Exists(i) /\ row[i].deleted => row'[i] = row[i]]_vars
  <2>1. SUFFICES ASSUME Next, NEW j \in RowId, Exists(j), row[j].deleted
                 PROVE  row'[j] = row[j]
    BY <1>1 DEF vars
  <2>2. j \in 1 .. created
    BY <2>1 DEF Exists
  <2>3. PICK p \in Request :
          Holding(p) \/ \E i \in RowId, copy \in Row : Puts(p, i, copy)
    BY <1>1, <2>1, Effects
  <2>4. CASE Holding(p)
    BY <2>4 DEF Holding
  <2>5. CASE \E i \in RowId, copy \in Row : Puts(p, i, copy)
    BY <1>1, <2>1, <2>2, <2>5, Lasting
  <2>6. QED
    BY <2>3, <2>4, <2>5
<1>2. QED
  BY <1>1, Invariance, PTL DEF Spec, DeletedIsFinal

-----------------------------------------------------------------------------
(***************************************************************************)
(* The register implements the abstract directory.                         *)
(***************************************************************************)

NameKeys == [table: Table, tenant: RowId \cup {NoRow}, name: Name]

EntryKey(i) == IF ~Exists(i) THEN Absent
               ELSE IF row[i].deleted THEN Retired ELSE KeyOf(row[i])

Mapped == [i \in RowId |-> EntryKey(i)]

\* The keys of rows that are not in use are no keys.
LEMMA NoKeys == Absent \notin NameKeys /\ Retired \notin NameKeys
BY DEF Absent, Retired, NameKey, NameKeys, Table

\* Equal keys are equal names.
LEMMA Keys ==
  /\ \A r, s : KeyOf(r) = KeyOf(s) <=> SameName(r, s)
  /\ \A r \in Row : r.kind \in Table => KeyOf(r) \in NameKeys
<1>1. \A r, s : KeyOf(r) = KeyOf(s) <=> SameName(r, s)
  BY DEF KeyOf, NameKey, SameName
<1>2. \A r \in Row : r.kind \in Table => KeyOf(r) \in NameKeys
  BY RowFields DEF KeyOf, NameKey, NameKeys
<1>3. QED
  BY <1>1, <1>2

\* A written row leaves every other entry alone.
LEMMA OneEntry ==
  ASSUME IInv, NEW p \in Request, NEW i \in RowId, NEW copy \in Row, Puts(p, i, copy)
  PROVE  /\ Mapped' = [Mapped EXCEPT ![i] = Mapped'[i]]
         /\ EntryKey(i)' = IF copy.deleted THEN Retired ELSE KeyOf(copy)
<1>1. created \in Nat /\ created' \in Nat
  BY DEF IInv, TypeOK, Puts
<1>2. row' = [row EXCEPT ![i] = copy] /\ row \in [RowId -> Row]
  BY DEF IInv, TypeOK, Puts
<1>3. ASSUME NEW j \in RowId, j # i
      PROVE  EntryKey(j)' = EntryKey(j)
  <2>1. row'[j] = row[j]
    BY <1>2, <1>3
  <2>2. Exists(j)' <=> Exists(j)
    BY <1>1, <1>3 DEF Puts, Exists, RowId
  <2>3. QED
    BY <2>1, <2>2 DEF EntryKey
<1>4. EntryKey(i)' = IF copy.deleted THEN Retired ELSE KeyOf(copy)
  <2>1. row'[i] = copy /\ Exists(i)'
    BY <1>2 DEF Exists, Puts
  <2>2. QED
    BY <2>1 DEF EntryKey
<1>5. Mapped' = [Mapped EXCEPT ![i] = Mapped'[i]]
  <2>1. Mapped' = [j \in RowId |-> EntryKey(j)']
    BY DEF Mapped
  <2>2. Mapped = [j \in RowId |-> EntryKey(j)]
    BY DEF Mapped
  <2>3. QED
    BY <1>3, <2>1, <2>2
<1>6. QED
  BY <1>4, <1>5

\* A name the indexes allow is free.
LEMMA FreeName ==
  ASSUME IInv, NEW i \in RowId, NEW copy \in Row, ~copy.deleted, IndexAllows(i, copy),
         NEW e \in RowId, EntryKey(e) = KeyOf(copy), copy.kind \in Table
  PROVE  e = i
<1>1. KeyOf(copy) \in NameKeys
  BY Keys
<1>2. e \in 1 .. created /\ ~row[e].deleted /\ EntryKey(e) = KeyOf(row[e])
  BY <1>1, NoKeys DEF EntryKey, Exists
<1>3. SameName(row[e], copy)
  BY <1>2, Keys
<1>4. QED
  BY <1>2, <1>3 DEF IndexAllows

LEMMA PutsMaps ==
  ASSUME IInv, NEW p \in Request, NEW i \in RowId, NEW copy \in Row, Puts(p, i, copy)
  PROVE  Entries!Next \/ Mapped' = Mapped
<1> USE DEF IInv
<1>1. Mapped' = [Mapped EXCEPT ![i] = Mapped'[i]]
  BY OneEntry
<1>2. Mapped[i] = EntryKey(i) /\ Mapped'[i] = EntryKey(i)'
  BY DEF Mapped
<1>3. Mapped'[i] = IF copy.deleted THEN Retired ELSE KeyOf(copy)
  BY <1>2, OneEntry
<1>4. Entries!Only(i)
  BY <1>1 DEF Entries!Only, Mapped, EntryKey
<1>5. copy.kind \in Table /\ IndexAllows(i, copy)
  BY DEF Puts
<1>6. CASE i \notin 1 .. created
  <2>1. ~copy.deleted /\ Mapped[i] = Absent
    BY <1>2, <1>6 DEF Puts, EntryKey, Exists
  <2>2. Mapped'[i] = KeyOf(copy) /\ KeyOf(copy) \in NameKeys
    BY <1>3, <1>5, <2>1, Keys
  <2>3. KeyOf(copy) \notin {Mapped[e] : e \in RowId}
    <3>1. SUFFICES ASSUME NEW e \in RowId, EntryKey(e) = KeyOf(copy)
                   PROVE  FALSE
      BY DEF Mapped
    <3>2. e = i
      BY <1>5, <2>1, <3>1, FreeName
    <3>3. QED
      BY <1>2, <2>1, <2>2, <3>1, <3>2, NoKeys
  <2>4. Entries!Enter(i)
    BY <1>4, <2>1, <2>2, <2>3
    DEF Entries!Enter, Entries!TakesFreeKey, Entries!InUse, Mapped, EntryKey, NameKeys
  <2>5. QED
    BY <2>4 DEF Entries!Next
<1>7. CASE i \in 1 .. created
  <2>1. ~row[i].deleted /\ row[i] \in Row /\ row[i].kind \in Table
    BY <1>7, Loaded DEF Puts
  <2>2. Mapped[i] = KeyOf(row[i]) /\ Mapped[i] \in NameKeys
    BY <1>2, <1>7, <2>1, Keys DEF EntryKey, Exists
  <2>3. CASE copy.deleted
    <3>1. Entries!Retire(i)
      BY <1>3, <1>4, <2>2, <2>3 DEF Entries!Retire, Mapped, EntryKey, NameKeys
    <3>2. QED
      BY <3>1 DEF Entries!Next
  <2>4. CASE ~copy.deleted /\ KeyOf(copy) = KeyOf(row[i])
    <3>1. Mapped'[i] = Mapped[i]
      BY <1>3, <2>2, <2>4
    <3>2. Mapped = [j \in RowId |-> EntryKey(j)]
      BY DEF Mapped
    <3>3. QED
      BY <1>1, <3>1, <3>2
  <2>5. CASE ~copy.deleted /\ KeyOf(copy) # KeyOf(row[i])
    <3>1. Mapped'[i] = KeyOf(copy) /\ KeyOf(copy) \in NameKeys
      BY <1>3, <1>5, <2>5, Keys
    <3>2. KeyOf(copy) \notin {Mapped[e] : e \in RowId}
      <4>1. SUFFICES ASSUME NEW e \in RowId, EntryKey(e) = KeyOf(copy)
                     PROVE  FALSE
        BY DEF Mapped
      <4>2. e = i
        BY <1>5, <2>5, <4>1, FreeName
      <4>3. QED
        BY <1>2, <2>2, <2>5, <4>1, <4>2
    <3>3. Entries!Rename(i)
      BY <1>4, <2>2, <3>1, <3>2
      DEF Entries!Rename, Entries!TakesFreeKey, Entries!InUse, Mapped, EntryKey, NameKeys
    <3>4. QED
      BY <3>3 DEF Entries!Next
  <2>6. QED
    BY <2>3, <2>4, <2>5
<1>8. QED
  BY <1>6, <1>7

LEMMA StepMaps ==
  ASSUME IInv, [Next]_vars
  PROVE  Entries!Next \/ Mapped' = Mapped
<1>1. CASE UNCHANGED vars
  BY <1>1 DEF vars, Mapped, EntryKey, Exists
<1>2. CASE Next
  <2>1. PICK p \in Request :
          Holding(p) \/ \E i \in RowId, copy \in Row : Puts(p, i, copy)
    BY <1>2, Effects
  <2>2. CASE Holding(p)
    BY <2>2 DEF Holding, Mapped, EntryKey, Exists
  <2>3. CASE \E i \in RowId, copy \in Row : Puts(p, i, copy)
    BY <2>3, PutsMaps
  <2>4. QED
    BY <2>1, <2>2, <2>3
<1>3. QED
  BY <1>1, <1>2

\* The tables with their unique indexes implement the directory: no two rows
\* in use ever share a name, and a retired entry never comes back.
THEOREM Implements == Spec => ImplementsDirectory
<1>1. Init => Entries!Init
  BY DEF Init, Entries!Init, Exists
<1>2. IInv /\ [Next]_vars => [Entries!Next]_(Mapped)
  BY StepMaps
<1>3. QED
  BY <1>1, <1>2, Invariance, PTL
  DEF Spec, ImplementsDirectory, Entries!Spec, Mapped, EntryKey

=============================================================================
