------------------------------ MODULE Listing -------------------------------
(***************************************************************************)
(* Reading a long list page by page, as every search of the API offers it: *)
(* the rows of one business that pass a filter, in an order, from the      *)
(* offset of the page asked for, and beside them how many there are.  Each *)
(* page is a request of its own; its rows and its total are two statements *)
(* (getManyAndCount, findAndCount); rows come and go in between.           *)
(*                                                                         *)
(* Where the order leaves two rows equal, PostgreSQL may return them in    *)
(* either order, and in another one the next time.                         *)
(***************************************************************************)
EXTENDS Naturals, FiniteSets, FiniteSetsExt

CONSTANTS
  Listed,    \* the listings looked at, each described as below
  RowId,     \* bound: the rows the table ever has, a set of numbers
  MaxKey,    \* bound: values of the column a listing is ordered by
  PageSize

ASSUME ListingAssumption ==
  /\ RowId \subseteq Nat /\ IsFiniteSet(RowId)
  /\ MaxKey \in Nat
  /\ PageSize \in Nat \ {0}

VARIABLES
  listing,  \* the listing being read
  row,      \* the table: the key each row is ordered by, 0 before its INSERT
  shown,    \* the rows the filter lets through
  reader    \* what the client has so far

listingVars == <<listing, row, shown, reader>>

-----------------------------------------------------------------------------
(***************************************************************************)
(* The listings.  tie: the id breaks ties; moves: the key is a column that *)
(* can be updated; leaves: a row can stop passing the filter.              *)
(***************************************************************************)

Products == [tie |-> TRUE, moves |-> FALSE, leaves |-> TRUE]
Users == [tie |-> TRUE, moves |-> FALSE, leaves |-> TRUE]
Branches == [tie |-> TRUE, moves |-> TRUE, leaves |-> TRUE]
Categories == [tie |-> FALSE, moves |-> FALSE, leaves |-> TRUE]
Items == [tie |-> FALSE, moves |-> FALSE, leaves |-> FALSE]
Batches == [tie |-> FALSE, moves |-> FALSE, leaves |-> FALSE]
Movements == [tie |-> FALSE, moves |-> FALSE, leaves |-> FALSE]

Key == 1 .. MaxKey

\* Mutant of Before: the id breaks no tie.
BeforeByKey(i, j) == row[i] > row[j]

\* Row i stands before row j whenever both are listed.
Before(i, j) ==
  row[i] > row[j] \/ (listing.tie /\ row[i] = row[j] /\ i > j)

\* Everything in A may be listed before everything in B.
Precede(A, B) == \A a \in A, b \in B : ~Before(b, a)

\* Mutant of Offset: pages are counted from zero.
OffsetFromZero(page) == page * PageSize

Offset(page) == (page - 1) * PageSize

Least(a, b) == IF a < b THEN a ELSE b

\* The contents the database may give a page.
Pages(page) ==
  LET n == Cardinality(shown)
      skipped == Least(Offset(page), n)
      taken == Least(PageSize, n - skipped)
  IN {rows \in kSubset(taken, shown) :
        \E front \in kSubset(skipped, shown \ rows) :
          /\ Precede(front, rows)
          /\ Precede(front \cup rows, shown \ (front \cup rows))}

-----------------------------------------------------------------------------
(***************************************************************************)
(* The reader.  due: listed when the reading began; appeared, vanished,    *)
(* moved: what happened to the list since.                                 *)
(***************************************************************************)

NotReading ==
  [page |-> 0, counted |-> TRUE, done |-> FALSE, due |-> {}, seen |-> {}, twice |-> {},
   appeared |-> FALSE, vanished |-> FALSE, moved |-> FALSE]

Reading == reader.page > 0

StartReading ==
  /\ ~Reading
  /\ reader' = [NotReading EXCEPT !.page = 1, !.due = shown]
  /\ UNCHANGED <<listing, row, shown>>

ReadRows ==
  /\ Reading
  /\ ~reader.done
  /\ reader.counted
  /\ \E rows \in Pages(reader.page) :
       reader' = [reader EXCEPT !.counted = FALSE, !.seen = @ \cup rows,
                                !.twice = @ \cup (reader.seen \cap rows)]
  /\ UNCHANGED <<listing, row, shown>>

\* The client asks for pages while the total says there are more.
ReadTotal ==
  /\ ~reader.counted
  /\ reader' = [reader EXCEPT !.counted = TRUE, !.page = @ + 1,
                              !.done = Cardinality(shown) <= Offset(reader.page + 1)]
  /\ UNCHANGED <<listing, row, shown>>

StopReading ==
  /\ Reading
  /\ reader' = NotReading
  /\ UNCHANGED <<listing, row, shown>>

(***************************************************************************)
(* Everybody else.                                                         *)
(***************************************************************************)

Seen(event) == IF Reading THEN [reader EXCEPT ![event] = TRUE] ELSE reader

Insert(i) ==
  /\ row[i] = 0
  /\ \E k \in Key : row' = [row EXCEPT ![i] = k]
  /\ shown' = shown \cup {i}
  /\ reader' = Seen("appeared")
  /\ UNCHANGED listing

Leave(i) ==
  /\ listing.leaves
  /\ i \in shown
  /\ shown' = shown \ {i}
  /\ reader' = Seen("vanished")
  /\ UNCHANGED <<listing, row>>

Return(i) ==
  /\ row[i] # 0
  /\ i \notin shown
  /\ shown' = shown \cup {i}
  /\ reader' = Seen("appeared")
  /\ UNCHANGED <<listing, row>>

Move(i) ==
  /\ listing.moves
  /\ i \in shown
  /\ \E k \in Key : row' = [row EXCEPT ![i] = k]
  /\ reader' = Seen("moved")
  /\ UNCHANGED <<listing, shown>>

-----------------------------------------------------------------------------
ListingInit ==
  /\ listing \in Listed
  /\ row = [i \in RowId |-> 0]
  /\ shown = {}
  /\ reader = NotReading

ListingNext ==
  \/ StartReading
  \/ ReadRows
  \/ ReadTotal
  \/ StopReading
  \/ \E i \in RowId : Insert(i) \/ Leave(i) \/ Return(i) \/ Move(i)

ListingSpec == ListingInit /\ [][ListingNext]_listingVars

-----------------------------------------------------------------------------
(***************************************************************************)
(* Properties.                                                             *)
(***************************************************************************)

\* Type correctness of the list and of what its reader keeps.
ListingTypeOK ==
  /\ listing \in Listed
  /\ row \in [RowId -> 0 .. MaxKey]
  /\ shown \in SUBSET {i \in RowId : row[i] # 0}
  /\ reader \in [page : Nat, counted : BOOLEAN, done : BOOLEAN, due : SUBSET RowId,
                 seen : SUBSET RowId, twice : SUBSET RowId, appeared : BOOLEAN,
                 vanished : BOOLEAN, moved : BOOLEAN]

\* Whoever reads a listing until its total says it is over has seen every row
\* that was in it at the start, however many were created on the way, unless a
\* row left the list or changed its place (the page queries of the searches).
LosesNothing ==
  reader.done /\ ~reader.vanished /\ ~reader.moved => reader.due \subseteq reader.seen

\* A row is read twice only if rows appeared or changed places meanwhile: rows
\* that leave the list never make another one come back.
RepeatsNothing == ~reader.appeared /\ ~reader.moved => reader.twice = {}

\* What a reader of pages may count on: the two above.
ReadsEachOnce == LosesNothing /\ RepeatsNothing

=============================================================================
