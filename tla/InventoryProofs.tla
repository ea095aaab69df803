-------------------------- MODULE InventoryProofs --------------------------
(***************************************************************************)
(* Proofs about the inventory item.                                        *)
(*                                                                         *)
(* For any number of requests, in any order:                               *)
(*   IInv  every row and every copy has its type and no batch, loaded or   *)
(*         stored, has more left than was received;                        *)
(*   CInv  a copy of a stored batch differs from its row in what is left   *)
(*         alone; a batch that is not stored is held by the one request    *)
(*         that received it, with its movement; what a consumption holds   *)
(*         is of its branch.  Hence every entry is accounted for once.     *)
(*                                                                         *)
(* When there is one request at a time (OneAtATime), what it read is still *)
(* what the rows say when it writes:                                       *)
(*   SInv  what it will write is the row without what it takes;            *)
(*   EInv  what it changes of the item, it changes when there is no stock; *)
(*   BInv  it takes from what its branch can use, earliest expiry first.   *)
(* Hence the stock is explained by its movements, it agrees with the item  *)
(* on whether it expires, and the item implements the stock book.          *)
(*                                                                         *)
(* Each action has a lemma (BeginRow, ReceiveRow, ...) that says what it   *)
(* does to the row of its request; the rest of the proofs cites these.     *)
(*                                                                         *)
(* First comes what the proofs need to know of SumFunctionOnSet and of     *)
(* recursive functions on an interval.  Both are defined by CHOOSE, so     *)
(* that a function of the recursive shape exists has to be shown first.    *)
(* The argument is the same everywhere: among the subsets of a finite set  *)
(* that break a claim there is a minimal one, and the claim follows for it *)
(* from the smaller ones.                                                  *)
(***************************************************************************)
EXTENDS Inventory, FiniteSetTheorems, WellFoundedInduction, SequenceTheorems, TLAPS

-----------------------------------------------------------------------------
(***************************************************************************)
(* Minimal counterexamples.                                                *)
(***************************************************************************)

\* A family of subsets of a finite set has a minimal member.
LEMMA MinimalSubset ==
  ASSUME NEW S, IsFiniteSet(S), NEW T \in SUBSET (SUBSET S), T # {}
  PROVE  \E B \in T : \A C \in T : C \subseteq B => C = B
<1> DEFINE R == StrictSubsetOrdering(S)
<1>1. IsWellFoundedOn(R, SUBSET S)
  BY FS_StrictSubsetOrderingWellFounded, FS_FiniteSubsetsOfFinite
<1> HIDE DEF R
<1>2. PICK B \in T : \A C \in T : <<C, B>> \notin R
  BY <1>1, WFMin
<1>3. ASSUME NEW C \in T, C \subseteq B  PROVE  C = B
  BY <1>2, <1>3 DEF R, StrictSubsetOrdering
<1>4. QED
  BY <1>3

\* What holds of the empty set and survives one more element holds of every
\* finite set.
LEMMA SetInduction ==
  ASSUME NEW S, IsFiniteSet(S), NEW K, {} \in K,
         \A A \in K \cap SUBSET S, x \in S : x \notin A => A \cup {x} \in K
  PROVE  S \in K
<1> DEFINE T == {B \in SUBSET S : B \notin K}
<1>1. SUFFICES ASSUME T # {} PROVE FALSE
  OBVIOUS
<1>2. PICK B \in T : \A C \in T : C \subseteq B => C = B
  <2>1. T \in SUBSET (SUBSET S)
    OBVIOUS
  <2> HIDE DEF T
  <2>2. QED
    BY <1>1, <2>1, MinimalSubset
<1>3. PICK x \in B : TRUE
  OBVIOUS
<1>4. B \ {x} \in K
  BY <1>2, <1>3
<1>5. (B \ {x}) \cup {x} = B
  BY <1>3
<1>6. QED
  BY <1>2, <1>3, <1>4, <1>5

\* The least number of a set of numbers up to n.
LEMMA LeastNumber ==
  ASSUME NEW n \in Nat, NEW T \in SUBSET (0 .. n), T # {}
  PROVE  \E i \in T : \A j \in T : i <= j
<1> DEFINE N == 0 .. n
           Family == {0 .. i : i \in T}
<1>1. IsFiniteSet(N)
  BY FS_Interval
<1>2. PICK B \in Family : \A C \in Family : C \subseteq B => C = B
  <2>0. Family # {}
    OBVIOUS
  <2>1. Family \in SUBSET (SUBSET N)
    OBVIOUS
  <2> HIDE DEF Family, N
  <2>2. QED
    BY <1>1, <2>0, <2>1, MinimalSubset
<1>3. PICK i \in T : B = 0 .. i
  OBVIOUS
<1>4. ASSUME NEW j \in T, j < i  PROVE  FALSE
  <2>1. 0 .. j \subseteq B
    BY <1>3, <1>4
  <2>2. 0 .. j = 0 .. i
    BY <1>2, <1>3, <2>1
  <2>3. i \in 0 .. i
    OBVIOUS
  <2>4. QED
    BY <1>4, <2>2, <2>3
<1>5. QED
  BY <1>4

\* What holds of 0 and of each next number up to n holds up to n.
LEMMA UpTo ==
  ASSUME NEW n \in Nat, NEW K, 0 \in K,
         \A i \in 0 .. n - 1 : i \in K => i + 1 \in K
  PROVE  0 .. n \subseteq K
<1> DEFINE T == {i \in 0 .. n : i \notin K}
<1>1. SUFFICES ASSUME T # {} PROVE FALSE
  OBVIOUS
<1>2. PICK i \in T : \A j \in T : i <= j
  BY <1>1, LeastNumber
<1>3. i # 0 /\ i - 1 \in 0 .. n - 1 /\ i - 1 \notin T
  BY <1>2
<1>4. QED
  BY <1>3

-----------------------------------------------------------------------------
(***************************************************************************)
(* The recursive function behind a sum.                                    *)
(***************************************************************************)

One(s) == CHOOSE x \in s : TRUE

IsSumOn(g, F, S) ==
  g = [s \in SUBSET S |-> IF s = {} THEN 0 ELSE F[One(s)] + g[s \ {One(s)}]]

LEMMA SumUnfolds ==
  ASSUME NEW F, NEW S
  PROVE  SumFunctionOnSet(F, S) = (CHOOSE g : IsSumOn(g, F, S))[S]
BY DEF SumFunctionOnSet, FoldFunctionOnSet, MapThenFoldSet, IsSumOn, One

\* Two such functions agree where both are defined.
LEMMA SumsAgree ==
  ASSUME NEW F, NEW A, IsFiniteSet(A), NEW B, NEW g, NEW h,
         IsSumOn(g, F, A), IsSumOn(h, F, B),
         NEW s, s \subseteq A, s \subseteq B
  PROVE  g[s] = h[s]
<1> DEFINE T == {t \in SUBSET s : g[t] # h[t]}
<1>1. IsFiniteSet(s)
  BY FS_Subset
<1>2. SUFFICES ASSUME T # {} PROVE FALSE
  OBVIOUS
<1>3. PICK t \in T : \A u \in T : u \subseteq t => u = t
  <2>1. T \in SUBSET (SUBSET s)
    OBVIOUS
  <2> HIDE DEF T
  <2>2. QED
    BY <1>1, <1>2, <2>1, MinimalSubset
<1>4. t # {}
  BY DEF IsSumOn
<1>5. One(t) \in t
  BY <1>4 DEF One
<1>6. t \ {One(t)} \notin T
  BY <1>3, <1>5
<1>7. g[t \ {One(t)}] = h[t \ {One(t)}]
  BY <1>6
<1>8. g[t] = F[One(t)] + g[t \ {One(t)}] /\ h[t] = F[One(t)] + h[t \ {One(t)}]
  BY <1>4 DEF IsSumOn
<1>9. QED
  BY <1>7, <1>8

LEMMA SumExists ==
  ASSUME NEW F, NEW S, IsFiniteSet(S)
  PROVE  \E g : IsSumOn(g, F, S)
<1> DEFINE T == {B \in SUBSET S : ~ \E g : IsSumOn(g, F, B)}
<1>1. SUFFICES ASSUME T # {} PROVE FALSE
  OBVIOUS
<1>2. PICK A \in T : \A B \in T : B \subseteq A => B = A
  <2>1. T \in SUBSET (SUBSET S)
    OBVIOUS
  <2> HIDE DEF T
  <2>2. QED
    BY <1>1, <2>1, MinimalSubset
<1> DEFINE G == [B \in SUBSET A |-> CHOOSE g : IsSumOn(g, F, B)]
           f == [s \in SUBSET A |->
                   IF s = {} THEN 0 ELSE F[One(s)] + G[s \ {One(s)}][s \ {One(s)}]]
<1>3. ASSUME NEW B \in SUBSET A, B # A  PROVE  IsSumOn(G[B], F, B) /\ IsFiniteSet(B)
  <2>1. B \notin T
    BY <1>2, <1>3
  <2>2. \E g : IsSumOn(g, F, B)
    BY <2>1
  <2>3. IsFiniteSet(B)
    BY FS_Subset
  <2>4. QED
    BY <2>2, <2>3
<1>4. ASSUME NEW s \in SUBSET A, s # A  PROVE  f[s] = G[s][s]
  <2>1. CASE s = {}
    <3>1. IsSumOn(G[s], F, s)
      BY <1>3, <1>4
    <3>2. G[s][s] = 0
      BY <2>1, <3>1 DEF IsSumOn
    <3>3. QED
      BY <2>1, <3>2
  <2>2. CASE s # {}
    <3> DEFINE r == s \ {One(s)}
    <3>1. One(s) \in s
      BY <2>2 DEF One
    <3>2. IsSumOn(G[s], F, s) /\ IsFiniteSet(s)
      BY <1>3, <1>4
    <3>3. r \in SUBSET A /\ r # A /\ r \subseteq s
      BY <3>1
    <3>4. IsSumOn(G[r], F, r)
      BY <1>3, <3>3
    <3> HIDE DEF G
    <3>5. G[s][r] = G[r][r]
      BY <3>2, <3>3, <3>4, SumsAgree
    <3>6. G[s][s] = F[One(s)] + G[s][r]
      BY <2>2, <3>2 DEF IsSumOn
    <3>7. QED
      BY <2>2, <3>5, <3>6
  <2>3. QED
    BY <2>1, <2>2
<1>5. IsSumOn(f, F, A)
  <2>1. ASSUME NEW s \in SUBSET A
        PROVE  f[s] = IF s = {} THEN 0 ELSE F[One(s)] + f[s \ {One(s)}]
    <3>1. CASE s = {}
      BY <3>1
    <3>2. CASE s # {}
      <4> DEFINE r == s \ {One(s)}
      <4>1. One(s) \in s
        BY <3>2 DEF One
      <4>2. r \in SUBSET A /\ r # A
        BY <4>1
      <4>3. f[r] = G[r][r]
        BY <1>4, <4>2
      <4>4. f[s] = F[One(s)] + G[r][r]
        BY <3>2
      <4> HIDE DEF f, G
      <4>5. QED
        BY <3>2, <4>3, <4>4
    <3>3. QED
      BY <3>1, <3>2
  <2>2. DOMAIN f = SUBSET A /\ f = [s \in SUBSET A |-> f[s]]
    OBVIOUS
  <2> HIDE DEF f
  <2>3. QED
    BY <2>1, <2>2 DEF IsSumOn
<1>6. QED
  BY <1>5

-----------------------------------------------------------------------------
(***************************************************************************)
(* Sums of natural numbers.                                                *)
(***************************************************************************)

LEMMA SumOfNone ==
  ASSUME NEW F
  PROVE  SumFunctionOnSet(F, {}) = 0
<1>1. IsFiniteSet({})
  BY FS_EmptySet
<1>2. PICK g : IsSumOn(g, F, {})
  BY <1>1, SumExists
<1>3. IsSumOn(CHOOSE h : IsSumOn(h, F, {}), F, {})
  BY <1>2
<1> DEFINE h == CHOOSE h : IsSumOn(h, F, {})
<1> HIDE DEF h
<1>4. IsSumOn(h, F, {})
  BY <1>3 DEF h
<1>5. h[{}] = 0
  BY <1>4 DEF IsSumOn
<1>6. QED
  BY <1>5, SumUnfolds DEF h

LEMMA SumTakesOne ==
  ASSUME NEW F, NEW S, IsFiniteSet(S), S # {}
  PROVE  SumFunctionOnSet(F, S) = F[One(S)] + SumFunctionOnSet(F, S \ {One(S)})
<1> DEFINE g == CHOOSE g : IsSumOn(g, F, S)
           r == S \ {One(S)}
           h == CHOOSE h : IsSumOn(h, F, r)
<1>1. IsFiniteSet(r)
  BY FS_RemoveElement
<1>2. IsSumOn(g, F, S)
  BY SumExists
<1>3. IsSumOn(h, F, r)
  BY <1>1, SumExists
<1> HIDE DEF g, h
<1>4. g[r] = h[r]
  BY <1>2, <1>3, SumsAgree
<1>5. g[S] = F[One(S)] + g[r]
  BY <1>2 DEF IsSumOn
<1>6. SumFunctionOnSet(F, S) = g[S] /\ SumFunctionOnSet(F, r) = h[r]
  BY SumUnfolds DEF g, h
<1>7. QED
  BY <1>4, <1>5, <1>6

\* The sum of natural numbers is one.
LEMMA SumType ==
  ASSUME NEW S, IsFiniteSet(S), NEW F, \A x \in S : F[x] \in Nat
  PROVE  SumFunctionOnSet(F, S) \in Nat
<1> DEFINE T == {B \in SUBSET S : SumFunctionOnSet(F, B) \notin Nat}
<1>1. SUFFICES ASSUME T # {} PROVE FALSE
  OBVIOUS
<1>2. PICK B \in T : \A C \in T : C \subseteq B => C = B
  <2>1. T \in SUBSET (SUBSET S)
    OBVIOUS
  <2> HIDE DEF T
  <2>2. QED
    BY <1>1, <2>1, MinimalSubset
<1>3. B # {} /\ IsFiniteSet(B)
  <2>1. B # {}
    BY SumOfNone
  <2>2. QED
    BY <2>1, FS_Subset
<1>4. One(B) \in B
  BY <1>3 DEF One
<1>5. B \ {One(B)} \notin T
  BY <1>2, <1>4
<1>6. SumFunctionOnSet(F, B \ {One(B)}) \in Nat /\ F[One(B)] \in Nat
  BY <1>4, <1>5
<1>7. QED
  BY <1>3, <1>6, SumTakesOne

\* Any element can be taken out first.
LEMMA SumSplits ==
  ASSUME NEW S, IsFiniteSet(S), NEW F, \A x \in S : F[x] \in Nat, NEW x \in S
  PROVE  SumFunctionOnSet(F, S) = F[x] + SumFunctionOnSet(F, S \ {x})
<1> DEFINE Sum(A) == SumFunctionOnSet(F, A)
           T == {B \in SUBSET S : \E y \in B : Sum(B) # F[y] + Sum(B \ {y})}
<1>1. SUFFICES ASSUME T # {} PROVE FALSE
  OBVIOUS
<1>2. PICK B \in T : \A C \in T : C \subseteq B => C = B
  <2>1. T \in SUBSET (SUBSET S)
    OBVIOUS
  <2> HIDE DEF T
  <2>2. QED
    BY <1>1, <2>1, MinimalSubset
<1>3. PICK y \in B : Sum(B) # F[y] + Sum(B \ {y})
  OBVIOUS
<1> DEFINE c == One(B)
<1>4. c \in B
  BY <1>3 DEF One
<1>5. IsFiniteSet(B) /\ IsFiniteSet(B \ {y, c})
  BY FS_Subset
<1>6. Sum(B) = F[c] + Sum(B \ {c})
  BY <1>3, <1>5, SumTakesOne
<1>7. c # y
  BY <1>3, <1>6
<1>8. B \ {c} \notin T /\ B \ {y} \notin T
  BY <1>2, <1>3, <1>4
<1>9. Sum(B \ {c}) = F[y] + Sum(B \ {y, c}) /\ Sum(B \ {y}) = F[c] + Sum(B \ {y, c})
  <2>1. (B \ {c}) \ {y} = B \ {y, c} /\ (B \ {y}) \ {c} = B \ {y, c}
    OBVIOUS
  <2>2. y \in B \ {c} /\ c \in B \ {y} /\ B \ {c} \in SUBSET S /\ B \ {y} \in SUBSET S
    BY <1>4, <1>7
  <2> HIDE DEF c, Sum
  <2>3. QED
    BY <1>8, <2>1, <2>2
<1>10. Sum(B \ {y, c}) \in Nat /\ F[c] \in Nat /\ F[y] \in Nat
  BY <1>4, <1>5, SumType
<1> HIDE DEF Sum, c
<1>11. QED
  BY <1>3, <1>6, <1>9, <1>10

LEMMA SumOfOneMore ==
  ASSUME NEW S, IsFiniteSet(S), NEW x, x \notin S, NEW F,
         \A y \in S \cup {x} : F[y] \in Nat
  PROVE  SumFunctionOnSet(F, S \cup {x}) = F[x] + SumFunctionOnSet(F, S)
<1>1. IsFiniteSet(S \cup {x}) /\ (S \cup {x}) \ {x} = S
  BY FS_AddElement
<1>2. SumFunctionOnSet(F, S \cup {x})
        = F[x] + SumFunctionOnSet(F, (S \cup {x}) \ {x})
  BY <1>1, SumSplits
<1>3. QED
  BY <1>1, <1>2

\* Equal terms, equal sums.
LEMMA SumsOfEquals ==
  ASSUME NEW S, IsFiniteSet(S), NEW F, NEW G,
         \A x \in S : F[x] \in Nat /\ G[x] = F[x]
  PROVE  SumFunctionOnSet(G, S) = SumFunctionOnSet(F, S)
<1> DEFINE K == {A \in SUBSET S : SumFunctionOnSet(G, A) = SumFunctionOnSet(F, A)}
<1>1. {} \in K
  BY SumOfNone
<1>2. ASSUME NEW A \in K \cap SUBSET S, NEW x \in S, x \notin A  PROVE  A \cup {x} \in K
  <2>1. IsFiniteSet(A)
    BY FS_Subset
  <2>2. SumFunctionOnSet(F, A \cup {x}) = F[x] + SumFunctionOnSet(F, A)
    BY <1>2, <2>1, SumOfOneMore
  <2>3. SumFunctionOnSet(G, A \cup {x}) = G[x] + SumFunctionOnSet(G, A)
    BY <1>2, <2>1, SumOfOneMore
  <2>4. QED
    BY <2>2, <2>3
<1> HIDE DEF K
<1>3. S \in K
  BY <1>1, <1>2, SetInduction
<1>4. QED
  BY <1>3 DEF K

\* Zeros add nothing.
LEMMA SumOfZeros ==
  ASSUME NEW S, IsFiniteSet(S), NEW F, \A x \in S : F[x] = 0
  PROVE  SumFunctionOnSet(F, S) = 0
<1> DEFINE K == {A \in SUBSET S : SumFunctionOnSet(F, A) = 0}
<1>1. {} \in K
  BY SumOfNone
<1>2. ASSUME NEW A \in K \cap SUBSET S, NEW x \in S, x \notin A  PROVE  A \cup {x} \in K
  <2>1. IsFiniteSet(A)
    BY FS_Subset
  <2>2. F[x] = 0 /\ \A y \in A \cup {x} : F[y] \in Nat
    OBVIOUS
  <2>3. SumFunctionOnSet(F, A \cup {x}) = F[x] + SumFunctionOnSet(F, A)
    <3> HIDE DEF K
    <3>1. QED
      BY <1>2, <2>1, <2>2, SumOfOneMore
  <2>4. QED
    BY <2>2, <2>3
<1> HIDE DEF K
<1>3. S \in K
  BY <1>1, <1>2, SetInduction
<1>4. QED
  BY <1>3 DEF K

\* One term alone makes the sum.
LEMMA SumOfSingle ==
  ASSUME NEW S, IsFiniteSet(S), NEW x \in S, NEW F, F[x] \in Nat,
         \A y \in S \ {x} : F[y] = 0
  PROVE  SumFunctionOnSet(F, S) = F[x]
<1>1. \A y \in S : F[y] \in Nat
  OBVIOUS
<1>2. SumFunctionOnSet(F, S) = F[x] + SumFunctionOnSet(F, S \ {x})
  BY <1>1, SumSplits
<1>3. SumFunctionOnSet(F, S \ {x}) = 0
  BY SumOfZeros, FS_RemoveElement
<1>4. QED
  BY <1>2, <1>3

\* When one term changes, the sum changes with it.
LEMMA SumAfterChange ==
  ASSUME NEW S, IsFiniteSet(S), NEW x \in S, NEW F, NEW G,
         \A y \in S : F[y] \in Nat, \A y \in S : G[y] \in Nat,
         \A y \in S \ {x} : G[y] = F[y]
  PROVE  SumFunctionOnSet(G, S) + F[x] = SumFunctionOnSet(F, S) + G[x]
<1> DEFINE R == S \ {x}
<1>1. IsFiniteSet(R)
  BY FS_RemoveElement
<1>2. SumFunctionOnSet(G, R) = SumFunctionOnSet(F, R)
  BY <1>1, SumsOfEquals
<1>3. SumFunctionOnSet(F, R) \in Nat
  BY <1>1, SumType
<1>4. SumFunctionOnSet(F, S) = F[x] + SumFunctionOnSet(F, R)
  BY SumSplits
<1>5. SumFunctionOnSet(G, S) = G[x] + SumFunctionOnSet(G, R)
  BY SumSplits
<1>6. F[x] \in Nat /\ G[x] \in Nat
  OBVIOUS
<1> HIDE DEF R
<1>7. QED
  BY <1>2, <1>3, <1>4, <1>5, <1>6

\* No term exceeds the sum.
LEMMA SumCovers ==
  ASSUME NEW S, IsFiniteSet(S), NEW x \in S, NEW F, \A y \in S : F[y] \in Nat
  PROVE  F[x] <= SumFunctionOnSet(F, S)
<1>1. SumFunctionOnSet(F, S) = F[x] + SumFunctionOnSet(F, S \ {x})
  BY SumSplits
<1>2. SumFunctionOnSet(F, S \ {x}) \in Nat
  BY SumType, FS_RemoveElement
<1>3. QED
  BY <1>1, <1>2

-----------------------------------------------------------------------------
(***************************************************************************)
(* Sums over the positions of a sequence.                                  *)
(***************************************************************************)

\* The first n terms, and the m that follow them.
LEMMA SumOfBoth ==
  ASSUME NEW n \in Nat, NEW m \in Nat, NEW F, NEW G,
         \A i \in 1 .. n + m : F[i] \in Nat,
         \A i \in 1 .. m : G[i] = F[n + i]
  PROVE  SumFunctionOnSet(F, 1 .. n + m)
           = SumFunctionOnSet(F, 1 .. n) + SumFunctionOnSet(G, 1 .. m)
<1> DEFINE Claim(j) == SumFunctionOnSet(F, 1 .. n + j)
                         = SumFunctionOnSet(F, 1 .. n) + SumFunctionOnSet(G, 1 .. j)
           K == {j \in 0 .. m : Claim(j)}
<1>1. SumFunctionOnSet(F, 1 .. n) \in Nat
  <2>1. IsFiniteSet(1 .. n) /\ \A i \in 1 .. n : F[i] \in Nat
    BY FS_Interval
  <2>2. QED
    BY <2>1, SumType
<1>2. 0 \in K
  <2>1. 1 .. 0 = {} /\ n + 0 = n /\ 0 \in 0 .. m
    OBVIOUS
  <2>2. SumFunctionOnSet(G, 1 .. 0) = 0
    BY <2>1, SumOfNone
  <2>3. QED
    BY <1>1, <2>1, <2>2
<1>3. ASSUME NEW j \in 0 .. m - 1, j \in K  PROVE  j + 1 \in K
  <2> DEFINE A == 1 .. n + j
             B == 1 .. j
             x == n + j + 1
             y == j + 1
  <2>1. /\ IsFiniteSet(A) /\ x \notin A /\ A \cup {x} = 1 .. n + (j + 1)
        /\ IsFiniteSet(B) /\ y \notin B /\ B \cup {y} = 1 .. j + 1
    <3>1. IsFiniteSet(A) /\ IsFiniteSet(B)
      BY FS_Interval
    <3>2. x \notin A /\ A \cup {x} = 1 .. n + (j + 1)
      OBVIOUS
    <3>3. y \notin B /\ B \cup {y} = 1 .. j + 1
      OBVIOUS
    <3>4. QED
      BY <3>1, <3>2, <3>3
  <2>2. /\ \A i \in A \cup {x} : F[i] \in Nat
        /\ \A i \in B \cup {y} : G[i] \in Nat
        /\ F[x] \in Nat /\ G[y] = F[x]
    OBVIOUS
  <2>3. SumFunctionOnSet(F, A) = SumFunctionOnSet(F, 1 .. n) + SumFunctionOnSet(G, B)
    BY <1>3
  <2>4. j + 1 \in 0 .. m
    OBVIOUS
  <2> HIDE DEF A, B, x, y
  <2>5. SumFunctionOnSet(F, A \cup {x}) = F[x] + SumFunctionOnSet(F, A)
    BY <2>1, <2>2, SumOfOneMore
  <2>6. SumFunctionOnSet(G, B \cup {y}) = G[y] + SumFunctionOnSet(G, B)
    BY <2>1, <2>2, SumOfOneMore
  <2>7. SumFunctionOnSet(G, B) \in Nat
    BY <2>1, <2>2, SumType
  <2>8. SumFunctionOnSet(F, A \cup {x})
          = SumFunctionOnSet(F, 1 .. n) + SumFunctionOnSet(G, B \cup {y})
    BY <1>1, <2>2, <2>3, <2>5, <2>6, <2>7
  <2>9. Claim(j + 1)
    BY <2>1, <2>8
  <2>10. QED
    BY <2>4, <2>9
<1> HIDE DEF K
<1>4. 0 .. m \subseteq K
  BY <1>2, <1>3, UpTo
<1>5. m \in K
  BY <1>4
<1>6. QED
  BY <1>5 DEF K

Move == [batch: BatchId, units: Quantity]

-----------------------------------------------------------------------------
(***************************************************************************)
(* Units among moves.                                                      *)
(***************************************************************************)

Units(b, moves) ==
  [i \in 1 .. Len(moves) |-> IF moves[i].batch = b THEN moves[i].units ELSE 0]

LEMMA UnitsAreSum ==
  ASSUME NEW b, NEW moves \in Seq(Move)
  PROVE  /\ UnitsOf(b, moves) = SumFunctionOnSet(Units(b, moves), 1 .. Len(moves))
         /\ IsFiniteSet(1 .. Len(moves))
         /\ \A i \in 1 .. Len(moves) : Units(b, moves)[i] \in Nat
<1>1. Len(moves) \in Nat /\ \A i \in 1 .. Len(moves) : moves[i] \in Move
  OBVIOUS
<1>2. \A i \in 1 .. Len(moves) : Units(b, moves)[i] \in Nat
  BY <1>1, InventoryBounds DEF Units, Move, Quantity
<1>3. IsFiniteSet(1 .. Len(moves))
  BY <1>1, FS_Interval
<1>4. DOMAIN Units(b, moves) = 1 .. Len(moves)
  BY DEF Units
<1>5. UnitsOf(b, moves) = SumFunction(Units(b, moves))
  BY DEF UnitsOf, Units
<1>6. QED
  BY <1>2, <1>3, <1>4, <1>5 DEF SumFunction

LEMMA UnitsType ==
  ASSUME NEW b, NEW moves \in Seq(Move)
  PROVE  UnitsOf(b, moves) \in Nat
BY UnitsAreSum, SumType

LEMMA UnitsOfNone ==
  ASSUME NEW b
  PROVE  UnitsOf(b, <<>>) = 0
<1>1. <<>> \in Seq(Move) /\ 1 .. Len(<<>>) = {}
  OBVIOUS
<1>2. UnitsOf(b, <<>>) = SumFunctionOnSet(Units(b, <<>>), 1 .. Len(<<>>))
  BY <1>1, UnitsAreSum
<1>3. QED
  BY <1>1, <1>2, SumOfNone

\* Only one of the moves is of the batch.
LEMMA UnitsOfSingle ==
  ASSUME NEW b, NEW moves \in Seq(Move), NEW i \in 1 .. Len(moves),
         moves[i].batch = b, \A j \in 1 .. Len(moves) \ {i} : moves[j].batch # b
  PROVE  UnitsOf(b, moves) = moves[i].units
<1>1. Units(b, moves)[i] = moves[i].units /\ Units(b, moves)[i] \in Nat
  BY UnitsAreSum DEF Units
<1>2. \A j \in 1 .. Len(moves) \ {i} : Units(b, moves)[j] = 0
  BY DEF Units
<1>3. IsFiniteSet(1 .. Len(moves))
  BY UnitsAreSum
<1>4. SumFunctionOnSet(Units(b, moves), 1 .. Len(moves)) = Units(b, moves)[i]
  BY <1>1, <1>2, <1>3, SumOfSingle
<1>5. QED
  BY <1>1, <1>4, UnitsAreSum

\* None of the moves is of the batch.
LEMMA UnitsOfOthers ==
  ASSUME NEW b, NEW moves \in Seq(Move), \A j \in 1 .. Len(moves) : moves[j].batch # b
  PROVE  UnitsOf(b, moves) = 0
<1>1. \A j \in 1 .. Len(moves) : Units(b, moves)[j] = 0
  BY DEF Units
<1>2. QED
  BY <1>1, UnitsAreSum, SumOfZeros

LEMMA UnitsOfBoth ==
  ASSUME NEW b, NEW s \in Seq(Move), NEW t \in Seq(Move)
  PROVE  UnitsOf(b, s \o t) = UnitsOf(b, s) + UnitsOf(b, t)
<1> DEFINE n == Len(s)
           m == Len(t)
           F == Units(b, s \o t)
           G == Units(b, t)
           H == Units(b, s)
<1>1. /\ n \in Nat /\ m \in Nat /\ s \o t \in Seq(Move) /\ Len(s \o t) = n + m
      /\ \A i \in 1 .. n : (s \o t)[i] = s[i]
      /\ \A i \in 1 .. m : (s \o t)[n + i] = t[i]
  OBVIOUS
<1>2. \A i \in 1 .. n + m : F[i] \in Nat
  BY <1>1, UnitsAreSum
<1>3. \A i \in 1 .. m : G[i] = F[n + i]
  BY <1>1 DEF Units
<1>4. \A i \in 1 .. n : F[i] = H[i]
  BY <1>1 DEF Units
<1>5. /\ UnitsOf(b, s \o t) = SumFunctionOnSet(F, 1 .. n + m)
      /\ UnitsOf(b, s) = SumFunctionOnSet(H, 1 .. n)
      /\ UnitsOf(b, t) = SumFunctionOnSet(G, 1 .. m)
      /\ IsFiniteSet(1 .. n) /\ \A i \in 1 .. n : H[i] \in Nat
  BY <1>1, UnitsAreSum
<1> HIDE DEF n, m, F, G, H
<1>6. SumFunctionOnSet(F, 1 .. n + m)
        = SumFunctionOnSet(F, 1 .. n) + SumFunctionOnSet(G, 1 .. m)
  BY <1>1, <1>2, <1>3, SumOfBoth
<1>7. SumFunctionOnSet(F, 1 .. n) = SumFunctionOnSet(H, 1 .. n)
  BY <1>4, <1>5, SumsOfEquals
<1>8. QED
  BY <1>5, <1>6, <1>7

LEMMA UnitsOfHead ==
  ASSUME NEW b, NEW s \in Seq(Move), s # <<>>
  PROVE  /\ Head(s) \in Move /\ <<Head(s)>> \in Seq(Move) /\ Tail(s) \in Seq(Move)
         /\ UnitsOf(b, s) = UnitsOf(b, <<Head(s)>>) + UnitsOf(b, Tail(s))
<1>1. Head(s) \in Move /\ <<Head(s)>> \in Seq(Move) /\ Tail(s) \in Seq(Move)
  OBVIOUS
<1>2. s = <<Head(s)>> \o Tail(s)
  OBVIOUS
<1>3. QED
  BY <1>1, <1>2, UnitsOfBoth

LEMMA UnitsOfAppended ==
  ASSUME NEW b, NEW s \in Seq(Move), NEW m \in Move
  PROVE  /\ Append(s, m) \in Seq(Move)
         /\ UnitsOf(b, Append(s, m)) = UnitsOf(b, s) + UnitsOf(b, <<m>>)
<1>1. Append(s, m) = s \o <<m>> /\ <<m>> \in Seq(Move)
  OBVIOUS
<1>2. UnitsOf(b, s \o <<m>>) = UnitsOf(b, s) + UnitsOf(b, <<m>>)
  BY <1>1, UnitsOfBoth
<1>3. QED
  BY <1>1, <1>2

-----------------------------------------------------------------------------
(***************************************************************************)
(* Spreading a quantity over batches.                                      *)
(***************************************************************************)

IsPending(g, order, rows, quantity, n) ==
  g = [i \in 0 .. n |->
         IF i = 0 THEN quantity
         ELSE g[i - 1] - SmallerOf(g[i - 1], rows[order[i]].remaining)]

LEMMA PendingExists ==
  ASSUME NEW n \in Nat, NEW order, NEW rows, NEW quantity
  PROVE  \E g : IsPending(g, order, rows, quantity, n)
<1> DEFINE K == {k \in 0 .. n : \E g : IsPending(g, order, rows, quantity, k)}
<1>1. 0 \in K
  <2> DEFINE g == [i \in 0 .. 0 |-> quantity]
  <2>1. IsPending(g, order, rows, quantity, 0)
    BY DEF IsPending
  <2>2. QED
    BY <2>1
<1>2. ASSUME NEW k \in 0 .. n - 1, k \in K  PROVE  k + 1 \in K
  <2>1. PICK g : IsPending(g, order, rows, quantity, k)
    BY <1>2
  <2> DEFINE h == [i \in 0 .. k + 1 |->
                     IF i <= k THEN g[i]
                     ELSE g[k] - SmallerOf(g[k], rows[order[k + 1]].remaining)]
  <2>2. ASSUME NEW i \in 0 .. k + 1
        PROVE  h[i] = IF i = 0 THEN quantity
                      ELSE h[i - 1] - SmallerOf(h[i - 1], rows[order[i]].remaining)
    <3>1. CASE i = 0
      BY <2>1, <3>1 DEF IsPending
    <3>2. CASE i # 0 /\ i <= k
      <4>1. h[i] = g[i] /\ h[i - 1] = g[i - 1] /\ i \in 0 .. k
        BY <3>2
      <4>2. g[i] = g[i - 1] - SmallerOf(g[i - 1], rows[order[i]].remaining)
        BY <2>1, <3>2, <4>1 DEF IsPending
      <4>3. QED
        BY <3>2, <4>1, <4>2
    <3>3. CASE i = k + 1
      BY <3>3
    <3>4. QED
      BY <3>1, <3>2, <3>3
  <2>3. h = [i \in 0 .. k + 1 |-> h[i]]
    OBVIOUS
  <2> HIDE DEF h
  <2>4. IsPending(h, order, rows, quantity, k + 1)
    BY <2>2, <2>3 DEF IsPending
  <2>5. QED
    BY <2>4
<1> HIDE DEF K
<1>3. n \in K
  BY <1>1, <1>2, UpTo
<1>4. QED
  BY <1>3 DEF K

\* What is pending never grows and no batch gives more than it has; a batch
\* that keeps something is the last one touched.
LEMMA TakesFit ==
  ASSUME NEW n \in Nat, NEW order, Len(order) = n, NEW rows, NEW quantity \in Nat,
         \A i \in 1 .. n : rows[order[i]].remaining \in Nat
  PROVE  LET takes == Takes(order, rows, quantity)
         IN /\ DOMAIN takes = 1 .. n
            /\ \A i \in 1 .. n : takes[i] \in 0 .. rows[order[i]].remaining
            /\ \A i, j \in 1 .. n :
                 i < j /\ takes[i] # rows[order[i]].remaining => takes[j] = 0
<1> DEFINE left(i) == rows[order[i]].remaining
           pending == CHOOSE g : IsPending(g, order, rows, quantity, n)
           takes == [i \in 1 .. n |-> pending[i - 1] - pending[i]]
<1>1. IsPending(pending, order, rows, quantity, n)
  BY PendingExists
<1>2. Takes(order, rows, quantity) = takes
  BY DEF Takes, IsPending
<1> HIDE DEF pending
<1>3. /\ pending[0] = quantity
      /\ \A i \in 1 .. n : pending[i] = pending[i - 1] - SmallerOf(pending[i - 1], left(i))
  BY <1>1 DEF IsPending
<1>4. ASSUME NEW i \in 0 .. n  PROVE  pending[i] \in Nat
  <2> DEFINE K == {k \in 0 .. n : pending[k] \in Nat}
  <2>1. 0 \in K
    BY <1>3
  <2>2. ASSUME NEW k \in 0 .. n - 1, k \in K  PROVE  k + 1 \in K
    <3>1. k + 1 \in 1 .. n /\ k + 1 \in 0 .. n /\ (k + 1) - 1 = k
      OBVIOUS
    <3>2. pending[k + 1] = pending[k] - SmallerOf(pending[k], left(k + 1))
      BY <1>3, <3>1
    <3>3. left(k + 1) \in Nat /\ pending[k] \in Nat
      BY <2>2, <3>1
    <3>4. pending[k + 1] \in Nat
      BY <3>2, <3>3 DEF SmallerOf
    <3>5. QED
      BY <3>1, <3>4
  <2> HIDE DEF K
  <2>3. 0 .. n \subseteq K
    BY <2>1, <2>2, UpTo
  <2>4. QED
    BY <2>3 DEF K
<1>5. ASSUME NEW i \in 1 .. n
      PROVE  /\ takes[i] \in 0 .. left(i)
             /\ takes[i] # left(i) => pending[i] = 0
             /\ pending[i - 1] = 0 => takes[i] = 0 /\ pending[i] = 0
  <2>1. pending[i - 1] \in Nat /\ left(i) \in Nat
    BY <1>4
  <2>2. takes[i] = SmallerOf(pending[i - 1], left(i))
    BY <1>3, <2>1 DEF SmallerOf
  <2>3. pending[i] = pending[i - 1] - takes[i]
    BY <1>3, <2>2
  <2> HIDE DEF takes, left
  <2>4. QED
    BY <2>1, <2>2, <2>3 DEF SmallerOf
<1>6. ASSUME NEW i \in 1 .. n, NEW j \in 1 .. n, i < j, takes[i] # left(i)
      PROVE  takes[j] = 0
  <2> DEFINE K == {k \in 0 .. n : i + k <= n => pending[i + k] = 0}
  <2>1. 0 \in K
    BY <1>5, <1>6
  <2>2. ASSUME NEW k \in 0 .. n - 1, k \in K  PROVE  k + 1 \in K
    <3>1. CASE i + (k + 1) <= n
      <4>1. i + (k + 1) \in 1 .. n /\ (i + (k + 1)) - 1 = i + k
        BY <3>1
      <4>2. pending[i + k] = 0
        BY <2>2, <3>1
      <4>3. QED
        BY <1>5, <4>1, <4>2
    <3>2. CASE ~ (i + (k + 1) <= n)
      BY <3>2
    <3>3. QED
      BY <3>1, <3>2
  <2> HIDE DEF K
  <2>3. 0 .. n \subseteq K
    BY <2>1, <2>2, UpTo
  <2> DEFINE d == (j - 1) - i
  <2>4. d \in 0 .. n /\ i + d = j - 1 /\ j - 1 <= n
    BY <1>6
  <2> HIDE DEF d
  <2>5. pending[i + d] = 0
    BY <2>3, <2>4 DEF K
  <2>6. QED
    BY <1>5, <2>4, <2>5
<1>7. QED
  BY <1>2, <1>5, <1>6

-----------------------------------------------------------------------------
(***************************************************************************)
(* A withdrawal takes from active batches only, and no more than they have.*)
(***************************************************************************)

LEMMA BatchIdFinite ==
  /\ IsFiniteSet(BatchId) /\ BatchId \subseteq Nat \ {0}
  /\ \A S \in SUBSET BatchId : IsFiniteSet(S) /\ Cardinality(S) \in Nat
<1>1. IsFiniteSet(BatchId)
  BY InventoryBounds, FS_Interval DEF BatchId
<1>2. BatchId \subseteq Nat \ {0}
  BY InventoryBounds DEF BatchId
<1>3. ASSUME NEW S \in SUBSET BatchId  PROVE  IsFiniteSet(S) /\ Cardinality(S) \in Nat
  BY <1>1, FS_Subset, FS_CardinalityType
<1>4. QED
  BY <1>1, <1>2, <1>3

\* An order of some batches names each of them once.
LEMMA OrderOf ==
  ASSUME NEW S \in SUBSET BatchId, NEW rows, NEW order \in SortedByFefo(S, rows)
  PROVE  /\ Len(order) = Cardinality(S) /\ Len(order) \in Nat
         /\ order \in [1 .. Len(order) -> S]
         /\ \A i, j \in 1 .. Len(order) : i # j => order[i] # order[j]
<1>1. Cardinality(S) \in Nat
  BY BatchIdFinite
<1>2. /\ order \in [1 .. Cardinality(S) -> S]
      /\ \A i, j \in 1 .. Cardinality(S) : i # j => order[i] # order[j]
  BY DEF SortedByFefo, SetToSeqs
<1>3. Len(order) = Cardinality(S)
  BY <1>1, <1>2
<1>4. QED
  BY <1>1, <1>2, <1>3

\* ... and leaves none out.
LEMMA OrderOfAll ==
  ASSUME NEW S \in SUBSET BatchId, NEW rows, NEW order \in SortedByFefo(S, rows)
  PROVE  \A b \in S : \E i \in 1 .. Len(order) : order[i] = b
<1>1. /\ Len(order) = Cardinality(S) /\ Len(order) \in Nat
      /\ order \in [1 .. Len(order) -> S]
      /\ \A i, j \in 1 .. Len(order) : i # j => order[i] # order[j]
  BY OrderOf
<1> DEFINE n == Len(order)
<1> HIDE DEF n
<1>2. IsFiniteSet(S) /\ IsFiniteSet(1 .. n) /\ Cardinality(1 .. n) = n
  <2>1. n \in Nat
    BY <1>1 DEF n
  <2>2. QED
    BY <2>1, BatchIdFinite, FS_Interval
<1>3. order \in Injection(1 .. n, S)
  BY <1>1 DEF n, Injection, IsInjective
<1>4. order \in Surjection(1 .. n, S)
  BY <1>1, <1>2, <1>3, FS_Injection DEF n
<1>5. QED
  BY <1>4 DEF n, Surjection

LEMMA TouchedFew ==
  ASSUME NEW n \in Nat, NEW takes, DOMAIN takes = 1 .. n
  PROVE  Cardinality(Touched(takes)) \in 0 .. n
<1>1. IsFiniteSet(1 .. n) /\ Cardinality(1 .. n) = n
  BY FS_Interval
<1>2. Touched(takes) \in SUBSET (1 .. n)
  BY DEF Touched
<1>3. IsFiniteSet(Touched(takes)) /\ Cardinality(Touched(takes)) <= n
  BY <1>1, <1>2, FS_Subset
<1>4. Cardinality(Touched(takes)) \in Nat
  BY <1>3, FS_CardinalityType
<1>5. QED
  BY <1>3, <1>4

\* The rows from which a withdrawal takes.
Stocked(S, rows) == \A b \in S : rows[b].remaining \in Quantity

\* The moves are what is taken from the first batches of the order.
Matches(order, rows, takes, moves) ==
  /\ moves \in Seq(Move) /\ Len(moves) <= Len(order)
  /\ \A i \in 1 .. Len(order) : takes[i] \in 0 .. rows[order[i]].remaining
  /\ \A i \in 1 .. Len(moves) : UnitsOf(order[i], moves) = takes[i]
  /\ \A b \in BatchId :
       (\A i \in 1 .. Len(moves) : order[i] # b) => UnitsOf(b, moves) = 0

\* A withdrawal publishes what is taken from the first batches of the order.
LEMMA UnitsTaken ==
  ASSUME NEW S \in SUBSET BatchId, NEW rows,
         Stocked(S, rows),
         NEW quantity \in Nat, NEW order \in SortedByFefo(S, rows),
         NEW takes, takes = Takes(order, rows, quantity),
         NEW moves, moves = MovesOf(order, takes)
  PROVE  Matches(order, rows, takes, moves)
<1> DEFINE n == Len(order)
           m == Cardinality(Touched(takes))
<1>1. /\ n \in Nat /\ order \in [1 .. n -> S]
      /\ \A i, j \in 1 .. n : i # j => order[i] # order[j]
  BY OrderOf
<1>2. \A i \in 1 .. n : rows[order[i]].remaining \in Quantity
  BY <1>1 DEF Stocked
<1>3. DOMAIN takes = 1 .. n /\ \A i \in 1 .. n : takes[i] \in 0 .. rows[order[i]].remaining
  <2>1. \A i \in 1 .. n : rows[order[i]].remaining \in Nat
    BY <1>2, InventoryBounds DEF Quantity
  <2>2. QED
    BY <1>1, <2>1, TakesFit
<1>4. m \in 0 .. n
  BY <1>1, <1>3, TouchedFew
<1>5. moves = [i \in 1 .. m |-> [batch |-> order[i], units |-> takes[i]]]
  BY DEF MovesOf
<1> HIDE DEF n, m
<1>6. ASSUME NEW i \in 1 .. m
      PROVE  moves[i] \in Move /\ moves[i].batch = order[i] /\ moves[i].units = takes[i]
  <2>1. i \in 1 .. n
    BY <1>1, <1>4
  <2>2. takes[i] \in Quantity
    BY <1>2, <1>3, <2>1, InventoryBounds DEF Quantity
  <2>3. order[i] \in BatchId
    BY <1>1, <2>1
  <2>4. QED
    BY <1>5, <2>2, <2>3 DEF Move
<1>7. moves \in Seq(Move) /\ Len(moves) = m
  <2>1. moves \in [1 .. m -> Move]
    BY <1>5, <1>6
  <2>2. m \in Nat
    BY <1>1, <1>4
  <2>3. QED
    BY <2>1, <2>2
<1>8. ASSUME NEW i \in 1 .. m  PROVE  UnitsOf(order[i], moves) = takes[i]
  <2>1. i \in 1 .. n /\ \A j \in 1 .. m : j \in 1 .. n
    BY <1>1, <1>4
  <2>2. \A j \in 1 .. m \ {i} : moves[j].batch # order[i]
    BY <1>1, <1>6, <2>1
  <2>3. i \in 1 .. Len(moves) /\ moves[i].batch = order[i]
    BY <1>6, <1>7
  <2>4. UnitsOf(order[i], moves) = moves[i].units
    BY <1>7, <2>2, <2>3, UnitsOfSingle
  <2>5. QED
    BY <1>6, <2>4
<1>9. ASSUME NEW b \in BatchId, \A i \in 1 .. m : order[i] # b
      PROVE  UnitsOf(b, moves) = 0
  <2>1. \A j \in 1 .. Len(moves) : moves[j].batch # b
    BY <1>6, <1>7, <1>9
  <2>2. QED
    BY <1>7, <2>1, UnitsOfOthers
<1>10. m <= n
  BY <1>1, <1>4
<1>11. QED
  BY <1>3, <1>7, <1>8, <1>9, <1>10 DEF n, Matches

LEMMA WithdrawalFits ==
  ASSUME NEW S \in SUBSET BatchId, NEW rows,
         \A b \in S : rows[b].remaining \in Quantity,
         NEW quantity \in Nat, NEW order \in SortedByFefo(S, rows)
  PROVE  LET moves == MovesOf(order, Takes(order, rows, quantity))
         IN /\ moves \in Seq(Move)
            /\ \A b \in BatchId : UnitsOf(b, moves) \in Nat
            /\ \A b \in S : UnitsOf(b, moves) <= rows[b].remaining
            /\ \A b \in BatchId \ S : UnitsOf(b, moves) = 0
<1> DEFINE takes == Takes(order, rows, quantity)
           moves == MovesOf(order, takes)
<1>1. /\ takes = Takes(order, rows, quantity) /\ moves = MovesOf(order, takes)
      /\ Stocked(S, rows)
  BY DEF Stocked
<1> HIDE DEF takes, moves
<1>2. /\ moves \in Seq(Move) /\ Len(moves) <= Len(order)
      /\ \A i \in 1 .. Len(order) : takes[i] \in 0 .. rows[order[i]].remaining
      /\ \A i \in 1 .. Len(moves) : UnitsOf(order[i], moves) = takes[i]
      /\ \A b \in BatchId :
           (\A i \in 1 .. Len(moves) : order[i] # b) => UnitsOf(b, moves) = 0
  <2>1. Matches(order, rows, takes, moves)
    BY <1>1, UnitsTaken
  <2>2. QED
    BY <2>1 DEF Matches
<1>3. Len(order) \in Nat /\ order \in [1 .. Len(order) -> S]
  BY OrderOf
<1>4. Len(moves) \in Nat /\ \A i \in 1 .. Len(moves) : i \in 1 .. Len(order)
  BY <1>2, <1>3
<1>5. ASSUME NEW b \in BatchId
      PROVE  /\ UnitsOf(b, moves) \in Nat
             /\ b \in S => UnitsOf(b, moves) <= rows[b].remaining
             /\ b \notin S => UnitsOf(b, moves) = 0
  <2>1. UnitsOf(b, moves) \in Nat
    BY <1>2, UnitsType
  <2>2. b \in S => rows[b].remaining \in Nat
    BY InventoryBounds DEF Quantity
  <2>3. CASE \E i \in 1 .. Len(moves) : order[i] = b
    <3>1. PICK i \in 1 .. Len(moves) : order[i] = b
      BY <2>3
    <3>2. i \in 1 .. Len(order) /\ b \in S
      BY <1>3, <1>4, <3>1
    <3>3. UnitsOf(b, moves) = takes[i] /\ takes[i] \in 0 .. rows[b].remaining
      BY <1>2, <3>1, <3>2
    <3>4. QED
      BY <2>1, <2>2, <3>2, <3>3
  <2>4. CASE \A i \in 1 .. Len(moves) : order[i] # b
    BY <1>2, <2>2, <2>4
  <2>5. QED
    BY <2>3, <2>4
<1>6. QED
  BY <1>2, <1>5 DEF moves, takes

\* Batches with an expiry are ordered by it.
LEMMA OrderedByExpiry ==
  ASSUME NEW S \in SUBSET BatchId, NEW rows,
         \A b \in S : rows[b].expiry \in Nat /\ rows[b].expiry # NoExpiry,
         NEW order \in SortedByFefo(S, rows),
         NEW i \in 1 .. Len(order), NEW j \in 1 .. Len(order), i <= j
  PROVE  rows[order[i]].expiry <= rows[order[j]].expiry
<1> DEFINE n == Len(order)
           e(k) == rows[order[k]].expiry
<1>1. n \in Nat /\ order \in [1 .. n -> S]
  BY OrderOf
<1>2. \A k \in 1 .. n : e(k) \in Nat /\ order[k] \in S
  BY <1>1
<1>3. \A k \in 1 .. n - 1 : Fefo(rows[order[k]], rows[order[k + 1]])
  BY DEF SortedByFefo
<1>4. ASSUME NEW k \in 1 .. n - 1  PROVE  e(k) <= e(k + 1)
  <2>1. k \in 1 .. n /\ k + 1 \in 1 .. n
    BY <1>1
  <2>2. order[k] \in S /\ order[k + 1] \in S
    BY <1>2, <2>1
  <2>3. QED
    BY <1>3, <2>2 DEF Fefo
<1> HIDE DEF e
<1> DEFINE K == {k \in 0 .. n : i + k <= n => e(i) <= e(i + k)}
<1>5. 0 \in K
  BY <1>1, <1>2
<1>6. ASSUME NEW k \in 0 .. n - 1, k \in K  PROVE  k + 1 \in K
  <2>1. CASE i + (k + 1) <= n
    <3>1. /\ i + k \in 1 .. n - 1 /\ i + k \in 1 .. n /\ i + (k + 1) \in 1 .. n
          /\ (i + k) + 1 = i + (k + 1) /\ i + k <= n
      BY <1>1, <2>1
    <3>2. e(i) <= e(i + k) /\ e(i + k) <= e(i + (k + 1))
      <4>1. e(i + k) <= e((i + k) + 1)
        BY <1>4, <3>1
      <4>2. QED
        BY <1>6, <3>1, <4>1
    <3>3. e(i) \in Nat /\ e(i + k) \in Nat /\ e(i + (k + 1)) \in Nat
      BY <1>2, <3>1
    <3>4. e(i) <= e(i + (k + 1))
      BY <3>2, <3>3
    <3>5. QED
      BY <1>1, <3>4
  <2>2. CASE ~ (i + (k + 1) <= n)
    BY <1>1, <2>2
  <2>3. QED
    BY <2>1, <2>2
<1> HIDE DEF K
<1>7. 0 .. n \subseteq K
  BY <1>1, <1>5, <1>6, UpTo
<1> DEFINE d == j - i
<1>8. d \in 0 .. n /\ i + d = j /\ i + d <= n
  BY <1>1
<1> HIDE DEF d
<1>9. e(i) <= e(i + d)
  BY <1>7, <1>8 DEF K
<1>10. QED
  BY <1>8, <1>9 DEF e

\* When something is taken from a batch, those that expire before are emptied.
LEMMA FirstExpiredFirst ==
  ASSUME NEW S \in SUBSET BatchId, NEW rows,
         \A b \in S : rows[b].remaining \in Quantity /\ rows[b].expiry \in 0 .. NoExpiry,
         \/ \A b \in S : rows[b].expiry # NoExpiry
         \/ \A b \in S : rows[b].expiry = NoExpiry,
         NEW quantity \in Nat, NEW order \in SortedByFefo(S, rows),
         NEW b \in S, NEW c \in S, rows[c].expiry < rows[b].expiry,
         UnitsOf(b, MovesOf(order, Takes(order, rows, quantity))) # 0
  PROVE  UnitsOf(c, MovesOf(order, Takes(order, rows, quantity))) = rows[c].remaining
<1> DEFINE takes == Takes(order, rows, quantity)
           moves == MovesOf(order, takes)
           n == Len(order)
<1>1. /\ takes = Takes(order, rows, quantity) /\ moves = MovesOf(order, takes)
      /\ Stocked(S, rows)
  BY DEF Stocked
<1> HIDE DEF takes, moves
<1>2. /\ moves \in Seq(Move) /\ Len(moves) <= n
      /\ \A i \in 1 .. n : takes[i] \in 0 .. rows[order[i]].remaining
      /\ \A i \in 1 .. Len(moves) : UnitsOf(order[i], moves) = takes[i]
      /\ \A x \in BatchId :
           (\A i \in 1 .. Len(moves) : order[i] # x) => UnitsOf(x, moves) = 0
  <2>1. Matches(order, rows, takes, moves)
    BY <1>1, UnitsTaken
  <2>2. QED
    BY <2>1 DEF Matches, n
<1>3. n \in Nat /\ order \in [1 .. n -> S]
  BY OrderOf
<1>4. \A x \in S : rows[x].expiry \in Nat /\ rows[x].expiry <= NoExpiry
  BY InventoryBounds DEF NoExpiry
<1>5. \A x \in S : rows[x].expiry # NoExpiry
  BY <1>4, InventoryBounds DEF NoExpiry
<1>6. \A i, j \in 1 .. n :
        i < j /\ takes[i] # rows[order[i]].remaining => takes[j] = 0
  <2>1. \A i \in 1 .. n : rows[order[i]].remaining \in Nat
    BY <1>3, InventoryBounds DEF Quantity
  <2>2. QED
    BY <1>1, <1>3, <2>1, TakesFit
<1>7. UnitsOf(b, moves) # 0
  BY DEF takes, moves
<1>8. Len(moves) \in Nat /\ \A k \in 1 .. Len(moves) : k \in 1 .. n
  BY <1>2, <1>3
<1>9. PICK j \in 1 .. Len(moves) : order[j] = b
  BY <1>2, <1>7
<1>10. PICK i \in 1 .. n : order[i] = c
  <2>1. \A x \in S : \E i \in 1 .. n : order[i] = x
    BY OrderOfAll
  <2>2. QED
    BY <2>1
<1>11. ~ (j <= i)
  <2>1. \A x \in S : rows[x].expiry \in Nat /\ rows[x].expiry # NoExpiry
    BY <1>4, <1>5
  <2>2. j <= i => rows[order[j]].expiry <= rows[order[i]].expiry
    BY <1>8, <2>1, OrderedByExpiry
  <2>3. QED
    BY <1>4, <1>9, <1>10, <2>2
<1> HIDE DEF n
<1>12. i < j /\ i \in 1 .. Len(moves) /\ j \in 1 .. n
  BY <1>3, <1>8, <1>11
<1>13. takes[j] # 0
  BY <1>2, <1>7, <1>9
<1>14. takes[i] = rows[c].remaining
  BY <1>6, <1>10, <1>12, <1>13
<1>15. UnitsOf(c, moves) = takes[i]
  BY <1>2, <1>10, <1>12
<1>16. QED
  BY <1>14, <1>15 DEF moves, takes

LEMMA StockType ==
  ASSUME NEW r, r.batches \in [BatchId -> Batch], r.loaded \in SUBSET BatchId, NEW day
  PROVE  StockIn(r, day) \in Nat /\ ActiveIn(r, day) \in SUBSET BatchId
<1> DEFINE F == [b \in BatchId |-> r.batches[b].remaining]
<1>1. ActiveIn(r, day) \in SUBSET BatchId
  BY DEF ActiveIn
<1>2. \A b \in BatchId : F[b] \in Nat
  BY InventoryBounds DEF Batch, Quantity
<1>3. IsFiniteSet(ActiveIn(r, day)) /\ \A b \in ActiveIn(r, day) : F[b] \in Nat
  BY <1>1, <1>2, BatchIdFinite
<1> HIDE DEF F
<1>4. SumFunctionOnSet(F, ActiveIn(r, day)) \in Nat
  BY <1>3, SumType
<1>5. QED
  BY <1>1, <1>4 DEF StockIn, F

-----------------------------------------------------------------------------
(***************************************************************************)
(* Types, and what is left within what was received.                       *)
(***************************************************************************)

Within(rows) == \A b \in BatchId : rows[b].remaining <= rows[b].received

LoadedAreCreated == \A p \in Request : request[p].loaded \subseteq 1 .. created

RowsWithin == Within(batches) /\ \A p \in Request : Within(request[p].batches)

SomethingToPublish == \A p \in Request : At(p, "publish") => request[p].moves # <<>>

IInv == TypeOK /\ LoadedAreCreated /\ RowsWithin /\ SomethingToPublish

LEMMA ConstantTypes ==
  /\ Unset \in Minimum /\ 0 \in Quantity /\ 0 \in Day
  /\ Quantity \subseteq Nat /\ Day \subseteq Nat
  /\ NoBatch \in Batch /\ NewItem \in Item
  /\ <<>> \in Seq(Move)
  /\ Idle \in RequestRow /\ EmptyBook \in Book
<1>1. /\ Unset \in Minimum /\ 0 \in Quantity /\ 0 \in Day
      /\ Quantity \subseteq Nat /\ Day \subseteq Nat
  BY InventoryBounds DEF Minimum, Quantity, Day
<1>2. NoBatch \in Batch
  BY <1>1 DEF NoBatch, Batch
<1>3. NewItem \in Item
  BY <1>1 DEF NewItem, Item
<1>4. <<>> \in Seq(Move)
  OBVIOUS
<1>5. EmptyBook \in Book
  BY DEF EmptyBook, Book
<1>6. Idle \in RequestRow
  BY <1>1, <1>2, <1>3, <1>4
  DEF Idle, RequestRow, Step, Kind, Withdrawal, Move
<1>7. QED
  BY <1>1, <1>2, <1>3, <1>4, <1>5, <1>6

\* What is entered of some moves is numbers of units.
LEMMA EnteredType ==
  ASSUME NEW book \in Book, NEW moves \in Seq(Move), NEW direction
  PROVE  /\ Entered(book, moves, direction) \in Book
         /\ \A k \in BatchId \X Direction :
              Entered(book, moves, direction)[k]
                = IF k[2] = direction THEN book[k] + UnitsOf(k[1], moves) ELSE book[k]
<1>1. DOMAIN book = BatchId \X Direction
  BY DEF Book
<1>2. \A k \in BatchId \X Direction : UnitsOf(k[1], moves) \in Nat /\ book[k] \in Nat
  BY UnitsType DEF Book
<1>3. QED
  BY <1>1, <1>2 DEF Entered, Book

LEMMA InitIInv == Init => IInv
<1> SUFFICES ASSUME Init PROVE IInv
  OBVIOUS
<1>1. item \in Item
  BY ConstantTypes DEF Init, Item
<1>2. created \in 0 .. MaxBatch /\ started \in 0 .. MaxRequests /\ stored \subseteq 1 .. created
  BY InventoryBounds DEF Init
<1>3. batches \in [BatchId -> Batch] /\ overrides \in [Branch -> Minimum]
  BY ConstantTypes DEF Init
<1>4. request \in [Request -> RequestRow] /\ \A p \in Request : request[p] = Idle
  BY ConstantTypes DEF Init
<1>5. ledger \in Book /\ logged \in Book /\ lost \in Book
  BY ConstantTypes DEF Init
<1>6. LoadedAreCreated
  BY <1>4 DEF LoadedAreCreated, Idle
<1>7. RowsWithin
  BY <1>4, ConstantTypes DEF Init, RowsWithin, Within, Idle, NoBatch
<1>8. SomethingToPublish
  BY <1>4 DEF SomethingToPublish, At, Idle
<1>9. QED
  BY <1>1, <1>2, <1>3, <1>4, <1>5, <1>6, <1>7, <1>8 DEF IInv, TypeOK

\* A step of one request: its new row has the shape of a request, what it
\* loaded was created and fits.
RowOk(p) ==
  /\ request'[p] \in RequestRow
  /\ request'[p].loaded \subseteq 1 .. created'
  /\ Within(request'[p].batches)
  /\ request'[p].step = "publish" => request'[p].moves # <<>>

OthersWait(p) == \A q \in Request \ {p} : request'[q] = request[q]

LEMMA RowChanges ==
  ASSUME IInv, NEW p \in Request, NEW r, request' = [request EXCEPT ![p] = r],
         r \in RequestRow, r.loaded \subseteq 1 .. created', Within(r.batches),
         r.step = "publish" => r.moves # <<>>
  PROVE  /\ RowOk(p) /\ OthersWait(p) /\ request'[p] = r
         /\ request' \in [Request -> RequestRow]
BY DEF IInv, TypeOK, RowOk, OthersWait

LEMMA RowOfRequest ==
  ASSUME IInv, NEW p \in Request
  PROVE  /\ request[p] \in RequestRow
         /\ request[p].step \in Step /\ request[p].kind \in Kind
         /\ request[p].branch \in Branch \cup {Unset}
         /\ request[p].item \in Item /\ request[p].seen \in Item
         /\ request[p].loaded \in SUBSET BatchId
         /\ request[p].batches \in [BatchId -> Batch]
         /\ request[p].overrides \in [Branch -> Minimum]
         /\ request[p].day \in Day
         /\ request[p].moves \in Seq(Move) /\ request[p].failed \in Seq(Move)
         /\ request[p].loaded \subseteq 1 .. created
         /\ Within(request[p].batches)
         /\ request[p].step = "publish" => request[p].moves # <<>>
<1>1. request[p] \in RequestRow
  BY DEF IInv, TypeOK
<1>2. /\ request[p].loaded \subseteq 1 .. created /\ Within(request[p].batches)
      /\ request[p].step = "publish" => request[p].moves # <<>>
  BY DEF IInv, LoadedAreCreated, RowsWithin, SomethingToPublish, At
<1>3. QED
  BY <1>1, <1>2 DEF RequestRow, Move

LEMMA StoredAreIds ==
  ASSUME IInv
  PROVE  created \in Nat /\ 1 .. created \subseteq BatchId /\ stored \subseteq BatchId
<1>1. created \in Nat /\ 1 .. created \subseteq BatchId
  BY InventoryBounds DEF IInv, TypeOK, BatchId
<1>2. QED
  BY <1>1 DEF IInv, TypeOK

LEMMA IInvKept ==
  ASSUME IInv, NEW p \in Request, RowOk(p), OthersWait(p),
         request' \in [Request -> RequestRow],
         created' \in 0 .. MaxBatch, created <= created',
         item' \in Item, stored' \subseteq 1 .. created',
         batches' \in [BatchId -> Batch], Within(batches'),
         overrides' \in [Branch -> Minimum], started' \in 0 .. MaxRequests,
         ledger' \in Book, logged' \in Book, lost' \in Book
  PROVE  IInv'
<1>1. LoadedAreCreated'
  <2> SUFFICES ASSUME NEW q \in Request PROVE request'[q].loaded \subseteq 1 .. created'
    BY DEF LoadedAreCreated
  <2>1. CASE q = p
    BY <2>1 DEF RowOk
  <2>2. CASE q # p
    <3>1. request'[q].loaded \subseteq 1 .. created
      BY <2>2 DEF OthersWait, IInv, LoadedAreCreated
    <3>2. 1 .. created \subseteq 1 .. created'
      BY InventoryBounds DEF IInv, TypeOK
    <3>3. QED
      BY <3>1, <3>2
  <2>3. QED
    BY <2>1, <2>2
<1>2. RowsWithin'
  <2>1. ASSUME NEW q \in Request PROVE Within(request'[q].batches)
    BY DEF OthersWait, RowOk, IInv, RowsWithin
  <2>2. QED
    BY <2>1 DEF RowsWithin, Within
<1>3. TypeOK'
  BY DEF TypeOK
<1>4. SomethingToPublish'
  BY DEF OthersWait, RowOk, IInv, SomethingToPublish, At
<1>5. QED
  BY <1>1, <1>2, <1>3, <1>4 DEF IInv

\* A step of a request that touches nothing but its own row.
Alone(p) ==
  /\ UNCHANGED <<tables, books>>
  /\ started' \in 0 .. MaxRequests

LEMMA IInvAlone ==
  ASSUME IInv, NEW p \in Request, RowOk(p), OthersWait(p), Alone(p),
         request' \in [Request -> RequestRow],
         created' \in 0 .. MaxBatch, created <= created'
  PROVE  IInv'
<1>1. /\ item' = item /\ stored' = stored /\ batches' = batches /\ overrides' = overrides
      /\ ledger' = ledger /\ logged' = logged /\ lost' = lost
  BY DEF Alone, tables, books
<1>2. 1 .. created \subseteq 1 .. created'
  BY InventoryBounds DEF IInv, TypeOK
<1>3. /\ item' \in Item /\ stored' \subseteq 1 .. created' /\ batches' \in [BatchId -> Batch]
      /\ overrides' \in [Branch -> Minimum]
      /\ ledger' \in Book /\ logged' \in Book /\ lost' \in Book
  BY <1>1, <1>2 DEF IInv, TypeOK
<1>4. Within(batches')
  BY <1>1 DEF IInv, RowsWithin, Within
<1>5. started' \in 0 .. MaxRequests
  BY DEF Alone
<1>6. QED
  BY <1>3, <1>4, <1>5, IInvKept

-----------------------------------------------------------------------------
(***************************************************************************)
(* What each action does to the row of its request.                        *)
(***************************************************************************)

LEMMA BeginRow ==
  ASSUME IInv, NEW p \in Request, Begin(p)
  PROVE  /\ IInv' /\ OthersWait(p) /\ RowOk(p)
         /\ request[p].step = "idle" /\ request'[p].step = "batches"
         /\ request'[p].loaded = {} /\ request'[p].moves = <<>> /\ request'[p].failed = <<>>
         /\ request'[p].item = item
         /\ request'[p].branch \in BranchesOf(request'[p].kind)
         /\ UNCHANGED <<tables, books, created>>
<1>1. PICK kind \in Explored : \E x \in BranchesOf(kind) :
        request' = [request EXCEPT ![p] =
          [Idle EXCEPT !.step = "batches", !.kind = kind, !.branch = x, !.item = item]]
  BY DEF Begin
<1>2. PICK x \in BranchesOf(kind) :
        request' = [request EXCEPT ![p] =
          [Idle EXCEPT !.step = "batches", !.kind = kind, !.branch = x, !.item = item]]
  BY <1>1
<1> DEFINE r == [Idle EXCEPT !.step = "batches", !.kind = kind, !.branch = x, !.item = item]
<1>3. /\ r.step = "batches" /\ r.kind = kind /\ r.branch = x /\ r.item = item
      /\ r.seen = NewItem /\ r.loaded = {} /\ r.batches = [b \in BatchId |-> NoBatch]
      /\ r.moves = <<>> /\ r.failed = <<>>
  BY DEF Idle
<1>4. r \in RequestRow
  <2>1. kind \in Kind /\ x \in Branch \cup {Unset} /\ item \in Item
    BY ExploredAssumption DEF BranchesOf, IInv, TypeOK
  <2>2. Idle \in RequestRow
    BY ConstantTypes
  <2>3. QED
    BY <2>1, <2>2 DEF RequestRow, Step
<1>5. Within(r.batches)
  BY <1>3, ConstantTypes DEF Within, NoBatch
<1> HIDE DEF r
<1>6. request' = [request EXCEPT ![p] = r]
  BY <1>2 DEF r
<1>7. RowOk(p) /\ OthersWait(p) /\ request'[p] = r /\ request' \in [Request -> RequestRow]
  BY <1>3, <1>4, <1>5, <1>6, RowChanges
<1>8. UNCHANGED <<tables, books, created>>
  BY DEF Begin
<1>9. Alone(p)
  BY <1>8, InventoryBounds DEF Begin, Alone, IInv, TypeOK
<1>10. created' \in 0 .. MaxBatch /\ created <= created'
  BY <1>8, InventoryBounds DEF IInv, TypeOK
<1>11. IInv'
  BY <1>7, <1>9, <1>10, IInvAlone
<1>12. request[p].step = "idle"
  BY DEF Begin, At
<1>13. QED
  BY <1>3, <1>7, <1>8, <1>11, <1>12

LEMMA LoadBatchesRow ==
  ASSUME IInv, NEW p \in Request, LoadBatches(p)
  PROVE  /\ IInv' /\ OthersWait(p) /\ RowOk(p)
         /\ request[p].step = "batches" /\ request'[p].step = "overrides"
         /\ request'[p].kind = request[p].kind /\ request'[p].branch = request[p].branch
         /\ request'[p].item = request[p].item
         /\ request'[p].loaded = {b \in stored : Loads(request[p], b)}
         /\ \A b \in request'[p].loaded : request'[p].batches[b] = batches[b]
         /\ \A b \in BatchId \ request'[p].loaded : request'[p].batches[b] = NoBatch
         /\ request'[p].moves = request[p].moves /\ request'[p].failed = request[p].failed
         /\ UNCHANGED <<tables, books, created>>
<1> DEFINE ids == {b \in stored : Loads(request[p], b)}
           rows == [b \in BatchId |-> IF b \in ids THEN batches[b] ELSE NoBatch]
           r == [request[p] EXCEPT !.step = "overrides", !.loaded = ids, !.batches = rows]
<1>1. request' = [request EXCEPT ![p] = r]
  BY DEF LoadBatches, IInv, TypeOK
<1>2. ids \subseteq 1 .. created /\ ids \in SUBSET BatchId
  BY StoredAreIds DEF IInv, TypeOK
<1>3. rows \in [BatchId -> Batch]
  BY ConstantTypes DEF IInv, TypeOK
<1>4. Within(rows)
  BY ConstantTypes DEF IInv, RowsWithin, Within, NoBatch
<1>5. \A b \in ids : rows[b] = batches[b]
  BY <1>2
<1>6. \A b \in BatchId \ ids : rows[b] = NoBatch
  OBVIOUS
<1> HIDE DEF rows
<1>7. r \in RequestRow
  BY <1>2, <1>3, RowOfRequest DEF RequestRow, Step
<1>8. /\ r.step = "overrides" /\ r.loaded = ids /\ r.batches = rows
      /\ r.kind = request[p].kind /\ r.branch = request[p].branch /\ r.item = request[p].item
      /\ r.moves = request[p].moves /\ r.failed = request[p].failed
  BY RowOfRequest DEF RequestRow
<1>9. UNCHANGED <<tables, books, created>> /\ started' = started
  BY DEF LoadBatches
<1> HIDE DEF r, ids
<1>10. RowOk(p) /\ OthersWait(p) /\ request'[p] = r /\ request' \in [Request -> RequestRow]
  BY <1>1, <1>2, <1>4, <1>7, <1>8, <1>9, RowChanges
<1>11. Alone(p)
  BY <1>9 DEF Alone, IInv, TypeOK
<1>12. created' \in 0 .. MaxBatch /\ created <= created'
  BY <1>9, InventoryBounds DEF IInv, TypeOK
<1>13. IInv'
  BY <1>10, <1>11, <1>12, IInvAlone
<1>14. request[p].step = "batches"
  BY DEF LoadBatches, At
<1>15. QED
  BY <1>5, <1>6, <1>8, <1>9, <1>10, <1>13, <1>14 DEF ids

LEMMA LoadOverridesRow ==
  ASSUME IInv, NEW p \in Request, LoadOverrides(p)
  PROVE  /\ IInv' /\ OthersWait(p) /\ RowOk(p)
         /\ request[p].step = "overrides" /\ request'[p].step = "operate"
         /\ request'[p].kind = request[p].kind /\ request'[p].branch = request[p].branch
         /\ request'[p].item = request[p].item
         /\ request'[p].loaded = request[p].loaded
         /\ request'[p].batches = request[p].batches
         /\ request'[p].moves = request[p].moves /\ request'[p].failed = request[p].failed
         /\ UNCHANGED <<tables, books, created>>
<1> DEFINE minimums == [x \in Branch |->
                          IF LoadsOneBranch(request[p].kind) /\ x # request[p].branch
                            THEN Unset ELSE overrides[x]]
           r == [request[p] EXCEPT !.step = "operate", !.overrides = minimums]
<1>1. request' = [request EXCEPT ![p] = r]
  BY DEF LoadOverrides, IInv, TypeOK
<1>2. minimums \in [Branch -> Minimum]
  BY ConstantTypes DEF IInv, TypeOK
<1> HIDE DEF minimums
<1>3. r \in RequestRow
  BY <1>2, RowOfRequest DEF RequestRow, Step
<1>4. /\ r.step = "operate" /\ r.loaded = request[p].loaded /\ r.batches = request[p].batches
      /\ r.kind = request[p].kind /\ r.branch = request[p].branch /\ r.item = request[p].item
      /\ r.moves = request[p].moves /\ r.failed = request[p].failed
  BY RowOfRequest DEF RequestRow
<1>5. UNCHANGED <<tables, books, created>> /\ started' = started
  BY DEF LoadOverrides
<1> HIDE DEF r
<1>6. RowOk(p) /\ OthersWait(p) /\ request'[p] = r /\ request' \in [Request -> RequestRow]
  BY <1>1, <1>3, <1>4, <1>5, RowOfRequest, RowChanges
<1>7. IInv'
  <2>1. Alone(p)
    BY <1>5 DEF Alone, IInv, TypeOK
  <2>2. created' \in 0 .. MaxBatch /\ created <= created'
    BY <1>5, InventoryBounds DEF IInv, TypeOK
  <2>3. QED
    BY <1>6, <2>1, <2>2, IInvAlone
<1>8. request[p].step = "overrides"
  BY DEF LoadOverrides, At
<1>9. QED
  BY <1>4, <1>5, <1>6, <1>7, <1>8

LEMMA ReceiveRow ==
  ASSUME IInv, NEW p \in Request, Receive(p)
  PROVE  /\ IInv' /\ OthersWait(p) /\ RowOk(p)
         /\ request[p].step = "operate" /\ request'[p].step = "save"
         /\ request[p].kind = "receive" /\ request'[p].kind = "receive"
         /\ request'[p].branch = request[p].branch /\ request'[p].item = request[p].item
         /\ request'[p].batches[created'].branch = request[p].branch
         /\ request'[p].batches[created'].remaining > 0
         /\ created' = created + 1 /\ created' \in BatchId
         /\ request'[p].loaded = request[p].loaded \cup {created'}
         /\ \A b \in BatchId \ {created'} :
              request'[p].batches[b] = request[p].batches[b]
         /\ request'[p].batches[created'].remaining = request'[p].batches[created'].received
         /\ (request'[p].batches[created'].expiry # NoExpiry
               <=> request[p].item.isPerishable)
         /\ request'[p].moves
              = <<[batch |-> created', units |-> request'[p].batches[created'].received]>>
         /\ request'[p].failed = request[p].failed
         /\ UNCHANGED <<tables, books>>
<1> DEFINE new == created + 1
<1>1. PICK q \in Quantity \ {0}, given \in Day \cup {NoExpiry}, at \in Day :
        LET expiry == IF request[p].item.isPerishable THEN given ELSE NoExpiry
        IN /\ request[p].item.isPerishable => given # NoExpiry
           /\ request' = [request EXCEPT
                ![p].step = "save",
                ![p].loaded = @ \cup {new},
                ![p].batches[new] = NewBatch(request[p].branch, q, expiry, at),
                ![p].moves = <<[batch |-> new, units |-> q]>>]
  BY DEF Receive
<1> DEFINE expiry == IF request[p].item.isPerishable THEN given ELSE NoExpiry
           batch == NewBatch(request[p].branch, q, expiry, at)
           rows == [request[p].batches EXCEPT ![new] = batch]
           m == [batch |-> new, units |-> q]
           r == [request[p] EXCEPT !.step = "save", !.loaded = @ \cup {new},
                                   !.batches = rows, !.moves = <<m>>]
<1>2. /\ request[p].step = "operate" /\ request[p].kind = "receive" /\ created < MaxBatch
      /\ created' = new /\ UNCHANGED <<tables, books>> /\ started' = started
  BY DEF Receive, At
<1>3. new \in BatchId /\ new \in 0 .. MaxBatch /\ created <= new /\ new \in 1 .. new
      /\ 1 .. created \subseteq 1 .. new
  BY <1>2, InventoryBounds DEF IInv, TypeOK, BatchId
<1>4. request' = [request EXCEPT ![p] = r]
  BY <1>1 DEF IInv, TypeOK
<1>5. expiry \in Day \cup {NoExpiry} /\ (expiry # NoExpiry <=> request[p].item.isPerishable)
  <2>1. request[p].item.isPerishable \in BOOLEAN
    BY RowOfRequest DEF Item
  <2>2. QED
    BY <1>1, <2>1
<1> HIDE DEF expiry
<1>6. /\ batch \in Batch /\ batch.remaining = q /\ batch.received = q /\ batch.expiry = expiry
      /\ batch.branch = request[p].branch
  BY <1>5, RowOfRequest DEF NewBatch, Batch
<1> HIDE DEF new, batch
<1>7. /\ rows \in [BatchId -> Batch] /\ rows[new] = batch
      /\ \A b \in BatchId \ {new} : rows[b] = request[p].batches[b]
  BY <1>3, <1>6, RowOfRequest
<1>8. Within(rows)
  BY <1>6, <1>7, RowOfRequest, ConstantTypes DEF Within
<1>9. m \in Move /\ <<m>> \in Seq(Move)
  BY <1>3 DEF Move
<1> HIDE DEF rows, m
<1>10. r \in RequestRow
  <2>1. request[p].loaded \cup {new} \in SUBSET BatchId
    BY <1>3, RowOfRequest
  <2>2. <<m>> \in Seq([batch: BatchId, units: Quantity])
    BY <1>9 DEF Move
  <2> DEFINE loaded == request[p].loaded \cup {new}
  <2> HIDE DEF loaded
  <2>3. loaded \in SUBSET BatchId
    BY <2>1 DEF loaded
  <2>4. r = [request[p] EXCEPT !.step = "save", !.loaded = loaded, !.batches = rows,
                               !.moves = <<m>>]
    BY RowOfRequest DEF loaded, RequestRow
  <2> HIDE DEF r
  <2>5. QED
    BY <1>7, <2>2, <2>3, <2>4, RowOfRequest DEF RequestRow, Step
<1>11. /\ r.step = "save" /\ r.loaded = request[p].loaded \cup {new} /\ r.batches = rows
       /\ r.kind = request[p].kind /\ r.branch = request[p].branch /\ r.item = request[p].item
       /\ r.moves = <<m>> /\ r.failed = request[p].failed
  BY RowOfRequest DEF RequestRow
<1>12. r.loaded \subseteq 1 .. created'
  BY <1>2, <1>3, <1>11, RowOfRequest
<1> HIDE DEF r
<1>13. RowOk(p) /\ OthersWait(p) /\ request'[p] = r /\ request' \in [Request -> RequestRow]
  BY <1>4, <1>8, <1>10, <1>11, <1>12, RowChanges
<1>14. IInv'
  <2>1. Alone(p)
    BY <1>2 DEF Alone, IInv, TypeOK
  <2>2. QED
    BY <1>2, <1>3, <1>13, <2>1, IInvAlone
<1>15. created' = created + 1
  BY <1>2 DEF new
<1>16. m = [batch |-> created', units |-> rows[new].received]
  BY <1>2, <1>6, <1>7 DEF m
<1>17. q > 0
  BY <1>1, InventoryBounds DEF Quantity
<1>18. QED
  BY <1>17, <1>2, <1>3, <1>5, <1>6, <1>7, <1>11, <1>13, <1>14, <1>15, <1>16

\* A request that wrote nothing is over.
LEMMA IInvLastStep ==
  ASSUME IInv, NEW p \in Request, RowOk(p), OthersWait(p),
         request' \in [Request -> RequestRow],
         UNCHANGED <<tables, books, created, started>>
  PROVE  IInv'
<1>1. Alone(p)
  BY DEF Alone, IInv, TypeOK
<1>2. created' \in 0 .. MaxBatch /\ created <= created'
  BY InventoryBounds DEF IInv, TypeOK
<1>3. QED
  BY <1>1, <1>2, IInvAlone

\* What an operation on the aggregate keeps of a request, except in its batches.
Operates(p) ==
  /\ OthersWait(p) /\ RowOk(p)
  /\ request[p].step = "operate" /\ request'[p].step = "save"
  /\ request'[p].kind = request[p].kind /\ request'[p].branch = request[p].branch
  /\ request'[p].loaded = request[p].loaded
  /\ request'[p].failed = request[p].failed
  /\ UNCHANGED <<tables, books, created>>

LEMMA WithdrawRow ==
  ASSUME IInv, NEW p \in Request, Withdraw(p)
  PROVE  /\ IInv' /\ Operates(p) /\ request[p].kind \in Withdrawal
         /\ request'[p].item = request[p].item
         /\ \A b \in BatchId :
              /\ request'[p].batches[b].branch = request[p].batches[b].branch
              /\ request'[p].batches[b].received = request[p].batches[b].received
              /\ request'[p].batches[b].expiry = request[p].batches[b].expiry
              /\ request'[p].batches[b].receivedAt = request[p].batches[b].receivedAt
              /\ request'[p].batches[b].remaining + UnitsOf(b, request'[p].moves)
                   = request[p].batches[b].remaining
         /\ request'[p].day \in Day
         /\ \E q \in Nat :
              \E order \in SortedByFefo(ActiveIn(request[p], request'[p].day),
                                        request[p].batches) :
                request'[p].moves = MovesOf(order, Takes(order, request[p].batches, q))
<1>1. PICK day \in Day :
        \E q \in 1 .. StockIn(request[p], day),
           order \in SortedByFefo(ActiveIn(request[p], day), request[p].batches) :
          LET moves == MovesOf(order, Takes(order, request[p].batches, q))
          IN request' = [request EXCEPT
               ![p].step = "save",
               ![p].batches = [b \in BatchId |->
                  IF b \in ActiveIn(request[p], day)
                    THEN [@[b] EXCEPT !.remaining =
                            LeftIn(request[p], b, UnitsOf(b, moves), day)]
                    ELSE @[b]],
               ![p].day = day,
               ![p].moves = moves]
  BY DEF Withdraw
<1> DEFINE active == ActiveIn(request[p], day)
<1>2. PICK q \in 1 .. StockIn(request[p], day),
           order \in SortedByFefo(active, request[p].batches) :
          LET moves == MovesOf(order, Takes(order, request[p].batches, q))
          IN request' = [request EXCEPT
               ![p].step = "save",
               ![p].batches = [b \in BatchId |->
                  IF b \in active
                    THEN [@[b] EXCEPT !.remaining =
                            LeftIn(request[p], b, UnitsOf(b, moves), day)]
                    ELSE @[b]],
               ![p].day = day,
               ![p].moves = moves]
  BY <1>1
<1> DEFINE moves == MovesOf(order, Takes(order, request[p].batches, q))
           rows == [b \in BatchId |->
                      IF b \in active
                        THEN [request[p].batches[b] EXCEPT !.remaining =
                                LeftIn(request[p], b, UnitsOf(b, moves), day)]
                        ELSE request[p].batches[b]]
           r == [request[p] EXCEPT !.step = "save", !.batches = rows, !.day = day,
                                   !.moves = moves]
<1>3. request' = [request EXCEPT ![p] = r]
  BY <1>2 DEF IInv, TypeOK
<1>4. /\ request[p].step = "operate" /\ request[p].kind \in Withdrawal
      /\ UNCHANGED <<tables, books, created, started>>
  BY DEF Withdraw, At
<1>5. active \in SUBSET BatchId /\ q \in Nat
  BY RowOfRequest, StockType
<1>6. /\ moves \in Seq(Move)
      /\ \A b \in BatchId : UnitsOf(b, moves) \in Nat
      /\ \A b \in active : UnitsOf(b, moves) <= request[p].batches[b].remaining
      /\ \A b \in BatchId \ active : UnitsOf(b, moves) = 0
  <2>1. \A b \in active : request[p].batches[b].remaining \in Quantity
    BY <1>5, RowOfRequest DEF Batch
  <2> HIDE DEF active
  <2>2. QED
    BY <1>5, <2>1, WithdrawalFits
<1> HIDE DEF active, moves
<1>7. ASSUME NEW b \in BatchId
      PROVE  /\ rows[b] \in Batch
             /\ rows[b].remaining <= rows[b].received
             /\ rows[b].branch = request[p].batches[b].branch
             /\ rows[b].received = request[p].batches[b].received
             /\ rows[b].expiry = request[p].batches[b].expiry
             /\ rows[b].receivedAt = request[p].batches[b].receivedAt
             /\ rows[b].remaining + UnitsOf(b, moves) = request[p].batches[b].remaining
  <2>1. /\ request[p].batches[b] \in Batch
        /\ request[p].batches[b].remaining <= request[p].batches[b].received
    BY RowOfRequest DEF Within
  <2>2. CASE b \in active
    <3> DEFINE left == request[p].batches[b].remaining - UnitsOf(b, moves)
    <3>1. /\ request[p].batches[b].remaining \in 0 .. MaxQuantity
          /\ request[p].batches[b].received \in 0 .. MaxQuantity
          /\ UnitsOf(b, moves) \in Nat /\ UnitsOf(b, moves) <= request[p].batches[b].remaining
      BY <1>6, <2>1, <2>2 DEF Batch, Quantity
    <3>2. /\ left \in 0 .. MaxQuantity /\ left <= request[p].batches[b].received
          /\ left + UnitsOf(b, moves) = request[p].batches[b].remaining
      BY <2>1, <3>1, InventoryBounds
    <3>3. rows[b] = [request[p].batches[b] EXCEPT !.remaining = left]
      BY <2>2 DEF LeftIn
    <3> HIDE DEF rows, left
    <3>4. QED
      BY <2>1, <3>2, <3>3 DEF Batch, Quantity
  <2>3. CASE b \notin active
    <3>1. rows[b] = request[p].batches[b] /\ UnitsOf(b, moves) = 0
      BY <1>6, <2>3
    <3>2. request[p].batches[b].remaining \in Nat
      BY <2>1, ConstantTypes DEF Batch
    <3> HIDE DEF rows
    <3>3. QED
      BY <2>1, <3>1, <3>2
  <2>4. QED
    BY <2>2, <2>3
<1>8. rows \in [BatchId -> Batch] /\ Within(rows)
  <2>1. rows = [b \in BatchId |-> rows[b]]
    OBVIOUS
  <2> HIDE DEF rows
  <2>2. QED
    BY <1>7, <2>1 DEF Within
<1> HIDE DEF rows
<1>9. r \in RequestRow
  <2>1. moves \in Seq([batch: BatchId, units: Quantity])
    BY <1>6 DEF Move
  <2>2. QED
    BY <1>8, <2>1, RowOfRequest DEF RequestRow, Step
<1>10. /\ r.step = "save" /\ r.loaded = request[p].loaded /\ r.batches = rows
       /\ r.kind = request[p].kind /\ r.branch = request[p].branch /\ r.item = request[p].item
       /\ r.moves = moves /\ r.failed = request[p].failed /\ r.day = day
  BY RowOfRequest DEF RequestRow
<1> HIDE DEF r
<1>11. RowOk(p) /\ OthersWait(p) /\ request'[p] = r /\ request' \in [Request -> RequestRow]
  BY <1>3, <1>4, <1>8, <1>9, <1>10, RowOfRequest, RowChanges
<1>12. IInv'
  BY <1>4, <1>11, IInvLastStep
<1>13. Operates(p)
  BY <1>4, <1>10, <1>11 DEF Operates
<1>14. /\ request'[p].day = day /\ q \in Nat
       /\ order \in SortedByFefo(ActiveIn(request[p], day), request[p].batches)
       /\ request'[p].moves = MovesOf(order, Takes(order, request[p].batches, q))
  BY <1>5, <1>10, <1>11 DEF active, moves
<1>15. QED
  BY <1>4, <1>7, <1>10, <1>11, <1>12, <1>13, <1>14

LEMMA SetMinimumsRow ==
  ASSUME IInv, NEW p \in Request, SetMinimums(p)
  PROVE  /\ IInv' /\ Operates(p) /\ request[p].kind = "minimums"
         /\ request'[p].item = request[p].item
         /\ request'[p].batches = request[p].batches
         /\ request'[p].moves = request[p].moves
<1>1. PICK sent \in SUBSET Branch \ {{}} : \E minimum \in [sent -> Minimum] :
        request' = [request EXCEPT
          ![p].step = "save",
          ![p].overrides = [x \in Branch |-> IF x \in sent THEN minimum[x] ELSE @[x]]]
  BY DEF SetMinimums
<1>2. PICK minimum \in [sent -> Minimum] :
        request' = [request EXCEPT
          ![p].step = "save",
          ![p].overrides = [x \in Branch |-> IF x \in sent THEN minimum[x] ELSE @[x]]]
  BY <1>1
<1> DEFINE minimums == [x \in Branch |-> IF x \in sent THEN minimum[x]
                                         ELSE request[p].overrides[x]]
           r == [request[p] EXCEPT !.step = "save", !.overrides = minimums]
<1>3. request' = [request EXCEPT ![p] = r]
  BY <1>2 DEF IInv, TypeOK
<1>4. minimums \in [Branch -> Minimum]
  BY RowOfRequest
<1> HIDE DEF minimums
<1>5. r \in RequestRow
  BY <1>4, RowOfRequest DEF RequestRow, Step
<1>6. /\ r.step = "save" /\ r.loaded = request[p].loaded /\ r.batches = request[p].batches
      /\ r.kind = request[p].kind /\ r.branch = request[p].branch /\ r.item = request[p].item
      /\ r.moves = request[p].moves /\ r.failed = request[p].failed
  BY RowOfRequest DEF RequestRow
<1>7. /\ request[p].step = "operate" /\ request[p].kind = "minimums"
      /\ UNCHANGED <<tables, books, created, started>>
  BY DEF SetMinimums, At
<1> HIDE DEF r
<1>8. RowOk(p) /\ OthersWait(p) /\ request'[p] = r /\ request' \in [Request -> RequestRow]
  BY <1>3, <1>5, <1>6, <1>7, RowOfRequest, RowChanges
<1>9. IInv'
  BY <1>7, <1>8, IInvLastStep
<1>10. QED
  BY <1>6, <1>7, <1>8, <1>9 DEF Operates

LEMMA SetGlobalMinimumRow ==
  ASSUME IInv, NEW p \in Request, SetGlobalMinimum(p)
  PROVE  /\ IInv' /\ Operates(p) /\ request[p].kind = "global"
         /\ request'[p].item.isPerishable = request[p].item.isPerishable
         /\ request'[p].batches = request[p].batches
         /\ request'[p].moves = request[p].moves
<1>1. PICK m \in Minimum :
        request' = [request EXCEPT ![p].step = "save", ![p].item.minGlobalStock = m]
  BY DEF SetGlobalMinimum
<1> DEFINE data == [request[p].item EXCEPT !.minGlobalStock = m]
           r == [request[p] EXCEPT !.step = "save", !.item = data]
<1>2. request' = [request EXCEPT ![p] = r]
  BY <1>1 DEF IInv, TypeOK
<1>3. data \in Item /\ data.isPerishable = request[p].item.isPerishable
  BY RowOfRequest DEF Item
<1> HIDE DEF data
<1>4. r \in RequestRow
  BY <1>3, RowOfRequest DEF RequestRow, Step
<1>5. /\ r.step = "save" /\ r.loaded = request[p].loaded /\ r.batches = request[p].batches
      /\ r.kind = request[p].kind /\ r.branch = request[p].branch /\ r.item = data
      /\ r.moves = request[p].moves /\ r.failed = request[p].failed
  BY RowOfRequest DEF RequestRow
<1>6. /\ request[p].step = "operate" /\ request[p].kind = "global"
      /\ UNCHANGED <<tables, books, created, started>>
  BY DEF SetGlobalMinimum, At
<1> HIDE DEF r
<1>7. RowOk(p) /\ OthersWait(p) /\ request'[p] = r /\ request' \in [Request -> RequestRow]
  BY <1>2, <1>4, <1>5, <1>6, RowOfRequest, RowChanges
<1>8. IInv'
  BY <1>6, <1>7, IInvLastStep
<1>9. QED
  BY <1>3, <1>5, <1>6, <1>7, <1>8 DEF Operates

LEMMA UpdateRow ==
  ASSUME IInv, NEW p \in Request, Update(p)
  PROVE  /\ IInv' /\ Operates(p) /\ request[p].kind = "update"
         /\ \/ request'[p].item = request[p].item
            \/ request[p].loaded = {}
         /\ request'[p].batches = request[p].batches
         /\ request'[p].moves = request[p].moves
<1>1. \E data \in Item :
        /\ request' = [request EXCEPT ![p] =
             [request[p] EXCEPT !.step = "save", !.item = data]]
        /\ data = request[p].item \/ request[p].loaded = {}
  <2>1. CASE request' = [request EXCEPT ![p].step = "save"]
    <3>1. [request[p] EXCEPT !.step = "save", !.item = request[p].item]
            = [request[p] EXCEPT !.step = "save"]
      BY RowOfRequest DEF RequestRow
    <3>2. request[p].item \in Item
      BY RowOfRequest
    <3>3. request' = [request EXCEPT ![p] =
             [request[p] EXCEPT !.step = "save", !.item = request[p].item]]
      BY <2>1, <3>1
    <3>4. QED
      BY <3>2, <3>3
  <2>2. CASE /\ request[p].loaded = {}
             /\ \E perishable \in BOOLEAN :
                  request' = [request EXCEPT
                    ![p].step = "save", ![p].item.isPerishable = perishable]
    <3>1. PICK perishable \in BOOLEAN :
             request' = [request EXCEPT
               ![p].step = "save", ![p].item.isPerishable = perishable]
      BY <2>2
    <3> DEFINE data == [request[p].item EXCEPT !.isPerishable = perishable]
    <3>2. data \in Item
      BY RowOfRequest DEF Item
    <3>3. request' = [request EXCEPT ![p] =
             [request[p] EXCEPT !.step = "save", !.item = data]]
      BY <3>1 DEF IInv, TypeOK
    <3> HIDE DEF data
    <3>4. QED
      BY <2>2, <3>2, <3>3
  <2>3. QED
    BY <2>1, <2>2 DEF Update
<1>2. PICK data \in Item :
        /\ request' = [request EXCEPT ![p] =
             [request[p] EXCEPT !.step = "save", !.item = data]]
        /\ data = request[p].item \/ request[p].loaded = {}
  BY <1>1
<1> DEFINE r == [request[p] EXCEPT !.step = "save", !.item = data]
<1>3. r \in RequestRow
  BY RowOfRequest DEF RequestRow, Step
<1>4. /\ r.step = "save" /\ r.loaded = request[p].loaded /\ r.batches = request[p].batches
      /\ r.kind = request[p].kind /\ r.branch = request[p].branch /\ r.item = data
      /\ r.moves = request[p].moves /\ r.failed = request[p].failed
  BY RowOfRequest DEF RequestRow
<1>5. /\ request[p].step = "operate" /\ request[p].kind = "update"
      /\ UNCHANGED <<tables, books, created, started>>
  BY DEF Update, At
<1>6. request' = [request EXCEPT ![p] = r]
  BY <1>2
<1> HIDE DEF r
<1>7. RowOk(p) /\ OthersWait(p) /\ request'[p] = r /\ request' \in [Request -> RequestRow]
  BY <1>3, <1>4, <1>5, <1>6, RowOfRequest, RowChanges
<1>8. IInv'
  BY <1>5, <1>7, IInvLastStep
<1>9. QED
  BY <1>2, <1>4, <1>5, <1>7, <1>8 DEF Operates

LEMMA SaveSelectRow ==
  ASSUME IInv, NEW p \in Request, SaveSelect(p)
  PROVE  /\ IInv' /\ OthersWait(p) /\ RowOk(p)
         /\ request[p].step = "save" /\ request'[p].step = "commit"
         /\ request'[p].kind = request[p].kind /\ request'[p].branch = request[p].branch
         /\ request'[p].item = request[p].item /\ request'[p].seen = item
         /\ request'[p].loaded = request[p].loaded
         /\ request'[p].batches = request[p].batches
         /\ request'[p].moves = request[p].moves /\ request'[p].failed = request[p].failed
         /\ request'[p].day = request[p].day
         /\ UNCHANGED <<tables, books, created>>
<1> DEFINE r == [request[p] EXCEPT !.step = "commit", !.seen = item]
<1>1. request' = [request EXCEPT ![p] = r]
  BY DEF SaveSelect, IInv, TypeOK
<1>2. r \in RequestRow
  <2>1. item \in Item
    BY DEF IInv, TypeOK
  <2>2. QED
    BY <2>1, RowOfRequest DEF RequestRow, Step
<1>3. /\ r.step = "commit" /\ r.loaded = request[p].loaded /\ r.batches = request[p].batches
      /\ r.kind = request[p].kind /\ r.branch = request[p].branch /\ r.item = request[p].item
      /\ r.seen = item /\ r.moves = request[p].moves /\ r.failed = request[p].failed
      /\ r.day = request[p].day
  BY RowOfRequest DEF RequestRow
<1>4. request[p].step = "save" /\ UNCHANGED <<tables, books, created, started>>
  BY DEF SaveSelect, At
<1> HIDE DEF r
<1>5. RowOk(p) /\ OthersWait(p) /\ request'[p] = r /\ request' \in [Request -> RequestRow]
  BY <1>1, <1>2, <1>3, <1>4, RowOfRequest, RowChanges
<1>6. IInv'
  BY <1>4, <1>5, IInvLastStep
<1>7. QED
  BY <1>3, <1>4, <1>5, <1>6

LEMMA EndsRow ==
  ASSUME IInv, NEW p \in Request, Ends(p)
  PROVE  /\ OthersWait(p) /\ RowOk(p) /\ request'[p] = Idle
         /\ request'[p].step = "idle" /\ request'[p].loaded = {}
         /\ request'[p].moves = <<>> /\ request'[p].failed = <<>>
         /\ request' \in [Request -> RequestRow]
<1>1. request' = [request EXCEPT ![p] = Idle]
  BY DEF Ends
<1>2. Idle.loaded \subseteq 1 .. created' /\ Within(Idle.batches) /\ Idle.step = "idle"
  BY ConstantTypes DEF Idle, Within, NoBatch
<1>3. RowOk(p) /\ OthersWait(p) /\ request'[p] = Idle /\ request' \in [Request -> RequestRow]
  BY <1>1, <1>2, ConstantTypes, RowChanges
<1>4. QED
  BY <1>3 DEF Idle

LEMMA FailsRow ==
  ASSUME IInv, NEW p \in Request, Fails(p)
  PROVE  /\ IInv' /\ OthersWait(p) /\ RowOk(p)
         /\ request[p].step # "idle" /\ request[p].step # "publish"
         /\ request'[p].step = "idle" /\ request'[p].loaded = {}
         /\ request'[p].moves = <<>> /\ request'[p].failed = <<>>
         /\ UNCHANGED <<tables, books, created>>
<1>1. /\ request[p].step # "idle" /\ request[p].step # "publish"
      /\ Ends(p) /\ UNCHANGED <<tables, books, created, started>>
  BY DEF Fails, At
<1>2. /\ OthersWait(p) /\ RowOk(p) /\ request' \in [Request -> RequestRow]
      /\ request'[p].step = "idle" /\ request'[p].loaded = {}
      /\ request'[p].moves = <<>> /\ request'[p].failed = <<>>
  BY <1>1, EndsRow
<1>3. IInv'
  BY <1>1, <1>2, IInvLastStep
<1>4. QED
  BY <1>1, <1>2, <1>3

\* After the commit only the moves are left of a request.
Publishing(p, r) ==
  [Idle EXCEPT !.step = "publish", !.kind = r.kind, !.day = r.day, !.moves = r.moves]

LEMMA SaveCommitRow ==
  ASSUME IInv, NEW p \in Request, SaveCommit(p)
  PROVE  /\ IInv' /\ OthersWait(p) /\ RowOk(p)
         /\ request[p].step = "commit"
         /\ request'[p].loaded = {} /\ request'[p].failed = <<>>
         /\ request'[p].moves = request[p].moves
         /\ \/ request'[p].step = "publish" /\ request'[p].kind = request[p].kind
               /\ request[p].moves # <<>>
            \/ request'[p].step = "idle" /\ request[p].moves = <<>>
         /\ request[p].moves # <<>> => request'[p].day = request[p].day
         /\ stored' = stored \cup request[p].loaded
         /\ \A b \in BatchId :
              batches'[b] = IF b \in request[p].loaded THEN request[p].batches[b]
                            ELSE batches[b]
         /\ item'.isPerishable = IF request[p].item.isPerishable # request[p].seen.isPerishable
                                   THEN request[p].item.isPerishable ELSE item.isPerishable
         /\ UNCHANGED <<books, created>>
<1> DEFINE r == request[p]
<1>1. /\ r.step = "commit" /\ UNCHANGED <<books, created, started>>
      /\ stored' = stored \cup r.loaded /\ batches' = WrittenBatches(r)
      /\ overrides' = r.overrides
  BY DEF SaveCommit, Reconciled, At
<1>2. PICK padded \in BOOLEAN :
        item' = [c \in DOMAIN item |-> IF Differs(r, c, padded) THEN r.item[c] ELSE item[c]]
  BY DEF SaveCommit
<1>3. /\ item \in Item /\ r.item \in Item /\ r.seen \in Item
      /\ DOMAIN item = {"isPerishable", "minGlobalStock"}
  BY RowOfRequest DEF IInv, TypeOK, Item
<1>4. /\ item' \in Item
      /\ item'.isPerishable = IF r.item.isPerishable # r.seen.isPerishable
                                THEN r.item.isPerishable ELSE item.isPerishable
  <2>1. /\ item' = [isPerishable |-> item'["isPerishable"],
                    minGlobalStock |-> item'["minGlobalStock"]]
        /\ item'["isPerishable"] = IF Differs(r, "isPerishable", padded)
                                     THEN r.item.isPerishable ELSE item.isPerishable
        /\ item'["minGlobalStock"] = IF Differs(r, "minGlobalStock", padded)
                                       THEN r.item.minGlobalStock ELSE item.minGlobalStock
    BY <1>2, <1>3
  <2>2. item'["isPerishable"] \in BOOLEAN /\ item'["minGlobalStock"] \in Minimum
    BY <1>3, <2>1 DEF Item
  <2>3. item' \in Item
    BY <2>1, <2>2 DEF Item
  <2>4. Differs(r, "isPerishable", padded) <=> r.item.isPerishable # r.seen.isPerishable
    BY DEF Differs
  <2>5. QED
    BY <2>1, <2>3, <2>4
<1>5. /\ batches' \in [BatchId -> Batch]
      /\ \A b \in BatchId : batches'[b] = IF b \in r.loaded THEN r.batches[b] ELSE batches[b]
  BY <1>1, RowOfRequest DEF WrittenBatches, IInv, TypeOK
<1>6. Within(batches')
  BY <1>5, RowOfRequest DEF Within, IInv, RowsWithin
<1>7. stored' \subseteq 1 .. created'
  BY <1>1, RowOfRequest DEF IInv, TypeOK
<1>8. /\ OthersWait(p) /\ RowOk(p) /\ request' \in [Request -> RequestRow]
      /\ request'[p].loaded = {} /\ request'[p].failed = <<>>
      /\ request'[p].moves = request[p].moves
      /\ \/ request'[p].step = "publish" /\ request'[p].kind = request[p].kind
            /\ request[p].moves # <<>>
         \/ request'[p].step = "idle" /\ request[p].moves = <<>>
      /\ request[p].moves # <<>> => request'[p].day = request[p].day
  <2>1. CASE r.moves = <<>>
    <3>1. Ends(p)
      BY <2>1 DEF SaveCommit
    <3>2. QED
      BY <2>1, <3>1, EndsRow
  <2>2. CASE r.moves # <<>>
    <3> DEFINE s == Publishing(p, r)
    <3>1. request' = [request EXCEPT ![p] = s]
      BY <2>2 DEF SaveCommit, Publishing
    <3>2. /\ s.step = "publish" /\ s.kind = r.kind /\ s.moves = r.moves
          /\ s.loaded = {} /\ s.failed = <<>> /\ s.batches = Idle.batches
          /\ s.day = r.day
      BY DEF Publishing, Idle
    <3>3. s \in RequestRow
      BY ConstantTypes, RowOfRequest DEF Publishing, RequestRow, Step
    <3>4. Within(s.batches)
      BY <3>2, ConstantTypes DEF Within, Idle, NoBatch
    <3> HIDE DEF s
    <3>5. RowOk(p) /\ OthersWait(p) /\ request'[p] = s /\ request' \in [Request -> RequestRow]
      BY <2>2, <3>1, <3>2, <3>3, <3>4, RowChanges
    <3>6. QED
      BY <2>2, <3>2, <3>5
  <2>3. QED
    BY <2>1, <2>2
<1> HIDE DEF r
<1>9. IInv'
  <2>1. /\ ledger' = ledger /\ logged' = logged /\ lost' = lost
        /\ created' = created /\ started' = started
    BY <1>1 DEF books
  <2>2. /\ created' \in 0 .. MaxBatch /\ created <= created' /\ started' \in 0 .. MaxRequests
        /\ ledger' \in Book /\ logged' \in Book /\ lost' \in Book
    BY <2>1, InventoryBounds DEF IInv, TypeOK
  <2>3. overrides' \in [Branch -> Minimum]
    BY <1>1, RowOfRequest DEF r
  <2>4. QED
    BY <1>4, <1>5, <1>6, <1>7, <1>8, <2>2, <2>3, IInvKept
<1>10. QED
  BY <1>1, <1>4, <1>5, <1>8, <1>9 DEF r

-----------------------------------------------------------------------------
(***************************************************************************)
(* Publishing settles units, and only moves them from place to place.      *)
(***************************************************************************)

\* What request p has still to try or to log.
Term(p, k) ==
  IF At(p, "publish") /\ DirectionOf(request[p].kind) = k[2]
    THEN UnitsOf(k[1], request[p].moves \o request[p].failed) ELSE 0

LEMMA TermType ==
  ASSUME IInv, NEW p \in Request, NEW k \in BatchId \X Direction
  PROVE  /\ Term(p, k) \in Nat
         /\ UnitsOf(k[1], request[p].moves \o request[p].failed)
              = UnitsOf(k[1], request[p].moves) + UnitsOf(k[1], request[p].failed)
         /\ UnitsOf(k[1], request[p].moves) \in Nat
         /\ UnitsOf(k[1], request[p].failed) \in Nat
<1>1. request[p].moves \in Seq(Move) /\ request[p].failed \in Seq(Move)
  BY RowOfRequest
<1>2. /\ UnitsOf(k[1], request[p].moves \o request[p].failed)
           = UnitsOf(k[1], request[p].moves) + UnitsOf(k[1], request[p].failed)
      /\ UnitsOf(k[1], request[p].moves) \in Nat
      /\ UnitsOf(k[1], request[p].failed) \in Nat
  BY <1>1, UnitsOfBoth, UnitsType
<1>3. QED
  BY <1>2 DEF Term

LEMMA TermAfter ==
  ASSUME NEW p \in Request, RowOk(p), NEW k \in BatchId \X Direction
  PROVE  Term(p, k)' \in Nat
<1>1. Term(p, k)' = 0 \/ Term(p, k)' = UnitsOf(k[1], request'[p].moves \o request'[p].failed)
  BY DEF Term
<1>2. request'[p].moves \o request'[p].failed \in Seq(Move)
  <2>1. /\ request'[p].moves \in Seq([batch: BatchId, units: Quantity])
        /\ request'[p].failed \in Seq([batch: BatchId, units: Quantity])
    BY DEF RowOk, RequestRow
  <2>2. QED
    BY <2>1 DEF Move
<1>3. UnitsOf(k[1], request'[p].moves \o request'[p].failed) \in Nat
  BY <1>2, UnitsType
<1>4. QED
  BY <1>1, <1>3

\* The step that tries the first movement: these units are written down or kept
\* among the failed ones, and after the last movement those go to the log.
Settles(p) ==
  /\ OthersWait(p) /\ RowOk(p)
  /\ request[p].step = "publish"
  /\ request'[p].loaded \subseteq request[p].loaded
  /\ \/ request'[p].step = "publish" /\ request'[p].kind = request[p].kind
     \/ request'[p].step = "idle" /\ request'[p].moves = <<>> /\ request'[p].failed = <<>>
  /\ \A k \in BatchId \X Direction :
       ledger'[k] + logged'[k] + lost'[k] + Term(p, k)'
         = ledger[k] + logged[k] + lost[k] + Term(p, k)
  /\ UNCHANGED <<tables, created>>

LEMMA TailOfMoves ==
  ASSUME NEW s \in Seq(Move), s # <<>>
  PROVE  Tail(s) = <<>> <=> Len(s) = 1
<1>1. Len(s) \in Nat /\ Len(s) # 0
  OBVIOUS
<1>2. Tail(s) \in Seq(Move) /\ Len(Tail(s)) = Len(s) - 1
  BY <1>1
<1>3. Tail(s) = <<>> <=> Len(Tail(s)) = 0
  BY <1>2, EmptySeq
<1>4. QED
  BY <1>1, <1>2, <1>3

LEMMA TriedRow ==
  ASSUME IInv, NEW p \in Request, At(p, "publish"), created' = created,
         NEW failed \in Seq(Move), Tried(p, failed)
  PROVE  /\ OthersWait(p) /\ RowOk(p) /\ request' \in [Request -> RequestRow]
         /\ request'[p].loaded \subseteq request[p].loaded
         /\ logged' \in Book
         /\ \/ request'[p].step = "publish" /\ request'[p].kind = request[p].kind
            \/ request'[p].step = "idle" /\ request'[p].moves = <<>>
                                         /\ request'[p].failed = <<>>
         /\ \A k \in BatchId \X Direction :
              logged'[k] + Term(p, k)' =
                IF DirectionOf(request[p].kind) = k[2]
                  THEN logged[k] + UnitsOf(k[1], Tail(request[p].moves))
                                 + UnitsOf(k[1], failed)
                  ELSE logged[k]
<1> DEFINE r == request[p]
           d == DirectionOf(r.kind)
<1>1. r.moves \in Seq(Move) /\ r.moves # <<>> /\ r.step = "publish"
  BY RowOfRequest DEF At
<1>2. Tail(r.moves) \in Seq(Move)
  BY <1>1
<1>3. \A k \in BatchId \X Direction :
        /\ UnitsOf(k[1], Tail(r.moves)) \in Nat /\ UnitsOf(k[1], failed) \in Nat
        /\ logged[k] \in Nat
  BY <1>2, UnitsType DEF IInv, TypeOK, Book
<1>4. CASE Len(r.moves) = 1
  <2>1. logged' = Entered(logged, failed, d) /\ Ends(p)
    BY <1>4 DEF Tried
  <2>2. /\ OthersWait(p) /\ RowOk(p) /\ request' \in [Request -> RequestRow]
        /\ request'[p].step = "idle" /\ request'[p].loaded = {}
        /\ request'[p].moves = <<>> /\ request'[p].failed = <<>>
    BY <2>1, EndsRow
  <2>3. /\ logged' \in Book
        /\ \A k \in BatchId \X Direction :
             logged'[k] = IF k[2] = d THEN logged[k] + UnitsOf(k[1], failed) ELSE logged[k]
    BY <2>1, EnteredType DEF IInv, TypeOK
  <2>4. Tail(r.moves) = <<>>
    BY <1>1, <1>4, TailOfMoves
  <2>5. ASSUME NEW k \in BatchId \X Direction
        PROVE  logged'[k] + Term(p, k)'
                 = IF d = k[2] THEN logged[k] + UnitsOf(k[1], Tail(r.moves))
                                              + UnitsOf(k[1], failed)
                   ELSE logged[k]
    <3>1. Term(p, k)' = 0
      BY <2>2 DEF Term, At
    <3>2. UnitsOf(k[1], Tail(r.moves)) = 0
      BY <2>4, UnitsOfNone
    <3> HIDE DEF r, d
    <3>3. QED
      BY <1>3, <2>3, <3>1, <3>2
  <2> HIDE DEF r, d
  <2>6. QED
    BY <2>2, <2>3, <2>5 DEF r, d
<1>5. CASE Len(r.moves) # 1
  <2> DEFINE s == [r EXCEPT !.moves = Tail(@), !.failed = failed]
  <2>1. request' = [request EXCEPT ![p] = s] /\ logged' = logged
    BY <1>5 DEF Tried, IInv, TypeOK
  <2>2. /\ s.step = "publish" /\ s.kind = r.kind /\ s.moves = Tail(r.moves)
        /\ s.loaded = r.loaded /\ s.failed = failed /\ s.batches = r.batches
    BY <1>1, RowOfRequest DEF RequestRow
  <2>3. s \in RequestRow
    <3>1. /\ Tail(r.moves) \in Seq([batch: BatchId, units: Quantity])
          /\ failed \in Seq([batch: BatchId, units: Quantity])
      BY <1>2 DEF Move
    <3>2. QED
      BY <3>1, RowOfRequest DEF RequestRow
  <2>4. Tail(r.moves) # <<>>
    BY <1>1, <1>5, TailOfMoves
  <2>5. r.loaded \subseteq 1 .. created'
    BY RowOfRequest
  <2>6. Within(r.batches) /\ r.loaded \subseteq 1 .. created
    BY RowOfRequest
  <2> HIDE DEF s
  <2>7. request'[p] = s /\ OthersWait(p) /\ request' \in [Request -> RequestRow]
    BY <2>1, <2>3 DEF IInv, TypeOK, OthersWait
  <2>8. logged' \in Book
    BY <2>1 DEF IInv, TypeOK
  <2>9. ASSUME NEW k \in BatchId \X Direction
        PROVE  logged'[k] + Term(p, k)'
                 = IF d = k[2] THEN logged[k] + UnitsOf(k[1], Tail(r.moves))
                                              + UnitsOf(k[1], failed)
                   ELSE logged[k]
    <3>1. Term(p, k)' = IF d = k[2] THEN UnitsOf(k[1], Tail(r.moves) \o failed) ELSE 0
      BY <2>2, <2>7 DEF Term, At
    <3>2. UnitsOf(k[1], Tail(r.moves) \o failed)
            = UnitsOf(k[1], Tail(r.moves)) + UnitsOf(k[1], failed)
      BY <1>2, UnitsOfBoth
    <3> HIDE DEF r, d
    <3>3. QED
      BY <1>3, <2>1, <3>1, <3>2
  <2>10. RowOk(p)
    BY <2>2, <2>3, <2>4, <2>5, <2>6, <2>7 DEF RowOk
  <2> HIDE DEF r, d
  <2>11. QED
    BY <2>2, <2>7, <2>8, <2>9, <2>10 DEF r, d
<1>6. QED
  BY <1>4, <1>5

LEMMA RecordMovementSettles ==
  ASSUME IInv, NEW p \in Request, RecordMovement(p)
  PROVE  IInv' /\ Settles(p)
<1> DEFINE r == request[p]
           d == DirectionOf(r.kind)
<1>1. /\ At(p, "publish") /\ Tried(p, r.failed)
      /\ ledger' = Entered(ledger, <<Head(r.moves)>>, d)
      /\ UNCHANGED <<tables, lost, created, started>> /\ created' = created
  BY DEF RecordMovement
<1>2. r.moves \in Seq(Move) /\ r.failed \in Seq(Move) /\ r.moves # <<>>
  BY <1>1, RowOfRequest DEF At
<1>3. \A k \in BatchId \X Direction :
        /\ <<Head(r.moves)>> \in Seq(Move)
        /\ UnitsOf(k[1], r.moves)
             = UnitsOf(k[1], <<Head(r.moves)>>) + UnitsOf(k[1], Tail(r.moves))
        /\ UnitsOf(k[1], <<Head(r.moves)>>) \in Nat
        /\ UnitsOf(k[1], Tail(r.moves)) \in Nat
  BY <1>2, UnitsOfHead, UnitsType
<1>4. <<Head(r.moves)>> \in Seq(Move)
  BY <1>2, UnitsOfHead
<1>5. /\ ledger' \in Book
      /\ \A k \in BatchId \X Direction :
           ledger'[k] = IF k[2] = d THEN ledger[k] + UnitsOf(k[1], <<Head(r.moves)>>)
                        ELSE ledger[k]
  <2> DEFINE first == <<Head(r.moves)>>
  <2>1. ledger \in Book /\ first \in Seq(Move) /\ ledger' = Entered(ledger, first, d)
    BY <1>1, <1>4 DEF IInv, TypeOK
  <2> HIDE DEF first, d
  <2>2. /\ ledger' \in Book
        /\ \A k \in BatchId \X Direction :
             ledger'[k] = IF k[2] = d THEN ledger[k] + UnitsOf(k[1], first) ELSE ledger[k]
    BY <2>1, EnteredType
  <2>3. QED
    BY <2>2 DEF first
<1>6. /\ OthersWait(p) /\ RowOk(p) /\ request' \in [Request -> RequestRow]
      /\ request'[p].loaded \subseteq request[p].loaded
      /\ logged' \in Book
      /\ \/ request'[p].step = "publish" /\ request'[p].kind = request[p].kind
         \/ request'[p].step = "idle" /\ request'[p].moves = <<>> /\ request'[p].failed = <<>>
      /\ \A k \in BatchId \X Direction :
           logged'[k] + Term(p, k)' =
             IF DirectionOf(request[p].kind) = k[2]
               THEN logged[k] + UnitsOf(k[1], Tail(request[p].moves))
                              + UnitsOf(k[1], request[p].failed)
               ELSE logged[k]
  BY <1>1, <1>2, TriedRow
<1>7. ASSUME NEW k \in BatchId \X Direction
      PROVE  ledger'[k] + logged'[k] + lost'[k] + Term(p, k)'
               = ledger[k] + logged[k] + lost[k] + Term(p, k)
  <2>1. Term(p, k) = IF d = k[2] THEN UnitsOf(k[1], r.moves) + UnitsOf(k[1], r.failed) ELSE 0
    BY <1>1, TermType DEF Term
  <2>2. logged'[k] + Term(p, k)'
          = IF d = k[2] THEN logged[k] + UnitsOf(k[1], Tail(r.moves)) + UnitsOf(k[1], r.failed)
            ELSE logged[k]
    BY <1>6
  <2>3. lost' = lost /\ ledger[k] \in Nat /\ logged[k] \in Nat /\ lost[k] \in Nat
    BY <1>1 DEF IInv, TypeOK, Book
  <2>4. logged'[k] \in Nat /\ UnitsOf(k[1], r.failed) \in Nat
    BY <1>6, TermType DEF Book
  <2>5. Term(p, k)' \in Nat
    BY <1>6, TermAfter
  <2> HIDE DEF r, d
  <2>6. CASE d = k[2]
    BY <1>3, <1>5, <2>1, <2>2, <2>3, <2>4, <2>5, <2>6
  <2>7. CASE d # k[2]
    BY <1>5, <2>1, <2>2, <2>3, <2>4, <2>5, <2>7
  <2>8. QED
    BY <2>6, <2>7
<1>8. Settles(p)
  BY <1>1, <1>6, <1>7 DEF Settles, At
<1>9. IInv'
  <2>1. /\ item' = item /\ stored' = stored /\ batches' = batches
        /\ overrides' = overrides /\ created' = created /\ started' = started /\ lost' = lost
    BY <1>1 DEF tables
  <2>2. /\ item' \in Item /\ stored' \subseteq 1 .. created' /\ batches' \in [BatchId -> Batch]
        /\ overrides' \in [Branch -> Minimum] /\ lost' \in Book
        /\ created' \in 0 .. MaxBatch /\ created <= created' /\ started' \in 0 .. MaxRequests
    BY <2>1, InventoryBounds DEF IInv, TypeOK
  <2>3. Within(batches')
    BY <2>1 DEF IInv, RowsWithin, Within
  <2>4. QED
    BY <1>5, <1>6, <2>2, <2>3, IInvKept
<1>10. QED
  BY <1>8, <1>9

LEMMA MovementFailsSettles ==
  ASSUME IInv, NEW p \in Request, MovementFails(p)
  PROVE  IInv' /\ Settles(p)
<1> DEFINE r == request[p]
           d == DirectionOf(r.kind)
           first == <<Head(r.moves)>>
           failed == Append(r.failed, Head(r.moves))
<1>1. /\ At(p, "publish") /\ Tried(p, failed)
      /\ UNCHANGED <<tables, ledger, lost, created, started>> /\ created' = created
  BY DEF MovementFails
<1>2. r.moves \in Seq(Move) /\ r.failed \in Seq(Move) /\ r.moves # <<>>
  BY <1>1, RowOfRequest DEF At
<1>3. first \in Seq(Move) /\ failed \in Seq(Move)
  <2>1. Head(r.moves) \in Move
    BY <1>2, UnitsOfHead
  <2>2. QED
    BY <1>2, <2>1
<1>4. ASSUME NEW k \in BatchId \X Direction
      PROVE  /\ UnitsOf(k[1], r.moves) = UnitsOf(k[1], first) + UnitsOf(k[1], Tail(r.moves))
             /\ UnitsOf(k[1], failed) = UnitsOf(k[1], r.failed) + UnitsOf(k[1], first)
             /\ UnitsOf(k[1], first) \in Nat /\ UnitsOf(k[1], Tail(r.moves)) \in Nat
             /\ UnitsOf(k[1], r.failed) \in Nat
  <2>1. Head(r.moves) \in Move /\ Tail(r.moves) \in Seq(Move)
    BY <1>2, UnitsOfHead
  <2>2. UnitsOf(k[1], r.moves) = UnitsOf(k[1], first) + UnitsOf(k[1], Tail(r.moves))
    BY <1>2, UnitsOfHead
  <2>3. UnitsOf(k[1], failed) = UnitsOf(k[1], r.failed) + UnitsOf(k[1], first)
    BY <1>2, <2>1, UnitsOfAppended
  <2> HIDE DEF first, failed
  <2>4. QED
    BY <1>2, <1>3, <2>1, <2>2, <2>3, UnitsType
<1> HIDE DEF first, failed
<1>5. /\ OthersWait(p) /\ RowOk(p) /\ request' \in [Request -> RequestRow]
      /\ request'[p].loaded \subseteq request[p].loaded
      /\ logged' \in Book
      /\ \/ request'[p].step = "publish" /\ request'[p].kind = request[p].kind
         \/ request'[p].step = "idle" /\ request'[p].moves = <<>> /\ request'[p].failed = <<>>
      /\ \A k \in BatchId \X Direction :
           logged'[k] + Term(p, k)' =
             IF DirectionOf(request[p].kind) = k[2]
               THEN logged[k] + UnitsOf(k[1], Tail(request[p].moves)) + UnitsOf(k[1], failed)
               ELSE logged[k]
  BY <1>1, <1>3, TriedRow
<1>6. ASSUME NEW k \in BatchId \X Direction
      PROVE  ledger'[k] + logged'[k] + lost'[k] + Term(p, k)'
               = ledger[k] + logged[k] + lost[k] + Term(p, k)
  <2>1. Term(p, k) = IF d = k[2] THEN UnitsOf(k[1], r.moves) + UnitsOf(k[1], r.failed) ELSE 0
    BY <1>1, TermType DEF Term
  <2>2. logged'[k] + Term(p, k)'
          = IF d = k[2] THEN logged[k] + UnitsOf(k[1], Tail(r.moves)) + UnitsOf(k[1], failed)
            ELSE logged[k]
    BY <1>5
  <2>3. /\ lost' = lost /\ ledger' = ledger
        /\ ledger[k] \in Nat /\ logged[k] \in Nat /\ lost[k] \in Nat
    BY <1>1 DEF IInv, TypeOK, Book
  <2>4. logged'[k] \in Nat
    BY <1>5 DEF Book
  <2>5. Term(p, k)' \in Nat
    BY <1>5, TermAfter
  <2> HIDE DEF r, d
  <2>6. CASE d = k[2]
    BY <1>4, <2>1, <2>2, <2>3, <2>4, <2>5, <2>6
  <2>7. CASE d # k[2]
    BY <2>1, <2>2, <2>3, <2>4, <2>5, <2>7
  <2>8. QED
    BY <2>6, <2>7
<1>7. Settles(p)
  BY <1>1, <1>5, <1>6 DEF Settles, At
<1>8. IInv'
  <2>1. /\ item' = item /\ stored' = stored /\ batches' = batches /\ overrides' = overrides
        /\ created' = created /\ started' = started /\ ledger' = ledger /\ lost' = lost
    BY <1>1 DEF tables
  <2>2. /\ item' \in Item /\ stored' \subseteq 1 .. created' /\ batches' \in [BatchId -> Batch]
        /\ overrides' \in [Branch -> Minimum] /\ ledger' \in Book /\ lost' \in Book
        /\ created' \in 0 .. MaxBatch /\ created <= created' /\ started' \in 0 .. MaxRequests
    BY <2>1, InventoryBounds DEF IInv, TypeOK
  <2>3. Within(batches')
    BY <2>1 DEF IInv, RowsWithin, Within
  <2>4. QED
    BY <1>5, <2>2, <2>3, IInvKept
<1>9. QED
  BY <1>7, <1>8

LEMMA DiesSettles ==
  ASSUME IInv, NEW p \in Request, Dies(p)
  PROVE  IInv' /\ Settles(p)
<1> DEFINE r == request[p]
           d == DirectionOf(r.kind)
           left == r.moves \o r.failed
<1>1. /\ At(p, "publish") /\ Ends(p)
      /\ lost' = Entered(lost, left, d)
      /\ UNCHANGED <<tables, ledger, logged, created, started>>
  BY DEF Dies
<1>2. left \in Seq(Move)
  BY RowOfRequest
<1> HIDE DEF left
<1>3. /\ lost' \in Book
      /\ \A k \in BatchId \X Direction :
           lost'[k] = IF k[2] = d THEN lost[k] + UnitsOf(k[1], left) ELSE lost[k]
  BY <1>1, <1>2, EnteredType DEF IInv, TypeOK
<1>4. /\ OthersWait(p) /\ RowOk(p) /\ request' \in [Request -> RequestRow]
      /\ request'[p].step = "idle" /\ request'[p].loaded = {}
      /\ request'[p].moves = <<>> /\ request'[p].failed = <<>>
  BY <1>1, EndsRow
<1>5. ASSUME NEW k \in BatchId \X Direction
      PROVE  ledger'[k] + logged'[k] + lost'[k] + Term(p, k)'
               = ledger[k] + logged[k] + lost[k] + Term(p, k)
  <2>1. Term(p, k) = IF d = k[2] THEN UnitsOf(k[1], left) ELSE 0
    BY <1>1 DEF Term, left
  <2>2. Term(p, k)' = 0
    BY <1>4 DEF Term, At
  <2>3. /\ logged' = logged /\ ledger' = ledger
        /\ ledger[k] \in Nat /\ logged[k] \in Nat /\ lost[k] \in Nat
    BY <1>1 DEF IInv, TypeOK, Book
  <2>4. UnitsOf(k[1], left) \in Nat
    BY <1>2, UnitsType
  <2> HIDE DEF r, d
  <2>5. QED
    BY <1>3, <2>1, <2>2, <2>3, <2>4
<1>6. Settles(p)
  BY <1>1, <1>4, <1>5 DEF Settles, At
<1>7. IInv'
  <2>1. /\ item' = item /\ stored' = stored /\ batches' = batches /\ overrides' = overrides
        /\ created' = created /\ started' = started /\ ledger' = ledger /\ logged' = logged
    BY <1>1 DEF tables
  <2>2. /\ item' \in Item /\ stored' \subseteq 1 .. created' /\ batches' \in [BatchId -> Batch]
        /\ overrides' \in [Branch -> Minimum] /\ ledger' \in Book /\ logged' \in Book
        /\ created' \in 0 .. MaxBatch /\ created <= created' /\ started' \in 0 .. MaxRequests
    BY <2>1, InventoryBounds DEF IInv, TypeOK
  <2>3. Within(batches')
    BY <2>1 DEF IInv, RowsWithin, Within
  <2>4. QED
    BY <1>3, <1>4, <2>2, <2>3, IInvKept
<1>8. QED
  BY <1>6, <1>7

-----------------------------------------------------------------------------
(***************************************************************************)
(* The first invariant.                                                    *)
(***************************************************************************)

LEMMA NextIInv == IInv /\ [Next]_vars => IInv'
<1> SUFFICES ASSUME IInv, [Next]_vars PROVE IInv'
  OBVIOUS
<1>1. CASE UNCHANGED vars
  BY <1>1 DEF vars, tables, books, IInv, TypeOK, LoadedAreCreated, RowsWithin, Within,
              SomethingToPublish, At
<1>2. CASE Next
  <2>1. PICK p \in Request :
          \/ Begin(p) \/ LoadBatches(p) \/ LoadOverrides(p)
          \/ Receive(p) \/ Withdraw(p)
          \/ SetMinimums(p) \/ SetGlobalMinimum(p) \/ Update(p)
          \/ SaveSelect(p) \/ SaveCommit(p)
          \/ RecordMovement(p) \/ MovementFails(p)
          \/ Fails(p) \/ Dies(p)
    BY <1>2 DEF Next
  <2>2. QED
    BY <2>1, BeginRow, LoadBatchesRow, LoadOverridesRow, ReceiveRow, WithdrawRow,
       SetMinimumsRow, SetGlobalMinimumRow, UpdateRow, SaveSelectRow, SaveCommitRow,
       RecordMovementSettles, MovementFailsSettles, FailsRow, DiesSettles
<1>3. QED
  BY <1>1, <1>2

LEMMA IInvariance == Spec => []IInv
<1>1. Init => IInv
  BY InitIInv
<1>2. IInv /\ [Next]_vars => IInv'
  BY NextIInv
<1>3. QED
  BY <1>1, <1>2, PTL DEF Spec

\* Every row, request and book keeps the shape of the tables and of the classes
\* it comes from (inventory-item.entity.ts, inventory-item.aggregate.ts); no
\* withdrawal takes more from a batch than the request read in it.
THEOREM InventoryTypeCorrect == Spec => []TypeOK
<1>1. IInv => TypeOK
  BY DEF IInv
<1>2. QED
  BY <1>1, IInvariance, PTL

\* However many requests overlap, and however stale what they write back, no
\* batch ever has more left than was received in it.
THEOREM NothingFromNowhere == Spec => []RemainingWithinReceived
<1>1. IInv => RemainingWithinReceived
  <2> SUFFICES ASSUME IInv, NEW b \in stored
               PROVE  batches[b].remaining <= batches[b].received
    BY DEF RemainingWithinReceived
  <2>1. b \in BatchId
    BY StoredAreIds
  <2>2. QED
    BY <2>1 DEF IInv, RowsWithin, Within
<1>2. QED
  BY <1>1, IInvariance, PTL

-----------------------------------------------------------------------------
(***************************************************************************)
(* Copies, new batches and their entries.                                  *)
(***************************************************************************)

SameBatch(r, s) ==
  /\ r.branch = s.branch /\ r.received = s.received
  /\ r.expiry = s.expiry /\ r.receivedAt = s.receivedAt

\* A loaded copy differs from the row in what remains, if at all.
CopyOk(p) ==
  \A b \in request[p].loaded \cap stored : SameBatch(request[p].batches[b], batches[b])

\* A loaded batch without a row is the one its receipt is about to write.
NewOk(p) ==
  \A b \in request[p].loaded \ stored :
    /\ request[p].kind = "receive" /\ request[p].step \in {"save", "commit"}
    /\ request[p].moves = <<[batch |-> b, units |-> request[p].batches[b].received]>>
    /\ \A q \in Request \ {p} : b \notin request[q].loaded

DeliveryOk(p) ==
  request[p].kind = "receive" /\ request[p].step \in {"save", "commit"}
    => request[p].loaded \ stored # {}

BranchOk(p) ==
  request[p].kind = "consume"
    => \A b \in request[p].loaded : request[p].batches[b].branch = request[p].branch

\* A request that publishes holds no batch any more.
BareOk(p) == request[p].step = "publish" => request[p].loaded = {}

RequestOk(p) == CopyOk(p) /\ NewOk(p) /\ DeliveryOk(p) /\ BranchOk(p) /\ BareOk(p)

CInv == (\A p \in Request : RequestOk(p)) /\ EntriesAreAccounted

\* Only the term of the request that moves changes.
LEMMA UnsettledChange ==
  ASSUME IInv, IInv', NEW p \in Request, OthersWait(p), NEW k \in BatchId \X Direction
  PROVE  /\ Unsettled(k)' + Term(p, k) = Unsettled(k) + Term(p, k)'
         /\ Unsettled(k) \in Nat /\ Unsettled(k)' \in Nat
         /\ Term(p, k) \in Nat /\ Term(p, k)' \in Nat
<1> DEFINE F == [q \in Request |-> Term(q, k)]
           G == [q \in Request |-> Term(q, k)']
<1>1. \A q \in Request : F[q] \in Nat
  BY TermType
<1>2. \A q \in Request : G[q] \in Nat
  <2> SUFFICES ASSUME NEW q \in Request PROVE Term(q, k)' \in Nat
    OBVIOUS
  <2>1. IInv => Term(q, k) \in Nat
    BY TermType
  <2>2. RowOk(q)
    BY DEF IInv, TypeOK, RowOk, LoadedAreCreated, RowsWithin, Within, SomethingToPublish, At
  <2>3. QED
    BY <2>2, TermAfter
<1>3. \A q \in Request \ {p} : G[q] = F[q]
  BY DEF OthersWait, Term, At
<1>4. IsFiniteSet(Request)
  BY RequestAssumption
<1>5. Unsettled(k) = SumFunctionOnSet(F, Request)
  BY DEF Unsettled, Term, SumFunction
<1>6. Unsettled(k)' = SumFunctionOnSet(G, Request)
  BY DEF Unsettled, Term, SumFunction
<1>7. F[p] = Term(p, k) /\ G[p] = Term(p, k)'
  OBVIOUS
<1> HIDE DEF F, G
<1>8. SumFunctionOnSet(G, Request) + F[p] = SumFunctionOnSet(F, Request) + G[p]
  BY <1>1, <1>2, <1>3, <1>4, SumAfterChange
<1>9. SumFunctionOnSet(F, Request) \in Nat /\ SumFunctionOnSet(G, Request) \in Nat
  BY <1>1, <1>2, <1>4, SumType
<1>10. QED
  BY <1>1, <1>2, <1>5, <1>6, <1>7, <1>8, <1>9

LEMMA BooksType ==
  ASSUME IInv, NEW k \in BatchId \X Direction
  PROVE  ledger[k] \in Nat /\ logged[k] \in Nat /\ lost[k] \in Nat
BY DEF IInv, TypeOK, Book

\* While nothing is published nothing changes place.
LEMMA QuietAccounts ==
  ASSUME IInv, IInv', NEW p \in Request, OthersWait(p),
         request[p].step # "publish", request'[p].step # "publish", UNCHANGED books
  PROVE  \A k \in BatchId \X Direction : Accounted(k)' = Accounted(k)
<1> SUFFICES ASSUME NEW k \in BatchId \X Direction PROVE Accounted(k)' = Accounted(k)
  OBVIOUS
<1>1. Term(p, k) = 0 /\ Term(p, k)' = 0
  BY DEF Term, At
<1>2. Unsettled(k)' = Unsettled(k)
  BY <1>1, UnsettledChange
<1>3. QED
  BY <1>2 DEF Accounted, books

LEMMA SettledAccounts ==
  ASSUME IInv, IInv', NEW p \in Request, Settles(p)
  PROVE  \A k \in BatchId \X Direction : Accounted(k)' = Accounted(k)
<1> SUFFICES ASSUME NEW k \in BatchId \X Direction PROVE Accounted(k)' = Accounted(k)
  OBVIOUS
<1>1. /\ Unsettled(k)' + Term(p, k) = Unsettled(k) + Term(p, k)'
      /\ Unsettled(k) \in Nat /\ Unsettled(k)' \in Nat
      /\ Term(p, k) \in Nat /\ Term(p, k)' \in Nat
  BY UnsettledChange DEF Settles
<1>2. ledger'[k] + logged'[k] + lost'[k] + Term(p, k)'
        = ledger[k] + logged[k] + lost[k] + Term(p, k)
  BY DEF Settles
<1>3. ledger[k] \in Nat /\ logged[k] \in Nat /\ lost[k] \in Nat
  BY BooksType
<1>4. ledger'[k] \in Nat /\ logged'[k] \in Nat /\ lost'[k] \in Nat
  BY DEF IInv, TypeOK, Book
<1>5. Accounted(k)' = ledger'[k] + logged'[k] + lost'[k] + Unsettled(k)'
  BY DEF Accounted
<1>6. Accounted(k) = ledger[k] + logged[k] + lost[k] + Unsettled(k)
  BY DEF Accounted
<1>7. QED
  BY <1>1, <1>2, <1>3, <1>4, <1>5, <1>6

\* A commit makes its moves due.
LEMMA CommittedAccounts ==
  ASSUME IInv, IInv', NEW p \in Request, SaveCommit(p)
  PROVE  \A k \in BatchId \X Direction :
           /\ Accounted(k)' = Accounted(k)
                + (IF DirectionOf(request[p].kind) = k[2]
                     THEN UnitsOf(k[1], request[p].moves) ELSE 0)
           /\ UnitsOf(k[1], request[p].moves) \in Nat
           /\ Accounted(k) \in Nat
<1> SUFFICES ASSUME NEW k \in BatchId \X Direction
             PROVE  /\ Accounted(k)' = Accounted(k)
                         + (IF DirectionOf(request[p].kind) = k[2]
                              THEN UnitsOf(k[1], request[p].moves) ELSE 0)
                    /\ UnitsOf(k[1], request[p].moves) \in Nat
                    /\ Accounted(k) \in Nat
  OBVIOUS
<1> DEFINE due == IF DirectionOf(request[p].kind) = k[2]
                    THEN UnitsOf(k[1], request[p].moves) ELSE 0
<1>1. /\ OthersWait(p) /\ request[p].step = "commit" /\ UNCHANGED books
      /\ request'[p].moves = request[p].moves /\ request'[p].failed = <<>>
      /\ \/ request'[p].step = "publish" /\ request'[p].kind = request[p].kind
         \/ request'[p].step = "idle" /\ request[p].moves = <<>>
  BY SaveCommitRow
<1>2. Term(p, k) = 0
  BY <1>1 DEF Term, At
<1>3. request[p].moves \o <<>> = request[p].moves
  BY RowOfRequest
<1>4. Term(p, k)' = due
  <2>1. CASE request'[p].step = "publish" /\ request'[p].kind = request[p].kind
    <3>1. request'[p].moves \o request'[p].failed = request[p].moves
      BY <1>1, <1>3
    <3>2. QED
      BY <2>1, <3>1 DEF Term, At
  <2>2. CASE request'[p].step = "idle" /\ request[p].moves = <<>>
    <3>1. Term(p, k)' = 0
      BY <2>2 DEF Term, At
    <3>2. UnitsOf(k[1], request[p].moves) = 0
      BY <2>2, UnitsOfNone
    <3>3. QED
      BY <3>1, <3>2
  <2>3. QED
    BY <1>1, <2>1, <2>2
<1>5. /\ Unsettled(k)' + Term(p, k) = Unsettled(k) + Term(p, k)'
      /\ Unsettled(k) \in Nat /\ Unsettled(k)' \in Nat
  BY <1>1, UnsettledChange
<1>6. ledger[k] \in Nat /\ logged[k] \in Nat /\ lost[k] \in Nat
  BY BooksType
<1>7. Accounted(k)' = ledger[k] + logged[k] + lost[k] + Unsettled(k)'
  BY <1>1 DEF Accounted, books
<1>8. UnitsOf(k[1], request[p].moves) \in Nat
  BY TermType
<1>9. due \in Nat
  BY <1>8
<1> HIDE DEF due
<1>10. Accounted(k)' = Accounted(k) + due /\ Accounted(k) \in Nat
  BY <1>2, <1>4, <1>5, <1>6, <1>7, <1>9 DEF Accounted
<1>11. QED
  BY <1>8, <1>10 DEF due

LEMMA InitCInv == Init => CInv
<1> SUFFICES ASSUME Init PROVE CInv
  OBVIOUS
<1>1. IInv
  BY InitIInv
<1>2. \A p \in Request : request[p] = Idle
  BY DEF Init
<1>3. ASSUME NEW p \in Request PROVE RequestOk(p)
  BY <1>2 DEF Idle, RequestOk, CopyOk, NewOk, DeliveryOk, BranchOk, BareOk
<1>4. ASSUME NEW b \in BatchId PROVE Accounted(<<b, "in">>) = 0
  <2> DEFINE k == <<b, "in">>
             F == [p \in Request |-> Term(p, k)]
  <2>1. k \in BatchId \X Direction
    BY DEF Direction
  <2>2. \A p \in Request : F[p] = 0
    BY <1>2 DEF Term, At, Idle
  <2>3. Unsettled(k) = SumFunctionOnSet(F, Request)
    BY DEF Unsettled, Term, SumFunction
  <2> HIDE DEF F
  <2>4. Unsettled(k) = 0
    BY <2>2, <2>3, RequestAssumption, SumOfZeros
  <2>5. ledger[k] = 0 /\ logged[k] = 0 /\ lost[k] = 0
    BY <2>1 DEF Init, EmptyBook
  <2>6. QED
    BY <2>4, <2>5 DEF Accounted
<1>5. EntriesAreAccounted
  BY <1>4 DEF EntriesAreAccounted, Init
<1>6. QED
  BY <1>3, <1>5 DEF CInv

\* A step that writes no table: the other requests are as they were, and what
\* is accounted for is what it was.
LEMMA NothingWritten ==
  ASSUME IInv, IInv', CInv, NEW p \in Request, OthersWait(p), UNCHANGED tables,
         \A k \in BatchId \X Direction : Accounted(k)' = Accounted(k),
         RequestOk(p)',
         \A b \in request'[p].loaded :
           b \in stored \/ b \in request[p].loaded \/ b \notin 1 .. created
  PROVE  CInv'
<1>1. stored' = stored /\ batches' = batches
  BY DEF tables
<1>2. ASSUME NEW q \in Request PROVE RequestOk(q)'
  <2>1. CASE q = p
    BY <2>1
  <2>2. CASE q # p
    <3>1. request'[q] = request[q] /\ RequestOk(q) /\ request[q].loaded \subseteq 1 .. created
      BY <2>2 DEF OthersWait, CInv, IInv, LoadedAreCreated
    <3>2. ASSUME NEW b \in request[q].loaded \ stored PROVE b \notin request'[p].loaded
      <4>1. b \notin request[p].loaded
        BY <2>2, <3>1 DEF RequestOk, NewOk
      <4>2. QED
        BY <3>1, <4>1
    <3>3. ASSUME NEW b \in request'[q].loaded \ stored', NEW o \in Request \ {q}
          PROVE  b \notin request'[o].loaded
      <4>1. CASE o = p
        BY <1>1, <3>1, <3>2, <4>1
      <4>2. CASE o # p
        BY <1>1, <3>1, <4>2 DEF OthersWait, RequestOk, NewOk
      <4>3. QED
        BY <4>1, <4>2
    <3>4. NewOk(q)'
      BY <1>1, <3>1, <3>3 DEF RequestOk, NewOk
    <3>5. CopyOk(q)' /\ DeliveryOk(q)' /\ BranchOk(q)' /\ BareOk(q)'
      BY <1>1, <3>1 DEF RequestOk, CopyOk, DeliveryOk, BranchOk, BareOk
    <3>6. QED
      BY <3>4, <3>5 DEF RequestOk
  <2>3. QED
    BY <2>1, <2>2
<1>3. EntriesAreAccounted'
  <2> SUFFICES ASSUME NEW b \in BatchId
               PROVE  Accounted(<<b, "in">>)'
                        = IF b \in stored' THEN batches'[b].received ELSE 0
    BY DEF EntriesAreAccounted
  <2>1. <<b, "in">> \in BatchId \X Direction
    BY DEF Direction
  <2>2. Accounted(<<b, "in">>)' = Accounted(<<b, "in">>)
    BY <2>1
  <2>3. QED
    BY <1>1, <2>2 DEF CInv, EntriesAreAccounted
<1>4. QED
  BY <1>2, <1>3 DEF CInv

\* A request that keeps what it loaded, with the same batches but for what
\* remains in them, is as right as it was.
LEMMA SameCopies ==
  ASSUME IInv, CInv, NEW p \in Request, OthersWait(p), UNCHANGED tables,
         request'[p].loaded = request[p].loaded, request'[p].kind = request[p].kind,
         request'[p].branch = request[p].branch,
         \A b \in BatchId : SameBatch(request'[p].batches[b], request[p].batches[b]),
         request[p].step \in {"save", "commit"} =>
           request'[p].moves = request[p].moves /\ request'[p].step \in {"save", "commit"},
         request'[p].kind = "receive" /\ request'[p].step \in {"save", "commit"}
           => request[p].step \in {"save", "commit"},
         request'[p].step # "publish"
  PROVE  RequestOk(p)'
<1>1. stored' = stored /\ batches' = batches /\ RequestOk(p)
  BY DEF tables, CInv
<1>2. request[p].loaded \subseteq BatchId
  BY RowOfRequest
<1>3. CopyOk(p)'
  BY <1>1, <1>2 DEF RequestOk, CopyOk, SameBatch
<1>4. NewOk(p)'
  <2> SUFFICES ASSUME NEW b \in request'[p].loaded \ stored'
               PROVE  /\ request'[p].kind = "receive"
                      /\ request'[p].step \in {"save", "commit"}
                      /\ request'[p].moves
                           = <<[batch |-> b, units |-> request'[p].batches[b].received]>>
                      /\ \A q \in Request \ {p} : b \notin request'[q].loaded
    BY DEF NewOk
  <2>1. b \in request[p].loaded \ stored /\ b \in BatchId
    BY <1>1, <1>2
  <2>2. /\ request[p].kind = "receive" /\ request[p].step \in {"save", "commit"}
        /\ request[p].moves = <<[batch |-> b, units |-> request[p].batches[b].received]>>
        /\ \A q \in Request \ {p} : b \notin request[q].loaded
    BY <1>1, <2>1 DEF RequestOk, NewOk
  <2>3. request'[p].batches[b].received = request[p].batches[b].received
    BY <2>1 DEF SameBatch
  <2>4. \A q \in Request \ {p} : b \notin request'[q].loaded
    BY <2>2 DEF OthersWait
  <2>5. QED
    BY <2>2, <2>3, <2>4
<1>5. DeliveryOk(p)'
  BY <1>1 DEF RequestOk, DeliveryOk
<1>6. BranchOk(p)'
  BY <1>1, <1>2 DEF RequestOk, BranchOk, SameBatch
<1>7. QED
  BY <1>3, <1>4, <1>5, <1>6 DEF RequestOk, BareOk

LEMMA NothingLoaded ==
  ASSUME NEW p \in Request, request'[p].loaded = {},
         request'[p].step \notin {"save", "commit"}
  PROVE  RequestOk(p)'
BY DEF RequestOk, CopyOk, NewOk, DeliveryOk, BranchOk, BareOk

LEMMA PublishingIsBare ==
  ASSUME IInv, CInv, NEW p \in Request, request[p].step = "publish",
         request'[p].loaded \subseteq request[p].loaded,
         request'[p].step \in {"publish", "idle"}
  PROVE  RequestOk(p)'
<1>1. request'[p].loaded = {}
  BY DEF CInv, RequestOk, BareOk
<1>2. QED
  BY <1>1, NothingLoaded

LEMMA LoadBatchesCInv ==
  ASSUME IInv, CInv, NEW p \in Request, LoadBatches(p)
  PROVE  CInv'
<1>1. /\ IInv' /\ OthersWait(p) /\ UNCHANGED <<tables, books>>
      /\ request[p].step = "batches" /\ request'[p].step = "overrides"
      /\ request'[p].kind = request[p].kind /\ request'[p].branch = request[p].branch
      /\ request'[p].loaded = {b \in stored : Loads(request[p], b)}
      /\ \A b \in request'[p].loaded : request'[p].batches[b] = batches[b]
  BY LoadBatchesRow
<1>2. stored' = stored /\ batches' = batches
  BY <1>1 DEF tables
<1>3. RequestOk(p)'
  <2>1. CopyOk(p)'
    BY <1>1, <1>2 DEF CopyOk, SameBatch
  <2>2. NewOk(p)' /\ DeliveryOk(p)'
    BY <1>1, <1>2 DEF NewOk, DeliveryOk
  <2>3. BranchOk(p)'
    BY <1>1 DEF BranchOk, Loads, LoadsOneBranch
  <2>4. QED
    BY <1>1, <2>1, <2>2, <2>3 DEF RequestOk, BareOk
<1>4. \A k \in BatchId \X Direction : Accounted(k)' = Accounted(k)
  BY <1>1, QuietAccounts
<1>5. QED
  BY <1>1, <1>3, <1>4, NothingWritten

LEMMA ReceiveCInv ==
  ASSUME IInv, CInv, NEW p \in Request, Receive(p)
  PROVE  CInv'
<1> DEFINE new == created'
<1>1. /\ IInv' /\ OthersWait(p) /\ UNCHANGED <<tables, books>>
      /\ request[p].step = "operate" /\ request'[p].step = "save"
      /\ request[p].kind = "receive" /\ request'[p].kind = "receive"
      /\ new = created + 1 /\ new \in BatchId
      /\ request'[p].loaded = request[p].loaded \cup {new}
      /\ \A b \in BatchId \ {new} : request'[p].batches[b] = request[p].batches[b]
      /\ request'[p].moves
           = <<[batch |-> new, units |-> request'[p].batches[new].received]>>
  BY ReceiveRow
<1>2. stored' = stored /\ batches' = batches /\ RequestOk(p)
  BY <1>1 DEF tables, CInv
<1>3. new \notin 1 .. created /\ stored \subseteq 1 .. created
  BY <1>1, StoredAreIds DEF IInv, TypeOK
<1>4. request[p].loaded \subseteq stored /\ request[p].loaded \subseteq BatchId
  BY <1>1, <1>2, RowOfRequest DEF RequestOk, NewOk
<1>5. RequestOk(p)'
  <2>1. CopyOk(p)'
    BY <1>1, <1>2, <1>3, <1>4 DEF RequestOk, CopyOk
  <2>2. NewOk(p)'
    <3>1. request'[p].loaded \ stored' = {new}
      BY <1>1, <1>2, <1>3, <1>4
    <3>2. ASSUME NEW q \in Request \ {p} PROVE new \notin request'[q].loaded
      <4>1. request'[q] = request[q] /\ request[q].loaded \subseteq 1 .. created
        BY <1>1, RowOfRequest DEF OthersWait
      <4> HIDE DEF new
      <4>2. QED
        BY <1>3, <4>1
    <3>3. QED
      BY <1>1, <3>1, <3>2 DEF NewOk
  <2>3. DeliveryOk(p)'
    BY <1>1, <1>2, <1>3 DEF DeliveryOk
  <2>4. BranchOk(p)'
    BY <1>1 DEF BranchOk
  <2>5. QED
    BY <1>1, <2>1, <2>2, <2>3, <2>4 DEF RequestOk, BareOk
<1>6. \A k \in BatchId \X Direction : Accounted(k)' = Accounted(k)
  BY <1>1, QuietAccounts
<1>7. QED
  BY <1>1, <1>3, <1>5, <1>6, NothingWritten

\* The operations that touch no table and keep what was loaded.
LEMMA KeepsCopies ==
  ASSUME IInv, CInv, NEW p \in Request, IInv', OthersWait(p), UNCHANGED <<tables, books>>,
         request[p].step # "publish", request'[p].step # "publish",
         request'[p].loaded = request[p].loaded, request'[p].kind = request[p].kind,
         request'[p].branch = request[p].branch,
         \A b \in BatchId : SameBatch(request'[p].batches[b], request[p].batches[b]),
         request[p].step \in {"save", "commit"} =>
           request'[p].moves = request[p].moves /\ request'[p].step \in {"save", "commit"},
         request'[p].kind = "receive" /\ request'[p].step \in {"save", "commit"}
           => request[p].step \in {"save", "commit"}
  PROVE  CInv'
<1>1. UNCHANGED tables /\ UNCHANGED books
  OBVIOUS
<1>2. RequestOk(p)'
  BY <1>1, SameCopies
<1>3. \A k \in BatchId \X Direction : Accounted(k)' = Accounted(k)
  BY <1>1, QuietAccounts
<1>4. QED
  BY <1>1, <1>2, <1>3, NothingWritten

LEMMA OperatesCInv ==
  ASSUME IInv, CInv, NEW p \in Request,
         \/ LoadOverrides(p) \/ Withdraw(p) \/ SetMinimums(p) \/ SetGlobalMinimum(p)
         \/ Update(p) \/ SaveSelect(p)
  PROVE  CInv'
<1>1. CASE LoadOverrides(p)
  BY <1>1, LoadOverridesRow, KeepsCopies DEF SameBatch
<1>2. CASE Withdraw(p)
  <2>1. /\ IInv' /\ Operates(p) /\ request[p].kind \in Withdrawal
        /\ \A b \in BatchId : SameBatch(request'[p].batches[b], request[p].batches[b])
    BY <1>2, WithdrawRow DEF SameBatch
  <2>2. request[p].kind # "receive"
    BY <2>1 DEF Withdrawal
  <2>3. QED
    BY <2>1, <2>2, KeepsCopies DEF Operates
<1>3. CASE SetMinimums(p)
  BY <1>3, SetMinimumsRow, KeepsCopies DEF SameBatch, Operates
<1>4. CASE SetGlobalMinimum(p)
  BY <1>4, SetGlobalMinimumRow, KeepsCopies DEF SameBatch, Operates
<1>5. CASE Update(p)
  BY <1>5, UpdateRow, KeepsCopies DEF SameBatch, Operates
<1>6. CASE SaveSelect(p)
  BY <1>6, SaveSelectRow, KeepsCopies DEF SameBatch
<1>7. QED
  BY <1>1, <1>2, <1>3, <1>4, <1>5, <1>6

LEMMA BeginFailsCInv ==
  ASSUME IInv, CInv, NEW p \in Request, Begin(p) \/ Fails(p)
  PROVE  CInv'
<1>1. /\ IInv' /\ OthersWait(p) /\ request[p].step # "publish"
      /\ request'[p].step \in {"idle", "batches"} /\ request'[p].loaded = {}
      /\ UNCHANGED tables /\ UNCHANGED books
  BY BeginRow, FailsRow
<1>2. RequestOk(p)'
  BY <1>1, NothingLoaded
<1>3. \A k \in BatchId \X Direction : Accounted(k)' = Accounted(k)
  BY <1>1, QuietAccounts
<1>4. QED
  BY <1>1, <1>2, <1>3, NothingWritten

LEMMA SettlesCInv ==
  ASSUME IInv, CInv, NEW p \in Request,
         RecordMovement(p) \/ MovementFails(p) \/ Dies(p)
  PROVE  CInv'
<1>1. IInv' /\ Settles(p)
  BY RecordMovementSettles, MovementFailsSettles, DiesSettles
<1>2. \A k \in BatchId \X Direction : Accounted(k)' = Accounted(k)
  BY <1>1, SettledAccounts
<1>3. /\ OthersWait(p) /\ request[p].step = "publish"
      /\ request'[p].loaded \subseteq request[p].loaded
      /\ request'[p].step \in {"publish", "idle"} /\ UNCHANGED tables
  BY <1>1 DEF Settles
<1>4. QED
  BY <1>1, <1>2, <1>3, NothingWritten, PublishingIsBare

LEMMA SaveCommitCInv ==
  ASSUME IInv, CInv, NEW p \in Request, SaveCommit(p)
  PROVE  CInv'
<1> DEFINE r == request[p]
<1>1. /\ IInv' /\ OthersWait(p) /\ r.step = "commit"
      /\ request'[p].loaded = {} /\ request'[p].step \in {"publish", "idle"}
      /\ stored' = stored \cup r.loaded
      /\ \A b \in BatchId : batches'[b] = IF b \in r.loaded THEN r.batches[b] ELSE batches[b]
  BY SaveCommitRow
<1>2. RequestOk(p) /\ r.loaded \subseteq BatchId /\ stored \subseteq BatchId
  BY RowOfRequest, StoredAreIds DEF CInv
<1>3. \A b \in stored : SameBatch(batches'[b], batches[b])
  BY <1>1, <1>2 DEF RequestOk, CopyOk, SameBatch
<1>4. \A b \in r.loaded : batches'[b] = r.batches[b]
  BY <1>1, <1>2
<1> HIDE DEF r
<1>5. ASSUME NEW q \in Request PROVE RequestOk(q)'
  <2>1. CASE q = p
    BY <1>1, <2>1, NothingLoaded
  <2>2. CASE q # p
    <3>1. request'[q] = request[q] /\ RequestOk(q)
      BY <1>1, <2>2 DEF OthersWait, CInv
    <3>2. ASSUME NEW b \in request[q].loaded, b \in stored'  PROVE  b \in stored
      BY <1>1, <1>2, <2>2, <3>2 DEF RequestOk, NewOk, r
    <3>3. CopyOk(q)'
      BY <1>3, <3>1, <3>2 DEF RequestOk, CopyOk, SameBatch
    <3>4. NewOk(q)'
      <4> SUFFICES ASSUME NEW b \in request'[q].loaded \ stored'
                   PROVE  /\ request'[q].kind = "receive"
                          /\ request'[q].step \in {"save", "commit"}
                          /\ request'[q].moves
                               = <<[batch |-> b, units |-> request'[q].batches[b].received]>>
                          /\ \A o \in Request \ {q} : b \notin request'[o].loaded
        BY DEF NewOk
      <4>1. b \in request[q].loaded \ stored
        BY <1>1, <3>1
      <4>2. \A o \in Request \ {q} : b \notin request'[o].loaded
        <5>1. \A o \in Request \ {q} : b \notin request[o].loaded
          BY <3>1, <4>1 DEF RequestOk, NewOk
        <5>2. QED
          BY <1>1, <5>1 DEF OthersWait
      <4>3. QED
        BY <3>1, <4>1, <4>2 DEF RequestOk, NewOk
    <3>5. DeliveryOk(q)'
      BY <1>1, <3>1, <3>2 DEF RequestOk, DeliveryOk
    <3>6. BranchOk(q)' /\ BareOk(q)'
      BY <3>1 DEF RequestOk, BranchOk, BareOk
    <3>7. QED
      BY <3>3, <3>4, <3>5, <3>6 DEF RequestOk
  <2>3. QED
    BY <2>1, <2>2
<1>6. ASSUME NEW b \in BatchId
      PROVE  Accounted(<<b, "in">>)' = IF b \in stored' THEN batches'[b].received ELSE 0
  <2> DEFINE k == <<b, "in">>
  <2>1. k \in BatchId \X Direction
    BY DEF Direction
  <2>2. /\ Accounted(k)' = Accounted(k)
             + (IF DirectionOf(r.kind) = "in" THEN UnitsOf(b, r.moves) ELSE 0)
        /\ UnitsOf(b, r.moves) \in Nat /\ Accounted(k) \in Nat
    BY <1>1, <2>1, CommittedAccounts DEF r
  <2>3. Accounted(k) = IF b \in stored THEN batches[b].received ELSE 0
    BY DEF CInv, EntriesAreAccounted
  <2> HIDE DEF k
  <2>4. CASE r.kind = "receive"
    <3>1. DirectionOf(r.kind) = "in"
      BY <2>4 DEF DirectionOf
    <3>2. PICK new \in r.loaded \ stored : TRUE
      BY <1>1, <1>2, <2>4 DEF RequestOk, DeliveryOk, r
    <3>3. \A c \in r.loaded \ stored :
            r.moves = <<[batch |-> c, units |-> r.batches[c].received]>>
      BY <1>2 DEF RequestOk, NewOk, r
    <3>4. \A c \in r.loaded \ stored : c = new
      <4> SUFFICES ASSUME NEW c \in r.loaded \ stored PROVE c = new
        OBVIOUS
      <4>1. r.moves[1] = [batch |-> c, units |-> r.batches[c].received]
        BY <3>3
      <4>2. r.moves[1] = [batch |-> new, units |-> r.batches[new].received]
        BY <3>2, <3>3
      <4>3. r.moves[1].batch = c /\ r.moves[1].batch = new
        BY <4>1, <4>2
      <4>4. QED
        BY <4>3
    <3>5. /\ r.moves \in Seq(Move) /\ Len(r.moves) = 1
          /\ r.moves[1].batch = new /\ r.moves[1].units = r.batches[new].received
      <4>1. r.moves = <<[batch |-> new, units |-> r.batches[new].received]>>
        BY <3>2, <3>3
      <4>2. r.moves[1] = [batch |-> new, units |-> r.batches[new].received] /\ Len(r.moves) = 1
        BY <4>1
      <4>3. r.moves \in Seq(Move)
        BY RowOfRequest DEF r
      <4>4. QED
        BY <4>2, <4>3
    <3>6. UnitsOf(b, r.moves) = IF b = new THEN r.batches[new].received ELSE 0
      <4>1. CASE b = new
        BY <3>5, <4>1, UnitsOfSingle
      <4>2. CASE b # new
        BY <3>5, <4>2, UnitsOfOthers
      <4>3. QED
        BY <4>1, <4>2
    <3>7. CASE b = new
      <4>1. b \notin stored /\ b \in stored' /\ batches'[b].received = r.batches[b].received
        BY <1>1, <1>4, <3>2, <3>7
      <4>2. QED
        BY <2>2, <2>3, <3>1, <3>6, <3>7, <4>1 DEF k
    <3>8. CASE b # new
      <4>1. b \in stored' <=> b \in stored
        BY <1>1, <3>4, <3>8
      <4>2. b \in stored => batches'[b].received = batches[b].received
        BY <1>3 DEF SameBatch
      <4>3. Accounted(k)' = Accounted(k)
        BY <2>2, <3>6, <3>8
      <4>4. QED
        BY <2>3, <4>1, <4>2, <4>3 DEF k
    <3>9. QED
      BY <3>7, <3>8
  <2>5. CASE r.kind # "receive"
    <3>1. r.loaded \subseteq stored
      BY <1>2, <2>5 DEF RequestOk, NewOk, r
    <3>2. DirectionOf(r.kind) = "out"
      BY <2>5 DEF DirectionOf
    <3>3. Accounted(k)' = Accounted(k)
      BY <2>2, <3>2
    <3>4. b \in stored' <=> b \in stored
      BY <1>1, <3>1
    <3>5. b \in stored => batches'[b].received = batches[b].received
      BY <1>3 DEF SameBatch
    <3>6. QED
      BY <2>3, <3>3, <3>4, <3>5 DEF k
  <2>6. QED
    BY <2>4, <2>5
<1>7. QED
  BY <1>5, <1>6 DEF CInv, EntriesAreAccounted

LEMMA NextCInv == IInv /\ CInv /\ [Next]_vars => CInv'
<1> SUFFICES ASSUME IInv, CInv, [Next]_vars PROVE CInv'
  OBVIOUS
<1>1. CASE UNCHANGED vars
  <2>1. /\ request' = request /\ stored' = stored /\ batches' = batches
        /\ ledger' = ledger /\ logged' = logged /\ lost' = lost
    BY <1>1 DEF vars, tables, books
  <2>2. \A p \in Request : RequestOk(p)'
    BY <2>1 DEF CInv, RequestOk, CopyOk, NewOk, DeliveryOk, BranchOk, BareOk
  <2>3. EntriesAreAccounted'
    BY <2>1 DEF CInv, EntriesAreAccounted, Accounted, Unsettled, At
  <2>4. QED
    BY <2>2, <2>3 DEF CInv
<1>2. CASE Next
  <2>1. PICK p \in Request :
          \/ Begin(p) \/ LoadBatches(p) \/ LoadOverrides(p)
          \/ Receive(p) \/ Withdraw(p)
          \/ SetMinimums(p) \/ SetGlobalMinimum(p) \/ Update(p)
          \/ SaveSelect(p) \/ SaveCommit(p)
          \/ RecordMovement(p) \/ MovementFails(p)
          \/ Fails(p) \/ Dies(p)
    BY <1>2 DEF Next
  <2>2. QED
    BY <2>1, BeginFailsCInv, LoadBatchesCInv, OperatesCInv, ReceiveCInv, SaveCommitCInv,
       SettlesCInv
<1>3. QED
  BY <1>1, <1>2

LEMMA CInvariance == Spec => [](IInv /\ CInv)
<1>1. Init => IInv /\ CInv
  BY InitIInv, InitCInv
<1>2. IInv /\ CInv /\ [Next]_vars => (IInv /\ CInv)'
  BY NextIInv, NextCInv
<1>3. QED
  BY <1>1, <1>2, PTL DEF Spec

\* Whatever overlaps, fails or dies on the way, the units of the entry of each
\* batch that was saved are in the ledger, in the error log, lost with a process
\* or still to be written, once each, and no entry is written for any other.
THEOREM NoEntryIsMissed == Spec => []EntriesAreAccounted
<1>1. CInv => EntriesAreAccounted
  BY DEF CInv
<1>2. QED
  BY <1>1, CInvariance, PTL

\* Only the commit of a request takes it from there to publishing.
LEMMA OnlyTheCommitPublishes ==
  ASSUME IInv, [Next]_vars, NEW p \in Request, At(p, "commit"), At(p, "publish")'
  PROVE  SaveCommit(p)
<1>1. request[p].step = "commit" /\ request'[p].step = "publish"
  BY DEF At
<1>2. Next
  BY <1>1 DEF vars
<1>3. PICK q \in Request :
        \/ Begin(q) \/ LoadBatches(q) \/ LoadOverrides(q)
        \/ Receive(q) \/ Withdraw(q)
        \/ SetMinimums(q) \/ SetGlobalMinimum(q) \/ Update(q)
        \/ SaveSelect(q) \/ SaveCommit(q)
        \/ RecordMovement(q) \/ MovementFails(q)
        \/ Fails(q) \/ Dies(q)
  BY <1>2 DEF Next
<1>4. ASSUME Begin(q) \/ LoadBatches(q) \/ LoadOverrides(q) \/ Receive(q) \/ SaveSelect(q)
               \/ Fails(q)
      PROVE  /\ OthersWait(q) /\ request'[q].step # "publish"
  BY <1>4, BeginRow, LoadBatchesRow, LoadOverridesRow, ReceiveRow, SaveSelectRow, FailsRow
<1>5. ASSUME Withdraw(q) \/ SetMinimums(q) \/ SetGlobalMinimum(q) \/ Update(q)
      PROVE  OthersWait(q) /\ request'[q].step # "publish"
  <2>1. Operates(q)
    BY <1>5, WithdrawRow, SetMinimumsRow, SetGlobalMinimumRow, UpdateRow
  <2>2. QED
    BY <2>1 DEF Operates
<1>6. ASSUME RecordMovement(q) \/ MovementFails(q) \/ Dies(q)
      PROVE  OthersWait(q) /\ request[q].step = "publish"
  <2>1. Settles(q)
    BY <1>6, RecordMovementSettles, MovementFailsSettles, DiesSettles
  <2>2. QED
    BY <2>1 DEF Settles
<1>7. SaveCommit(q) => OthersWait(q)
  BY SaveCommitRow
<1>8. q = p
  <2>1. OthersWait(q)
    BY <1>3, <1>4, <1>5, <1>6, <1>7
  <2>2. QED
    BY <1>1, <2>1 DEF OthersWait
<1>9. QED
  BY <1>1, <1>3, <1>4, <1>5, <1>6, <1>8

\* However stale it is, a consumption never undoes what another request
\* committed in the batches of another branch (consume-stock.use-case.ts loads
\* the item for one branch).
THEOREM ConsumptionIsLocal == Spec => ConsumeStaysInItsBranch
<1> DEFINE Local ==
      \A p \in Request :
        At(p, "commit") /\ request[p].kind = "consume" /\ At(p, "publish")'
        => \A b \in stored :
             batches[b].branch # request[p].branch => batches'[b] = batches[b]
<1>1. IInv /\ CInv /\ [Next]_vars => Local
  <2> SUFFICES ASSUME IInv, CInv, [Next]_vars,
                      NEW p \in Request, At(p, "commit"), request[p].kind = "consume",
                      At(p, "publish")', NEW b \in stored,
                      batches[b].branch # request[p].branch
               PROVE  batches'[b] = batches[b]
    OBVIOUS
  <2>1. SaveCommit(p)
    BY OnlyTheCommitPublishes
  <2>2. b \in BatchId
    BY StoredAreIds
  <2>3. batches'[b] = IF b \in request[p].loaded THEN request[p].batches[b] ELSE batches[b]
    BY <2>1, <2>2, SaveCommitRow
  <2>4. b \notin request[p].loaded
    BY DEF CInv, RequestOk, CopyOk, BranchOk, SameBatch
  <2>5. QED
    BY <2>3, <2>4
<1>2. IInv /\ CInv /\ [Next]_vars => [Local]_vars
  BY <1>1
<1>3. QED
  BY <1>1, CInvariance, PTL DEF Spec, ConsumeStaysInItsBranch

-----------------------------------------------------------------------------
(***************************************************************************)
(* One request at a time.                                                  *)
(***************************************************************************)

OneAtATime == \A p, q \in Request : p = q

\* Units that request p takes out of batch b.
Out(p, b) ==
  IF DirectionOf(request[p].kind) = "out" THEN UnitsOf(b, request[p].moves) ELSE 0

\* Nothing is to be published before the operation.
NotYet(p) ==
  request[p].step \in {"idle", "batches", "overrides", "operate"} => request[p].moves = <<>>

\* What was loaded is what the rows say.
Fresh(p) ==
  request[p].step \in {"overrides", "operate"}
    => \A b \in BatchId :
         request[p].batches[b].remaining
           = IF b \in request[p].loaded THEN batches[b].remaining ELSE 0

\* What will be written is the row without what is taken, or all of a new batch.
Balanced(p) ==
  request[p].step \in {"save", "commit"}
    => \A b \in BatchId :
         /\ b \in request[p].loaded \cap stored =>
              request[p].batches[b].remaining + Out(p, b) = batches[b].remaining
         /\ b \in request[p].loaded \ stored =>
              request[p].batches[b].remaining = request[p].batches[b].received
         /\ b \notin request[p].loaded \cap stored => Out(p, b) = 0

Explained ==
  \A b \in BatchId :
    IF b \in stored
      THEN batches[b].remaining + Accounted(<<b, "out">>) = batches[b].received
      ELSE Accounted(<<b, "out">>) = 0

OneOk(p) == NotYet(p) /\ Fresh(p) /\ Balanced(p)

SInv == (\A p \in Request : OneOk(p)) /\ Explained

LEMMA InitSInv == Init => SInv
<1> SUFFICES ASSUME Init PROVE SInv
  OBVIOUS
<1>1. \A p \in Request : request[p] = Idle
  BY DEF Init
<1>2. ASSUME NEW p \in Request PROVE OneOk(p)
  BY <1>1 DEF Idle, OneOk, NotYet, Fresh, Balanced
<1>3. ASSUME NEW b \in BatchId PROVE Accounted(<<b, "out">>) = 0
  <2> DEFINE k == <<b, "out">>
             F == [p \in Request |-> Term(p, k)]
  <2>1. k \in BatchId \X Direction
    BY DEF Direction
  <2>2. \A p \in Request : F[p] = 0
    BY <1>1 DEF Term, At, Idle
  <2>3. Unsettled(k) = SumFunctionOnSet(F, Request)
    BY DEF Unsettled, Term, SumFunction
  <2> HIDE DEF F
  <2>4. Unsettled(k) = 0
    BY <2>2, <2>3, RequestAssumption, SumOfZeros
  <2>5. ledger[k] = 0 /\ logged[k] = 0 /\ lost[k] = 0
    BY <2>1 DEF Init, EmptyBook
  <2>6. QED
    BY <2>4, <2>5 DEF Accounted
<1>4. Explained
  BY <1>3 DEF Explained, Init
<1>5. QED
  BY <1>2, <1>4 DEF SInv

\* Where no table changes, the request alone has to be looked at.
LEMMA OneStep ==
  ASSUME OneAtATime, SInv, NEW p \in Request, UNCHANGED tables,
         \A k \in BatchId \X Direction : Accounted(k)' = Accounted(k),
         OneOk(p)'
  PROVE  SInv'
<1>1. \A q \in Request : OneOk(q)'
  BY DEF OneAtATime
<1>2. Explained'
  <2> SUFFICES ASSUME NEW b \in BatchId
               PROVE  IF b \in stored'
                        THEN batches'[b].remaining + Accounted(<<b, "out">>)'
                               = batches'[b].received
                        ELSE Accounted(<<b, "out">>)' = 0
    BY DEF Explained
  <2>1. <<b, "out">> \in BatchId \X Direction
    BY DEF Direction
  <2>2. Accounted(<<b, "out">>)' = Accounted(<<b, "out">>)
    BY <2>1
  <2>3. stored' = stored /\ batches' = batches
    BY DEF tables
  <2>4. QED
    BY <2>2, <2>3 DEF SInv, Explained
<1>3. QED
  BY <1>1, <1>2 DEF SInv

LEMMA WaitingSInv ==
  ASSUME OneAtATime, IInv, CInv, SInv, NEW p \in Request,
         \/ Begin(p) \/ LoadBatches(p) \/ LoadOverrides(p) \/ SaveSelect(p) \/ Fails(p)
  PROVE  SInv'
<1>1. CASE Begin(p) \/ Fails(p)
  <2>1. /\ IInv' /\ OthersWait(p) /\ request[p].step # "publish"
        /\ request'[p].step \in {"idle", "batches"} /\ request'[p].moves = <<>>
        /\ UNCHANGED tables /\ UNCHANGED books
    BY <1>1, BeginRow, FailsRow
  <2>2. OneOk(p)'
    BY <2>1 DEF OneOk, NotYet, Fresh, Balanced
  <2>3. \A k \in BatchId \X Direction : Accounted(k)' = Accounted(k)
    BY <2>1, QuietAccounts
  <2>4. QED
    BY <2>1, <2>2, <2>3, OneStep
<1>2. CASE LoadBatches(p)
  <2>1. /\ IInv' /\ OthersWait(p) /\ UNCHANGED tables /\ UNCHANGED books
        /\ request[p].step = "batches" /\ request'[p].step = "overrides"
        /\ \A b \in request'[p].loaded : request'[p].batches[b] = batches[b]
        /\ \A b \in BatchId \ request'[p].loaded : request'[p].batches[b] = NoBatch
        /\ request'[p].moves = request[p].moves
    BY <1>2, LoadBatchesRow
  <2>2. batches' = batches
    BY <2>1 DEF tables
  <2>3. NotYet(p)' /\ Balanced(p)'
    BY <2>1 DEF SInv, OneOk, NotYet, Balanced
  <2>4. Fresh(p)'
    BY <2>1, <2>2 DEF Fresh, NoBatch
  <2>5. \A k \in BatchId \X Direction : Accounted(k)' = Accounted(k)
    BY <2>1, QuietAccounts
  <2>6. QED
    BY <2>1, <2>3, <2>4, <2>5, OneStep DEF OneOk
<1>3. CASE LoadOverrides(p) \/ SaveSelect(p)
  <2>1. /\ IInv' /\ OthersWait(p) /\ UNCHANGED tables /\ UNCHANGED books
        /\ \/ request[p].step = "overrides" /\ request'[p].step = "operate"
           \/ request[p].step = "save" /\ request'[p].step = "commit"
        /\ request'[p].kind = request[p].kind
        /\ request'[p].loaded = request[p].loaded
        /\ request'[p].batches = request[p].batches
        /\ request'[p].moves = request[p].moves
    BY <1>3, LoadOverridesRow, SaveSelectRow
  <2>2. batches' = batches /\ stored' = stored
    BY <2>1 DEF tables
  <2>3. OneOk(p)
    BY DEF SInv
  <2>4. NotYet(p)' /\ Fresh(p)'
    BY <2>1, <2>2, <2>3 DEF OneOk, NotYet, Fresh
  <2>5. Balanced(p)'
    BY <2>1, <2>2, <2>3 DEF OneOk, Balanced, Out
  <2>6. \A k \in BatchId \X Direction : Accounted(k)' = Accounted(k)
    BY <2>1, QuietAccounts
  <2>7. QED
    BY <2>1, <2>4, <2>5, <2>6, OneStep DEF OneOk
<1>4. QED
  BY <1>1, <1>2, <1>3

LEMMA ReceiveSInv ==
  ASSUME OneAtATime, IInv, CInv, SInv, NEW p \in Request, Receive(p)
  PROVE  SInv'
<1> DEFINE new == created'
<1>1. /\ IInv' /\ OthersWait(p) /\ UNCHANGED tables /\ UNCHANGED books
      /\ request[p].step = "operate" /\ request'[p].step = "save"
      /\ request[p].kind = "receive" /\ request'[p].kind = "receive"
      /\ new = created + 1 /\ new \in BatchId
      /\ request'[p].loaded = request[p].loaded \cup {new}
      /\ \A b \in BatchId \ {new} : request'[p].batches[b] = request[p].batches[b]
      /\ request'[p].batches[new].remaining = request'[p].batches[new].received
  BY ReceiveRow
<1>2. stored' = stored /\ batches' = batches /\ OneOk(p) /\ RequestOk(p)
  BY <1>1 DEF tables, SInv, CInv
<1>3. new \notin stored
  BY <1>1, StoredAreIds DEF IInv, TypeOK
<1>4. request[p].loaded \subseteq stored
  BY <1>1, <1>2 DEF RequestOk, NewOk
<1>5. NotYet(p)' /\ Fresh(p)'
  BY <1>1 DEF NotYet, Fresh
<1>6. Balanced(p)'
  <2> SUFFICES ASSUME NEW b \in BatchId
               PROVE  /\ b \in request'[p].loaded \cap stored' =>
                           request'[p].batches[b].remaining + Out(p, b)' = batches'[b].remaining
                      /\ b \in request'[p].loaded \ stored' =>
                           request'[p].batches[b].remaining = request'[p].batches[b].received
                      /\ b \notin request'[p].loaded \cap stored' => Out(p, b)' = 0
    BY DEF Balanced
  <2>1. Out(p, b)' = 0
    BY <1>1 DEF Out, DirectionOf
  <2>2. b \in request'[p].loaded \ stored' => b = new
    BY <1>1, <1>2, <1>4
  <2>3. ASSUME b \in request'[p].loaded \cap stored'
        PROVE  request'[p].batches[b].remaining = batches'[b].remaining
               /\ batches'[b].remaining \in Nat
    <3>1. b # new /\ b \in request[p].loaded
      BY <1>1, <1>2, <1>3, <2>3
    <3>2. request[p].batches[b].remaining = batches[b].remaining
      BY <1>1, <1>2, <3>1 DEF OneOk, Fresh
    <3>3. batches[b].remaining \in Nat
      BY ConstantTypes DEF IInv, TypeOK, Batch
    <3>4. QED
      BY <1>1, <1>2, <3>1, <3>2, <3>3
  <2> HIDE DEF new
  <2>4. QED
    BY <1>1, <2>1, <2>2, <2>3
<1>7. \A k \in BatchId \X Direction : Accounted(k)' = Accounted(k)
  BY <1>1, QuietAccounts
<1>8. QED
  BY <1>1, <1>5, <1>6, <1>7, OneStep DEF OneOk

LEMMA OperatesSInv ==
  ASSUME OneAtATime, IInv, CInv, SInv, NEW p \in Request,
         Withdraw(p) \/ SetMinimums(p) \/ SetGlobalMinimum(p) \/ Update(p)
  PROVE  SInv'
<1>1. /\ IInv' /\ Operates(p) /\ request[p].kind # "receive"
      /\ \A b \in BatchId :
           request'[p].batches[b].remaining + UnitsOf(b, request'[p].moves)
             = request[p].batches[b].remaining
  <2>1. CASE Withdraw(p)
    BY <2>1, WithdrawRow DEF Withdrawal
  <2>2. CASE SetMinimums(p) \/ SetGlobalMinimum(p) \/ Update(p)
    <3>1. /\ IInv' /\ Operates(p) /\ request[p].kind # "receive"
          /\ request'[p].batches = request[p].batches
          /\ request'[p].moves = request[p].moves
      BY <2>2, SetMinimumsRow, SetGlobalMinimumRow, UpdateRow
    <3>2. request[p].moves = <<>>
      BY <3>1 DEF SInv, OneOk, NotYet, Operates
    <3>3. \A b \in BatchId : request[p].batches[b].remaining \in Nat
      BY RowOfRequest, ConstantTypes DEF Batch
    <3>4. QED
      BY <3>1, <3>2, <3>3, UnitsOfNone
  <2>3. QED
    BY <2>1, <2>2
<1>2. /\ OthersWait(p) /\ UNCHANGED tables /\ UNCHANGED books
      /\ request[p].step = "operate" /\ request'[p].step = "save"
      /\ request'[p].kind = request[p].kind /\ request'[p].loaded = request[p].loaded
  BY <1>1 DEF Operates
<1>3. stored' = stored /\ batches' = batches /\ OneOk(p) /\ RequestOk(p)
  BY <1>2 DEF tables, SInv, CInv
<1>4. request[p].loaded \subseteq stored
  BY <1>1, <1>3 DEF RequestOk, NewOk
<1>5. NotYet(p)' /\ Fresh(p)'
  BY <1>2 DEF NotYet, Fresh
<1>6. Balanced(p)'
  <2> SUFFICES ASSUME NEW b \in BatchId
               PROVE  /\ b \in request'[p].loaded \cap stored' =>
                           request'[p].batches[b].remaining + Out(p, b)' = batches'[b].remaining
                      /\ b \in request'[p].loaded \ stored' =>
                           request'[p].batches[b].remaining = request'[p].batches[b].received
                      /\ b \notin request'[p].loaded \cap stored' => Out(p, b)' = 0
    BY DEF Balanced
  <2>1. Out(p, b)' = UnitsOf(b, request'[p].moves)
    BY <1>1, <1>2 DEF Out, DirectionOf
  <2>2. request[p].batches[b].remaining
          = IF b \in request[p].loaded THEN batches[b].remaining ELSE 0
    BY <1>2, <1>3 DEF OneOk, Fresh
  <2>3. /\ request'[p].batches[b].remaining \in Nat
        /\ UnitsOf(b, request'[p].moves) \in Nat
    <3>1. request'[p] \in RequestRow
      BY <1>1 DEF Operates, RowOk
    <3>2. request'[p].batches \in [BatchId -> Batch] /\ request'[p].moves \in Seq(Move)
      BY <3>1 DEF RequestRow, Move
    <3>3. request'[p].batches[b].remaining \in Nat
      BY <3>2, ConstantTypes DEF Batch
    <3>4. QED
      BY <3>2, <3>3, UnitsType
  <2>4. request'[p].batches[b].remaining + UnitsOf(b, request'[p].moves)
          = request[p].batches[b].remaining
    BY <1>1
  <2>5. QED
    BY <1>2, <1>3, <1>4, <2>1, <2>2, <2>3, <2>4
<1>7. \A k \in BatchId \X Direction : Accounted(k)' = Accounted(k)
  BY <1>1, <1>2, QuietAccounts
<1>8. QED
  BY <1>2, <1>5, <1>6, <1>7, OneStep DEF OneOk

LEMMA SettlesSInv ==
  ASSUME OneAtATime, IInv, CInv, SInv, NEW p \in Request,
         RecordMovement(p) \/ MovementFails(p) \/ Dies(p)
  PROVE  SInv'
<1>1. IInv' /\ Settles(p)
  BY RecordMovementSettles, MovementFailsSettles, DiesSettles
<1>2. \A k \in BatchId \X Direction : Accounted(k)' = Accounted(k)
  BY <1>1, SettledAccounts
<1>3. OneOk(p)' /\ UNCHANGED tables
  BY <1>1 DEF Settles, OneOk, NotYet, Fresh, Balanced
<1>4. QED
  BY <1>2, <1>3, OneStep

LEMMA SaveCommitSInv ==
  ASSUME OneAtATime, IInv, CInv, SInv, NEW p \in Request, SaveCommit(p)
  PROVE  SInv'
<1>1. /\ IInv' /\ request[p].step = "commit"
      /\ request'[p].moves = request[p].moves
      /\ \/ request'[p].step = "publish"
         \/ request'[p].step = "idle" /\ request[p].moves = <<>>
      /\ stored' = stored \cup request[p].loaded
      /\ \A b \in BatchId :
           batches'[b] = IF b \in request[p].loaded THEN request[p].batches[b] ELSE batches[b]
  BY SaveCommitRow
<1>2. OneOk(p)'
  BY <1>1 DEF OneOk, NotYet, Fresh, Balanced
<1>3. OneOk(p) /\ RequestOk(p)
  BY DEF SInv, CInv
<1>4. ASSUME NEW b \in BatchId
      PROVE  IF b \in stored'
               THEN batches'[b].remaining + Accounted(<<b, "out">>)' = batches'[b].received
               ELSE Accounted(<<b, "out">>)' = 0
  <2> DEFINE k == <<b, "out">>
  <2>1. k \in BatchId \X Direction
    BY DEF Direction
  <2>2. /\ Accounted(k)' = Accounted(k)
             + (IF DirectionOf(request[p].kind) = "out" THEN UnitsOf(b, request[p].moves) ELSE 0)
        /\ UnitsOf(b, request[p].moves) \in Nat /\ Accounted(k) \in Nat
    BY <1>1, <2>1, CommittedAccounts
  <2>3. Accounted(k)' = Accounted(k) + Out(p, b) /\ Out(p, b) \in Nat /\ Accounted(k) \in Nat
    BY <2>2 DEF Out
  <2>4. IF b \in stored THEN batches[b].remaining + Accounted(k) = batches[b].received
        ELSE Accounted(k) = 0
    BY DEF SInv, Explained
  <2>5. /\ b \in request[p].loaded \cap stored =>
             request[p].batches[b].remaining + Out(p, b) = batches[b].remaining
        /\ b \in request[p].loaded \ stored =>
             request[p].batches[b].remaining = request[p].batches[b].received
        /\ b \notin request[p].loaded \cap stored => Out(p, b) = 0
    BY <1>1, <1>3 DEF OneOk, Balanced
  <2>6. /\ batches[b].remaining \in Nat /\ request[p].batches[b].remaining \in Nat
        /\ batches[b].received \in Nat /\ request[p].batches[b].received \in Nat
    BY RowOfRequest, ConstantTypes DEF IInv, TypeOK, Batch
  <2>7. b \in request[p].loaded \cap stored
          => request[p].batches[b].received = batches[b].received
    BY <1>3 DEF RequestOk, CopyOk, SameBatch
  <2>8. /\ b \in stored' <=> b \in stored \/ b \in request[p].loaded
        /\ batches'[b] = IF b \in request[p].loaded THEN request[p].batches[b] ELSE batches[b]
    BY <1>1
  <2> HIDE DEF k
  <2>9. CASE b \in request[p].loaded \cap stored
    BY <2>3, <2>4, <2>5, <2>6, <2>7, <2>8, <2>9 DEF k
  <2>10. CASE b \in request[p].loaded \ stored
    BY <2>3, <2>4, <2>5, <2>6, <2>8, <2>10 DEF k
  <2>11. CASE b \notin request[p].loaded
    BY <2>3, <2>4, <2>5, <2>6, <2>8, <2>11 DEF k
  <2>12. QED
    BY <2>9, <2>10, <2>11
<1>5. Explained'
  BY <1>4 DEF Explained
<1>6. QED
  BY <1>2, <1>5 DEF OneAtATime, SInv

LEMMA NextSInv ==
  ASSUME OneAtATime, IInv, CInv, SInv, [Next]_vars
  PROVE  SInv'
<1>1. CASE UNCHANGED vars
  <2>1. /\ request' = request /\ stored' = stored /\ batches' = batches
        /\ ledger' = ledger /\ logged' = logged /\ lost' = lost
    BY <1>1 DEF vars, tables, books
  <2>2. \A p \in Request : OneOk(p)'
    BY <2>1 DEF SInv, OneOk, NotYet, Fresh, Balanced, Out
  <2>3. Explained'
    BY <2>1 DEF SInv, Explained, Accounted, Unsettled, At
  <2>4. QED
    BY <2>2, <2>3 DEF SInv
<1>2. CASE Next
  <2>1. PICK p \in Request :
          \/ Begin(p) \/ LoadBatches(p) \/ LoadOverrides(p)
          \/ Receive(p) \/ Withdraw(p)
          \/ SetMinimums(p) \/ SetGlobalMinimum(p) \/ Update(p)
          \/ SaveSelect(p) \/ SaveCommit(p)
          \/ RecordMovement(p) \/ MovementFails(p)
          \/ Fails(p) \/ Dies(p)
    BY <1>2 DEF Next
  <2>2. QED
    BY <2>1, WaitingSInv, ReceiveSInv, OperatesSInv, SaveCommitSInv, SettlesSInv
<1>3. QED
  BY <1>1, <1>2

\* One request at a time, what is left in a batch is what its movements say,
\* wherever they ended up: what was received less what left.
THEOREM StockIsExplained ==
  ASSUME OneAtATime
  PROVE  Spec => []StockExplained
<1>1. Init => IInv /\ CInv /\ SInv
  BY InitIInv, InitCInv, InitSInv
<1>2. IInv /\ CInv /\ SInv /\ [Next]_vars => (IInv /\ CInv /\ SInv)'
  BY NextIInv, NextCInv, NextSInv
<1>3. IInv /\ CInv /\ SInv => StockExplained
  <2> SUFFICES ASSUME IInv, CInv, SInv, NEW b \in stored
               PROVE  batches[b].remaining + Accounted(<<b, "out">>)
                        = Accounted(<<b, "in">>)
    BY DEF StockExplained
  <2>1. b \in BatchId
    BY StoredAreIds
  <2>2. QED
    BY <2>1 DEF SInv, Explained, CInv, EntriesAreAccounted
<1>4. QED
  BY <1>1, <1>2, <1>3, PTL DEF Spec

\* Until it operates, the request has read the item as its row is.
ItemRead(p) ==
  request[p].step \in {"batches", "overrides", "operate"}
    => request[p].item.isPerishable = item.isPerishable

\* An update has loaded whatever has stock.
StockLoaded(p) ==
  request[p].kind = "update" /\ request[p].step \in {"overrides", "operate"}
    => \A b \in stored : batches[b].remaining > 0 => b \in request[p].loaded

\* What a save changes of the item, it changes when there is no stock.
ItemKept(p) ==
  request[p].step \in {"save", "commit"}
    => \/ request[p].item.isPerishable = item.isPerishable
       \/ request[p].loaded = {} /\ \A b \in stored : ~(batches[b].remaining > 0)

\* The comparison that precedes the write is with the row as it is.
RowSeen(p) == request[p].step = "commit" => request[p].seen.isPerishable = item.isPerishable

\* A batch to be stored has an expiry if the item is perishable.
NewExpiryOk(p) ==
  request[p].step \in {"save", "commit"}
    => \A b \in request[p].loaded \ stored :
         request[p].batches[b].expiry # NoExpiry <=> request[p].item.isPerishable

ExpiryOk(p) ==
  ItemRead(p) /\ StockLoaded(p) /\ ItemKept(p) /\ RowSeen(p) /\ NewExpiryOk(p)

EInv == (\A p \in Request : ExpiryOk(p)) /\ ExpiryMatchesItem

LEMMA InitEInv == Init => EInv
<1> SUFFICES ASSUME Init PROVE EInv
  OBVIOUS
<1>1. stored = {} /\ \A p \in Request : request[p].step = "idle"
  BY DEF Init, Idle
<1>2. ASSUME NEW p \in Request PROVE ExpiryOk(p)
  BY <1>1 DEF ExpiryOk, ItemRead, StockLoaded, ItemKept, RowSeen, NewExpiryOk
<1>3. ExpiryMatchesItem
  BY <1>1 DEF ExpiryMatchesItem
<1>4. QED
  BY <1>2, <1>3 DEF EInv

\* With one request and the tables as they were, what is left to show is about it.
LEMMA OneExpiry ==
  ASSUME OneAtATime, EInv, NEW p \in Request, UNCHANGED tables, ExpiryOk(p)'
  PROVE  EInv'
<1>1. \A q \in Request : q = p
  BY DEF OneAtATime
<1>2. ExpiryMatchesItem'
  BY DEF EInv, ExpiryMatchesItem, tables
<1>3. QED
  BY <1>1, <1>2 DEF EInv

LEMMA WaitingEInv ==
  ASSUME OneAtATime, IInv, CInv, EInv, NEW p \in Request,
         \/ Begin(p) \/ LoadBatches(p) \/ LoadOverrides(p) \/ SaveSelect(p) \/ Fails(p)
  PROVE  EInv'
<1>1. ExpiryOk(p)
  BY DEF EInv
<1>2. CASE Begin(p)
  <2>1. request'[p].step = "batches" /\ request'[p].item = item /\ UNCHANGED tables
    BY <1>2, BeginRow
  <2>2. ExpiryOk(p)'
    BY <2>1 DEF tables, ExpiryOk, ItemRead, StockLoaded, ItemKept, RowSeen, NewExpiryOk
  <2>3. QED
    BY <2>1, <2>2, OneExpiry
<1>3. CASE LoadBatches(p)
  <2>1. /\ request[p].step = "batches" /\ request'[p].step = "overrides"
        /\ request'[p].kind = request[p].kind /\ request'[p].item = request[p].item
        /\ request'[p].loaded = {b \in stored : Loads(request[p], b)}
        /\ UNCHANGED tables
    BY <1>3, LoadBatchesRow
  <2>2. StockLoaded(p)'
    BY <2>1 DEF StockLoaded, tables, Loads, LoadsOneBranch
  <2>3. ItemRead(p)' /\ ItemKept(p)' /\ RowSeen(p)' /\ NewExpiryOk(p)'
    BY <1>1, <2>1 DEF tables, ExpiryOk, ItemRead, ItemKept, RowSeen, NewExpiryOk
  <2>4. QED
    BY <2>1, <2>2, <2>3, OneExpiry DEF ExpiryOk
<1>4. CASE LoadOverrides(p)
  <2>1. /\ request[p].step = "overrides" /\ request'[p].step = "operate"
        /\ request'[p].kind = request[p].kind /\ request'[p].item = request[p].item
        /\ request'[p].loaded = request[p].loaded /\ UNCHANGED tables
    BY <1>4, LoadOverridesRow
  <2>2. ExpiryOk(p)'
    BY <1>1, <2>1 DEF tables, ExpiryOk, ItemRead, StockLoaded, ItemKept, RowSeen, NewExpiryOk
  <2>3. QED
    BY <2>1, <2>2, OneExpiry
<1>5. CASE SaveSelect(p)
  <2>1. /\ request[p].step = "save" /\ request'[p].step = "commit"
        /\ request'[p].item = request[p].item /\ request'[p].seen = item
        /\ request'[p].loaded = request[p].loaded
        /\ request'[p].batches = request[p].batches /\ UNCHANGED tables
    BY <1>5, SaveSelectRow
  <2>2. ItemRead(p)' /\ StockLoaded(p)' /\ ItemKept(p)' /\ RowSeen(p)'
    BY <1>1, <2>1 DEF tables, ExpiryOk, ItemRead, StockLoaded, ItemKept, RowSeen
  <2>3. NewExpiryOk(p)'
    BY <1>1, <2>1 DEF tables, ExpiryOk, NewExpiryOk
  <2>4. QED
    BY <2>1, <2>2, <2>3, OneExpiry DEF ExpiryOk
<1>6. CASE Fails(p)
  <2>1. request'[p].step = "idle" /\ UNCHANGED tables
    BY <1>6, FailsRow
  <2>2. ExpiryOk(p)'
    BY <2>1 DEF ExpiryOk, ItemRead, StockLoaded, ItemKept, RowSeen, NewExpiryOk
  <2>3. QED
    BY <2>1, <2>2, OneExpiry
<1>7. QED
  BY <1>2, <1>3, <1>4, <1>5, <1>6

LEMMA OperatesEInv ==
  ASSUME OneAtATime, IInv, CInv, EInv, NEW p \in Request,
         \/ Receive(p) \/ Withdraw(p) \/ SetMinimums(p) \/ SetGlobalMinimum(p) \/ Update(p)
  PROVE  EInv'
<1>1. ExpiryOk(p) /\ RequestOk(p)
  BY DEF EInv, CInv
<1>2. CASE Receive(p)
  <2>1. /\ request[p].step = "operate" /\ request'[p].step = "save"
        /\ request'[p].item = request[p].item
        /\ request'[p].loaded = request[p].loaded \cup {created'}
        /\ (request'[p].batches[created'].expiry # NoExpiry
              <=> request[p].item.isPerishable)
        /\ UNCHANGED tables
    BY <1>2, ReceiveRow
  <2>2. request[p].loaded \subseteq stored
    BY <1>1, <2>1 DEF RequestOk, NewOk
  <2>3. NewExpiryOk(p)'
    BY <2>1, <2>2 DEF NewExpiryOk, tables
  <2>4. ItemRead(p)' /\ StockLoaded(p)' /\ ItemKept(p)' /\ RowSeen(p)'
    BY <1>1, <2>1 DEF tables, ExpiryOk, ItemRead, StockLoaded, ItemKept, RowSeen
  <2>5. QED
    BY <2>1, <2>3, <2>4, OneExpiry DEF ExpiryOk
<1>3. CASE Withdraw(p) \/ SetMinimums(p) \/ SetGlobalMinimum(p) \/ Update(p)
  <2>1. /\ Operates(p) /\ request[p].kind # "receive"
        /\ \/ request'[p].item.isPerishable = request[p].item.isPerishable
           \/ request[p].kind = "update" /\ request[p].loaded = {}
    BY <1>3, WithdrawRow, SetMinimumsRow, SetGlobalMinimumRow, UpdateRow DEF Withdrawal
  <2>2. /\ request[p].step = "operate" /\ request'[p].step = "save"
        /\ request'[p].loaded = request[p].loaded /\ UNCHANGED tables
    BY <2>1 DEF Operates
  <2>3. request[p].loaded \subseteq stored
    BY <1>1, <2>1 DEF RequestOk, NewOk
  <2>4. NewExpiryOk(p)'
    BY <2>2, <2>3 DEF NewExpiryOk, tables
  <2>5. ItemKept(p)'
    BY <1>1, <2>1, <2>2 DEF tables, ExpiryOk, ItemRead, StockLoaded, ItemKept
  <2>6. ItemRead(p)' /\ StockLoaded(p)' /\ RowSeen(p)'
    BY <2>2 DEF ItemRead, StockLoaded, RowSeen
  <2>7. QED
    BY <2>2, <2>4, <2>5, <2>6, OneExpiry DEF ExpiryOk
<1>4. QED
  BY <1>2, <1>3

LEMMA SettlesEInv ==
  ASSUME OneAtATime, IInv, CInv, EInv, NEW p \in Request,
         RecordMovement(p) \/ MovementFails(p) \/ Dies(p)
  PROVE  EInv'
<1>1. request'[p].step \in {"publish", "idle"} /\ UNCHANGED tables
  BY RecordMovementSettles, MovementFailsSettles, DiesSettles DEF Settles
<1>2. ExpiryOk(p)'
  BY <1>1 DEF ExpiryOk, ItemRead, StockLoaded, ItemKept, RowSeen, NewExpiryOk
<1>3. QED
  BY <1>1, <1>2, OneExpiry

LEMMA SaveCommitEInv ==
  ASSUME OneAtATime, IInv, CInv, SInv, EInv, NEW p \in Request, SaveCommit(p)
  PROVE  EInv'
<1>1. /\ request[p].step = "commit" /\ request'[p].step \in {"publish", "idle"}
      /\ stored' = stored \cup request[p].loaded
      /\ \A b \in BatchId :
           batches'[b] = IF b \in request[p].loaded THEN request[p].batches[b] ELSE batches[b]
      /\ item'.isPerishable = IF request[p].item.isPerishable # request[p].seen.isPerishable
                                THEN request[p].item.isPerishable ELSE item.isPerishable
  BY SaveCommitRow
<1>2. ExpiryOk(p) /\ OneOk(p) /\ RequestOk(p) /\ ExpiryMatchesItem
  BY DEF EInv, SInv, CInv
<1>3. ExpiryOk(p)'
  BY <1>1 DEF ExpiryOk, ItemRead, StockLoaded, ItemKept, RowSeen, NewExpiryOk
<1>4. item'.isPerishable = request[p].item.isPerishable
  BY <1>1, <1>2 DEF ExpiryOk, RowSeen
<1>5. ASSUME NEW b \in stored', batches'[b].remaining > 0
      PROVE  batches'[b].expiry # NoExpiry <=> item'.isPerishable
  <2>1. b \in BatchId
    BY <1>1, StoredAreIds, RowOfRequest
  <2>2. CASE b \in request[p].loaded \ stored
    BY <1>1, <1>2, <1>4, <2>1, <2>2 DEF ExpiryOk, NewExpiryOk
  <2>3. CASE b \in request[p].loaded \cap stored
    <3>1. batches'[b] = request[p].batches[b] /\ request[p].batches[b].expiry = batches[b].expiry
      BY <1>1, <1>2, <2>1, <2>3 DEF RequestOk, CopyOk, SameBatch
    <3>2. request[p].batches[b].remaining + Out(p, b) = batches[b].remaining
      BY <1>1, <1>2, <2>1, <2>3 DEF OneOk, Balanced
    <3>3. /\ Out(p, b) \in Nat /\ request[p].batches[b].remaining \in Nat
      <4>1. request[p] \in RequestRow
        BY DEF IInv, TypeOK
      <4>2. request[p].moves \in Seq(Move) /\ request[p].batches \in [BatchId -> Batch]
        BY <4>1 DEF RequestRow, Move
      <4>3. UnitsOf(b, request[p].moves) \in Nat
        BY <4>2, UnitsType
      <4>4. QED
        BY <2>1, <4>2, <4>3, ConstantTypes DEF Out, Batch
    <3>4. batches[b].remaining > 0
      BY <1>5, <3>1, <3>2, <3>3
    <3>5. request[p].item.isPerishable = item.isPerishable
      BY <1>1, <1>2, <2>3 DEF ExpiryOk, ItemKept
    <3>6. batches[b].expiry # NoExpiry <=> item.isPerishable
      BY <1>2, <2>3, <3>4 DEF ExpiryMatchesItem
    <3>7. QED
      BY <1>4, <3>1, <3>5, <3>6
  <2>4. CASE b \notin request[p].loaded
    <3>1. b \in stored /\ batches'[b] = batches[b]
      BY <1>1, <2>1, <2>4
    <3>2. request[p].item.isPerishable = item.isPerishable
      BY <1>1, <1>2, <1>5, <3>1 DEF ExpiryOk, ItemKept
    <3>3. batches[b].expiry # NoExpiry <=> item.isPerishable
      BY <1>2, <1>5, <3>1 DEF ExpiryMatchesItem
    <3>4. QED
      BY <1>4, <3>1, <3>2, <3>3
  <2>5. QED
    BY <2>2, <2>3, <2>4
<1>6. ExpiryMatchesItem'
  BY <1>5 DEF ExpiryMatchesItem
<1>7. \A q \in Request : q = p
  BY DEF OneAtATime
<1>8. QED
  BY <1>3, <1>6, <1>7 DEF EInv

LEMMA NextEInv ==
  ASSUME OneAtATime, IInv, CInv, SInv, EInv, [Next]_vars
  PROVE  EInv'
<1>1. CASE UNCHANGED vars
  <2>1. request' = request /\ stored' = stored /\ batches' = batches /\ item' = item
    BY <1>1 DEF vars, tables
  <2>2. \A p \in Request : ExpiryOk(p)'
    BY <2>1 DEF EInv, ExpiryOk, ItemRead, StockLoaded, ItemKept, RowSeen, NewExpiryOk
  <2>3. ExpiryMatchesItem'
    BY <2>1 DEF EInv, ExpiryMatchesItem
  <2>4. QED
    BY <2>2, <2>3 DEF EInv
<1>2. CASE Next
  <2>1. PICK p \in Request :
          \/ Begin(p) \/ LoadBatches(p) \/ LoadOverrides(p)
          \/ Receive(p) \/ Withdraw(p)
          \/ SetMinimums(p) \/ SetGlobalMinimum(p) \/ Update(p)
          \/ SaveSelect(p) \/ SaveCommit(p)
          \/ RecordMovement(p) \/ MovementFails(p)
          \/ Fails(p) \/ Dies(p)
    BY <1>2 DEF Next
  <2>2. QED
    BY <2>1, WaitingEInv, OperatesEInv, SaveCommitEInv, SettlesEInv
<1>3. QED
  BY <1>1, <1>2

\* One request at a time, the item and its stock agree on whether it expires.
\* (InventoryItem.update tests the batches it loaded, and findById loads those
\* with stock: only without any can the answer change.)
THEOREM ExpiryAgrees ==
  ASSUME OneAtATime
  PROVE  Spec => []ExpiryMatchesItem
<1>1. Init => IInv /\ CInv /\ SInv /\ EInv
  BY InitIInv, InitCInv, InitSInv, InitEInv
<1>2. IInv /\ CInv /\ SInv /\ EInv /\ [Next]_vars => (IInv /\ CInv /\ SInv /\ EInv)'
  BY NextIInv, NextCInv, NextSInv, NextEInv
<1>3. IInv /\ CInv /\ SInv /\ EInv => ExpiryMatchesItem
  BY DEF EInv
<1>4. QED
  BY <1>1, <1>2, <1>3, PTL DEF Spec

-----------------------------------------------------------------------------
(***************************************************************************)
(* One request at a time, loading, operating and saving implement the      *)
(* stock book.                                                             *)
(***************************************************************************)

Moving == Withdrawal \cup {"receive"}

\* A request that moves stock names a branch.
Placed(p) ==
  request[p].kind \in Moving
    /\ request[p].step \in {"batches", "overrides", "operate", "save", "commit"}
    => request[p].branch \in Branch

\* A withdrawal has loaded whatever its branch has.
StockSeen(p) ==
  request[p].kind \in Withdrawal /\ request[p].step \in {"overrides", "operate"}
    => \A b \in stored :
         batches[b].remaining > 0 /\ batches[b].branch = request[p].branch
           => b \in request[p].loaded

\* The other requests take nothing.
Quiet(p) ==
  request[p].kind \notin Moving /\ request[p].step \in {"save", "commit"}
    => request[p].moves = <<>>

NewShelved(p) ==
  request[p].step \in {"save", "commit"}
    => \A b \in request[p].loaded \ stored :
         /\ request[p].batches[b].remaining > 0
         /\ request[p].batches[b].branch \in Branch

\* Batch b is one from which the withdrawal of request p can take.
Usable(p, b) ==
  /\ batches[b].branch = request[p].branch
  /\ batches[b].remaining > 0
  /\ request[p].day <= batches[b].expiry

\* It takes from those alone, and empties those that expire earlier.
FirstOut(p) ==
  request[p].kind \in Withdrawal /\ request[p].step \in {"save", "commit"}
    => \A b \in stored : Out(p, b) # 0 =>
         /\ Usable(p, b)
         /\ \A c \in stored : Usable(p, c) /\ batches[c].expiry < batches[b].expiry
              => Out(p, c) = batches[c].remaining

ShelfOk(p) == Placed(p) /\ StockSeen(p) /\ Quiet(p) /\ NewShelved(p) /\ FirstOut(p)

BInv == \A p \in Request : ShelfOk(p)

\* With one request, what is left to show is about it.
LEMMA OneShelf ==
  ASSUME OneAtATime, NEW p \in Request, ShelfOk(p)'
  PROVE  BInv'
BY DEF OneAtATime, BInv

LEMMA InitBInv == Init => BInv
<1> SUFFICES ASSUME Init, NEW p \in Request PROVE ShelfOk(p)
  BY DEF BInv
<1>1. request[p].step = "idle"
  BY DEF Init, Idle
<1>2. QED
  BY <1>1 DEF ShelfOk, Placed, StockSeen, Quiet, NewShelved, FirstOut

LEMMA WaitingBInv ==
  ASSUME OneAtATime, IInv, CInv, SInv, BInv, NEW p \in Request,
         \/ Begin(p) \/ LoadBatches(p) \/ LoadOverrides(p) \/ SaveSelect(p) \/ Fails(p)
  PROVE  BInv'
<1>1. ShelfOk(p)
  BY DEF BInv
<1>2. CASE Begin(p)
  <2>1. request'[p].step = "batches" /\ request'[p].branch \in BranchesOf(request'[p].kind)
    BY <1>2, BeginRow
  <2>2. ShelfOk(p)'
    BY <2>1
    DEF Moving, BranchesOf, ShelfOk, Placed, StockSeen, Quiet, NewShelved, FirstOut
  <2>3. QED
    BY <2>2, OneShelf
<1>3. CASE LoadBatches(p)
  <2>1. /\ request[p].step = "batches" /\ request'[p].step = "overrides"
        /\ request'[p].kind = request[p].kind /\ request'[p].branch = request[p].branch
        /\ request'[p].loaded = {b \in stored : Loads(request[p], b)}
        /\ UNCHANGED tables
    BY <1>3, LoadBatchesRow
  <2>2. StockSeen(p)'
    BY <2>1 DEF StockSeen, tables, Loads
  <2>3. Placed(p)' /\ Quiet(p)' /\ NewShelved(p)' /\ FirstOut(p)'
    BY <1>1, <2>1 DEF ShelfOk, Placed, Quiet, NewShelved, FirstOut
  <2>4. QED
    BY <2>2, <2>3, OneShelf DEF ShelfOk
<1>4. CASE LoadOverrides(p)
  <2>1. /\ request[p].step = "overrides" /\ request'[p].step = "operate"
        /\ request'[p].kind = request[p].kind /\ request'[p].branch = request[p].branch
        /\ request'[p].loaded = request[p].loaded /\ UNCHANGED tables
    BY <1>4, LoadOverridesRow
  <2>2. ShelfOk(p)'
    BY <1>1, <2>1
    DEF tables, ShelfOk, Placed, StockSeen, Quiet, NewShelved, FirstOut
  <2>3. QED
    BY <2>2, OneShelf
<1>5. CASE SaveSelect(p)
  <2>1. /\ request[p].step = "save" /\ request'[p].step = "commit"
        /\ request'[p].kind = request[p].kind /\ request'[p].branch = request[p].branch
        /\ request'[p].loaded = request[p].loaded
        /\ request'[p].batches = request[p].batches
        /\ request'[p].moves = request[p].moves /\ request'[p].day = request[p].day
        /\ stored' = stored /\ batches' = batches
    BY <1>5, SaveSelectRow DEF tables
  <2>2. Placed(p)' /\ StockSeen(p)' /\ Quiet(p)'
    BY <1>1, <2>1 DEF ShelfOk, Placed, StockSeen, Quiet
  <2>3. NewShelved(p)'
    BY <1>1, <2>1 DEF ShelfOk, NewShelved
  <2>4. FirstOut(p)'
    <3>1. \A b \in stored : Out(p, b)' = Out(p, b) /\ (Usable(p, b)' <=> Usable(p, b))
      BY <2>1 DEF Out, Usable
    <3>2. QED
      BY <1>1, <2>1, <3>1 DEF ShelfOk, FirstOut
  <2>5. QED
    BY <2>2, <2>3, <2>4, OneShelf DEF ShelfOk
<1>6. CASE Fails(p)
  <2>1. request'[p].step = "idle"
    BY <1>6, FailsRow
  <2>2. ShelfOk(p)'
    BY <2>1 DEF ShelfOk, Placed, StockSeen, Quiet, NewShelved, FirstOut
  <2>3. QED
    BY <2>2, OneShelf
<1>7. QED
  BY <1>2, <1>3, <1>4, <1>5, <1>6

LEMMA ReceiveBInv ==
  ASSUME OneAtATime, IInv, CInv, BInv, NEW p \in Request, Receive(p)
  PROVE  BInv'
<1>1. /\ request[p].step = "operate" /\ request'[p].step = "save"
      /\ request[p].kind = "receive" /\ request'[p].kind = "receive"
      /\ request'[p].branch = request[p].branch
      /\ request'[p].batches[created'].branch = request[p].branch
      /\ request'[p].batches[created'].remaining > 0
      /\ request'[p].loaded = request[p].loaded \cup {created'}
      /\ stored' = stored
  BY ReceiveRow DEF tables
<1>2. ShelfOk(p) /\ RequestOk(p)
  BY DEF BInv, CInv
<1>3. request[p].branch \in Branch
  BY <1>1, <1>2 DEF ShelfOk, Placed, Moving
<1>4. request[p].loaded \subseteq stored
  BY <1>1, <1>2 DEF RequestOk, NewOk
<1>5. NewShelved(p)'
  BY <1>1, <1>3, <1>4 DEF NewShelved
<1>6. Placed(p)' /\ StockSeen(p)' /\ Quiet(p)' /\ FirstOut(p)'
  BY <1>1, <1>3 DEF Placed, StockSeen, Quiet, FirstOut, Moving, Withdrawal
<1>7. QED
  BY <1>5, <1>6, OneShelf DEF ShelfOk

\* A withdrawal decides on copies that are what the rows are.
LEMMA WithdrawBInv ==
  ASSUME OneAtATime, IInv, CInv, SInv, EInv, BInv, NEW p \in Request, Withdraw(p)
  PROVE  BInv'
<1> DEFINE day == request'[p].day
           rows == request[p].batches
           S == ActiveIn(request[p], day)
<1>1. /\ Operates(p) /\ request[p].kind \in Withdrawal /\ day \in Day
      /\ \E q \in Nat : \E order \in SortedByFefo(S, rows) :
           request'[p].moves = MovesOf(order, Takes(order, rows, q))
  BY WithdrawRow
<1>2. /\ request[p].step = "operate" /\ request'[p].step = "save"
      /\ request'[p].kind = request[p].kind /\ request'[p].branch = request[p].branch
      /\ request'[p].loaded = request[p].loaded
      /\ stored' = stored /\ batches' = batches
  BY <1>1 DEF Operates, tables
<1>3. ShelfOk(p) /\ RequestOk(p) /\ OneOk(p) /\ ExpiryMatchesItem
  BY DEF BInv, CInv, SInv, EInv
<1>4. PICK q \in Nat, order \in SortedByFefo(S, rows) :
        request'[p].moves = MovesOf(order, Takes(order, rows, q))
  BY <1>1
<1>5. request[p].loaded \subseteq stored
  <2>1. request[p].kind # "receive"
    BY <1>1 DEF Withdrawal
  <2>2. QED
    BY <1>3, <2>1 DEF RequestOk, NewOk
<1>6. /\ S \in SUBSET BatchId /\ S \subseteq request[p].loaded
      /\ \A b \in S : rows[b].branch = request[p].branch /\ IsActive(rows[b], day)
  BY RowOfRequest, StockType DEF ActiveIn
<1>7. ASSUME NEW b \in request[p].loaded
      PROVE  /\ rows[b].remaining = batches[b].remaining
             /\ rows[b].branch = batches[b].branch /\ rows[b].expiry = batches[b].expiry
             /\ b \in BatchId /\ b \in stored
  <2>1. b \in BatchId /\ b \in stored
    BY <1>5, RowOfRequest
  <2>2. QED
    BY <1>2, <1>3, <2>1 DEF OneOk, Fresh, RequestOk, CopyOk, SameBatch
<1>8. ASSUME NEW b \in BatchId
      PROVE  /\ batches[b].expiry \in 0 .. NoExpiry /\ batches[b].expiry \in Nat
             /\ batches[b].remaining \in Quantity /\ batches[b].remaining \in Nat
  <2>1. batches[b].expiry \in Day \cup {NoExpiry} /\ batches[b].remaining \in Quantity
    BY DEF IInv, TypeOK, Batch
  <2>2. QED
    BY <2>1, InventoryBounds DEF Day, NoExpiry, Quantity
<1>9. day \in Nat
  BY <1>1, InventoryBounds DEF Day
<1>10. ASSUME NEW b \in stored
       PROVE  Usable(p, b)' <=> b \in S
  <2>1. b \in BatchId
    BY StoredAreIds
  <2>2. b \in S <=> /\ b \in request[p].loaded
                    /\ rows[b].branch = request[p].branch
                    /\ rows[b].remaining > 0 /\ ~(rows[b].expiry < day)
    BY DEF ActiveIn, IsActive, IsExpired
  <2>3. Usable(p, b)' <=> /\ batches[b].branch = request[p].branch
                          /\ batches[b].remaining > 0 /\ day <= batches[b].expiry
    BY <1>2 DEF Usable
  <2>4. batches[b].branch = request[p].branch /\ batches[b].remaining > 0
          => b \in request[p].loaded
    BY <1>1, <1>2, <1>3 DEF ShelfOk, StockSeen
  <2> HIDE DEF S, rows, day
  <2>5. QED
    BY <1>7, <1>8, <1>9, <2>1, <2>2, <2>3, <2>4
<1>11. \A b \in BatchId : Out(p, b)' = UnitsOf(b, request'[p].moves)
  BY <1>1, <1>2 DEF Out, DirectionOf, Withdrawal
<1>12. /\ \A b \in S : rows[b].remaining \in Quantity /\ rows[b].expiry \in 0 .. NoExpiry
       /\ \A b \in S : rows[b].remaining > 0
  BY <1>6, <1>7, <1>8 DEF IsActive
<1>13. \/ \A b \in S : rows[b].expiry # NoExpiry
       \/ \A b \in S : rows[b].expiry = NoExpiry
  <2>1. \A b \in S : rows[b].expiry # NoExpiry <=> item.isPerishable
    BY <1>3, <1>6, <1>7, <1>12 DEF ExpiryMatchesItem
  <2>2. QED
    BY <2>1
<1> HIDE DEF S, rows, day
<1>14. \A b \in BatchId \ S : UnitsOf(b, request'[p].moves) = 0
  <2>1. \A b \in S : rows[b].remaining \in Quantity
    BY <1>12
  <2>2. QED
    BY <1>4, <1>6, <2>1, WithdrawalFits
<1>15. ASSUME NEW b \in S, UnitsOf(b, request'[p].moves) # 0,
              NEW c \in S, rows[c].expiry < rows[b].expiry
       PROVE  UnitsOf(c, request'[p].moves) = rows[c].remaining
  BY <1>4, <1>6, <1>12, <1>13, <1>15, FirstExpiredFirst
<1>16. FirstOut(p)'
  <2> SUFFICES ASSUME NEW b \in stored, Out(p, b)' # 0
               PROVE  /\ Usable(p, b)'
                      /\ \A c \in stored : Usable(p, c)' /\ batches[c].expiry < batches[b].expiry
                           => Out(p, c)' = batches[c].remaining
    BY <1>2 DEF FirstOut
  <2>1. b \in BatchId
    BY StoredAreIds
  <2>2. UnitsOf(b, request'[p].moves) # 0
    BY <1>11, <2>1
  <2>3. b \in S
    BY <1>14, <2>1, <2>2
  <2>4. ASSUME NEW c \in stored, Usable(p, c)', batches[c].expiry < batches[b].expiry
        PROVE  Out(p, c)' = batches[c].remaining
    <3>1. c \in S /\ c \in BatchId
      BY <1>6, <1>10, <2>4
    <3>2. /\ rows[c].expiry = batches[c].expiry /\ rows[c].remaining = batches[c].remaining
          /\ rows[b].expiry = batches[b].expiry
      BY <1>6, <1>7, <2>3, <3>1
    <3>3. UnitsOf(c, request'[p].moves) = rows[c].remaining
      BY <1>15, <2>2, <2>3, <2>4, <3>1, <3>2
    <3>4. QED
      BY <1>11, <3>1, <3>2, <3>3
  <2>5. QED
    BY <1>10, <2>3, <2>4
<1>17. Placed(p)' /\ StockSeen(p)' /\ Quiet(p)'
  BY <1>1, <1>2, <1>3 DEF ShelfOk, Placed, StockSeen, Quiet, Moving
<1>18. NewShelved(p)'
  BY <1>2, <1>5 DEF NewShelved
<1>19. QED
  BY <1>16, <1>17, <1>18, OneShelf DEF ShelfOk

LEMMA OthersBInv ==
  ASSUME OneAtATime, IInv, CInv, SInv, BInv, NEW p \in Request,
         SetMinimums(p) \/ SetGlobalMinimum(p) \/ Update(p)
  PROVE  BInv'
<1>1. /\ Operates(p) /\ request'[p].moves = request[p].moves
      /\ request[p].kind \in {"minimums", "global", "update"}
  BY SetMinimumsRow, SetGlobalMinimumRow, UpdateRow
<1>2. /\ request[p].step = "operate" /\ request'[p].step = "save"
      /\ request'[p].kind = request[p].kind /\ request'[p].loaded = request[p].loaded
      /\ stored' = stored
  BY <1>1 DEF Operates, tables
<1>3. request[p].moves = <<>> /\ request[p].loaded \subseteq stored
  BY <1>1, <1>2 DEF SInv, OneOk, NotYet, CInv, RequestOk, NewOk
<1>4. request'[p].kind \notin Moving /\ request'[p].kind \notin Withdrawal
  BY <1>1, <1>2 DEF Moving, Withdrawal
<1>5. ShelfOk(p)'
  BY <1>1, <1>2, <1>3, <1>4
  DEF ShelfOk, Placed, StockSeen, Quiet, NewShelved, FirstOut
<1>6. QED
  BY <1>5, OneShelf

LEMMA AfterwardsBInv ==
  ASSUME OneAtATime, IInv, CInv, BInv, NEW p \in Request,
         SaveCommit(p) \/ RecordMovement(p) \/ MovementFails(p) \/ Dies(p)
  PROVE  BInv'
<1>1. request'[p].step \in {"publish", "idle"}
  BY SaveCommitRow, RecordMovementSettles, MovementFailsSettles, DiesSettles DEF Settles
<1>2. ShelfOk(p)'
  BY <1>1 DEF ShelfOk, Placed, StockSeen, Quiet, NewShelved, FirstOut
<1>3. QED
  BY <1>2, OneShelf

LEMMA NextBInv ==
  ASSUME OneAtATime, IInv, CInv, SInv, EInv, BInv, [Next]_vars
  PROVE  BInv'
<1>1. CASE UNCHANGED vars
  <2>1. request' = request /\ stored' = stored /\ batches' = batches
    BY <1>1 DEF vars, tables
  <2>2. QED
    BY <2>1
    DEF BInv, ShelfOk, Placed, StockSeen, Quiet, NewShelved, FirstOut, Out, Usable
<1>2. CASE Next
  <2>1. PICK p \in Request :
          \/ Begin(p) \/ LoadBatches(p) \/ LoadOverrides(p)
          \/ Receive(p) \/ Withdraw(p)
          \/ SetMinimums(p) \/ SetGlobalMinimum(p) \/ Update(p)
          \/ SaveSelect(p) \/ SaveCommit(p)
          \/ RecordMovement(p) \/ MovementFails(p)
          \/ Fails(p) \/ Dies(p)
    BY <1>2 DEF Next
  <2>2. QED
    BY <2>1, WaitingBInv, ReceiveBInv, WithdrawBInv, OthersBInv, AfterwardsBInv
<1>3. QED
  BY <1>1, <1>2

Shelf == [b \in stored |-> batches[b].branch]
Expiry == [b \in stored |-> batches[b].expiry]
OnHand == [b \in stored |-> batches[b].remaining]

\* Without another request, the date of the withdrawal is that of the only one.
LEMMA TheDate ==
  ASSUME OneAtATime, IInv, NEW p \in Request
  PROVE  AsOf = request[p].day /\ AsOf \in Day /\ AsOf \in Nat
<1>1. request[p].day \in Day /\ request[p].day \in Nat
  <2>1. request[p] \in RequestRow
    BY DEF IInv, TypeOK
  <2>2. QED
    BY <2>1, InventoryBounds DEF RequestRow, Day
<1>2. {request[q].day : q \in Request} = {request[p].day}
  BY DEF OneAtATime
<1>3. Max({request[p].day}) = request[p].day
  BY <1>1 DEF Max
<1>4. QED
  BY <1>1, <1>2, <1>3 DEF AsOf

\* With the shelves as they were, at most the date is another.
LEMMA OnlyTheDate ==
  ASSUME OneAtATime, IInv', NEW p \in Request,
         Shelf' = Shelf, Expiry' = Expiry, OnHand' = OnHand
  PROVE  Shelves!Next
<1>1. AsOf' \in Day
  <2>1. request'[p].day \in Day
    BY DEF IInv, TypeOK, RequestRow
  <2>2. {request'[q].day : q \in Request} = {request'[p].day}
    BY DEF OneAtATime
  <2>3. request'[p].day \in Nat
    BY <2>1, InventoryBounds DEF Day
  <2>4. Max({request'[p].day}) = request'[p].day
    BY <2>3 DEF Max
  <2>5. QED
    BY <2>1, <2>2, <2>4 DEF AsOf
<1>2. Shelves!Name(AsOf')
  BY DEF Shelves!Name, Shelf, Expiry, OnHand
<1>3. QED
  BY <1>1, <1>2 DEF Shelves!Next

\* The commit of a delivery puts the batch on its shelf.
LEMMA DeliveryCommits ==
  ASSUME OneAtATime, IInv, IInv', CInv, SInv, BInv, NEW p \in Request, SaveCommit(p),
         request[p].kind = "receive"
  PROVE  Shelves!Next
<1>1. /\ request[p].step = "commit"
      /\ request[p].moves # <<>> => request'[p].day = request[p].day
      /\ stored' = stored \cup request[p].loaded
      /\ \A b \in BatchId :
           batches'[b] = IF b \in request[p].loaded THEN request[p].batches[b] ELSE batches[b]
  BY SaveCommitRow
<1>2. ShelfOk(p) /\ RequestOk(p) /\ OneOk(p)
  BY DEF BInv, CInv, SInv
<1>3. PICK new \in request[p].loaded \ stored : TRUE
  BY <1>1, <1>2 DEF RequestOk, DeliveryOk
<1>4. new \in BatchId /\ request[p].loaded \subseteq BatchId /\ stored \subseteq BatchId
  BY RowOfRequest, StoredAreIds
<1>5. /\ request[p].moves = <<[batch |-> new, units |-> request[p].batches[new].received]>>
      /\ \A b \in request[p].loaded \ stored : b = new
  <2>1. \A b \in request[p].loaded \ stored :
          request[p].moves = <<[batch |-> b, units |-> request[p].batches[b].received]>>
    BY <1>2 DEF RequestOk, NewOk
  <2>2. ASSUME NEW b \in request[p].loaded \ stored  PROVE  b = new
    <3>1. <<[batch |-> b, units |-> request[p].batches[b].received]>>[1]
            = <<[batch |-> new, units |-> request[p].batches[new].received]>>[1]
      BY <1>3, <2>1
    <3>2. QED
      BY <3>1
  <2>3. QED
    BY <1>3, <2>1, <2>2
<1>6. request'[p].day = request[p].day
  BY <1>1, <1>5
<1>7. stored' = stored \cup {new}
  BY <1>1, <1>3, <1>5
<1>8. ASSUME NEW b \in stored
      PROVE  /\ batches'[b].branch = batches[b].branch
             /\ batches'[b].expiry = batches[b].expiry
             /\ batches'[b].remaining = batches[b].remaining
             /\ b # new
  <2>1. b \in BatchId /\ batches[b].remaining \in Nat
    BY <1>4, ConstantTypes DEF IInv, TypeOK, Batch
  <2>2. CASE b \in request[p].loaded
    <3>1. batches'[b] = request[p].batches[b]
      BY <1>1, <2>1, <2>2
    <3>2. Out(p, b) = 0
      BY DEF Out, DirectionOf
    <3>3. request[p].batches[b].remaining + Out(p, b) = batches[b].remaining
      BY <1>1, <1>2, <2>1, <2>2 DEF OneOk, Balanced
    <3>4. request[p].batches[b].remaining \in Nat
      BY <2>1, RowOfRequest, ConstantTypes DEF Batch
    <3>5. request[p].batches[b].remaining = batches[b].remaining
      BY <2>1, <3>2, <3>3, <3>4
    <3>6. QED
      BY <1>2, <1>3, <2>2, <3>1, <3>5 DEF RequestOk, CopyOk, SameBatch
  <2>3. CASE b \notin request[p].loaded
    BY <1>1, <1>3, <2>1, <2>3
  <2>4. QED
    BY <2>2, <2>3
<1>9. /\ batches'[new].branch \in Branch /\ batches'[new].remaining > 0
      /\ batches'[new].expiry \in Day \cup {NoExpiry}
  <2>1. batches'[new] = request[p].batches[new] /\ request[p].batches[new] \in Batch
    BY <1>1, <1>3, <1>4, RowOfRequest
  <2>2. QED
    BY <1>1, <1>2, <1>3, <2>1 DEF ShelfOk, NewShelved, Batch
<1>10. AsOf' = AsOf
  BY <1>6 DEF AsOf, OneAtATime
<1>11. /\ Shelf' = Shelves!With(Shelf, new, batches'[new].branch)
       /\ Expiry' = Shelves!With(Expiry, new, batches'[new].expiry)
       /\ OnHand' = Shelves!With(OnHand, new, batches'[new].remaining)
       /\ OnHand'[new] = batches'[new].remaining
       /\ new \notin DOMAIN Shelf
  BY <1>3, <1>7, <1>8 DEF Shelves!With, Shelf, Expiry, OnHand
<1>12. Shelves!Receive(new)
  <2>1. new \notin Shelves!Received
    BY <1>11 DEF Shelves!Received, Shelf
  <2>2. \E x \in Branch : Shelf' = Shelves!With(Shelf, new, x)
    BY <1>9, <1>11
  <2>3. \E d \in Day \cup {NoExpiry} : Expiry' = Shelves!With(Expiry, new, d)
    BY <1>9, <1>11
  <2>4. OnHand' = Shelves!With(OnHand, new, OnHand'[new]) /\ OnHand'[new] > 0
    BY <1>9, <1>11
  <2>5. QED
    BY <1>10, <2>1, <2>2, <2>3, <2>4 DEF Shelves!Receive, Shelf, Expiry, OnHand
<1>13. QED
  BY <1>4, <1>12 DEF Shelves!Next

\* The commit of a withdrawal takes from usable batches, earliest expiry first.
LEMMA WithdrawalCommits ==
  ASSUME OneAtATime, IInv, IInv', CInv, SInv, BInv, NEW p \in Request, SaveCommit(p),
         request[p].kind # "receive"
  PROVE  Shelves!Next
<1>1. /\ request[p].step = "commit"
      /\ request[p].moves # <<>> => request'[p].day = request[p].day
      /\ stored' = stored \cup request[p].loaded
      /\ \A b \in BatchId :
           batches'[b] = IF b \in request[p].loaded THEN request[p].batches[b] ELSE batches[b]
  BY SaveCommitRow
<1>2. ShelfOk(p) /\ RequestOk(p) /\ OneOk(p)
  BY DEF BInv, CInv, SInv
<1>3. stored \subseteq BatchId
  BY StoredAreIds
<1>4. request[p].loaded \subseteq stored /\ stored' = stored
  BY <1>1, <1>2 DEF RequestOk, NewOk
<1>5. ASSUME NEW b \in stored
      PROVE  /\ batches'[b].branch = batches[b].branch
             /\ batches'[b].expiry = batches[b].expiry
             /\ batches'[b].remaining + Out(p, b) = batches[b].remaining
             /\ batches'[b].remaining \in Nat /\ batches[b].remaining \in Nat
             /\ Out(p, b) \in Nat
  <2>1. /\ b \in BatchId /\ batches[b].remaining \in Nat
        /\ request[p].batches[b].remaining \in Nat
    BY <1>3, RowOfRequest, ConstantTypes DEF IInv, TypeOK, Batch
  <2>2. Out(p, b) \in Nat
    <3>1. request[p] \in RequestRow
      BY DEF IInv, TypeOK
    <3>2. request[p].moves \in Seq(Move)
      BY <3>1 DEF RequestRow, Move
    <3>3. UnitsOf(b, request[p].moves) \in Nat
      BY <3>2, UnitsType
    <3>4. QED
      BY <3>3 DEF Out
  <2>3. CASE b \in request[p].loaded
    <3>1. batches'[b] = request[p].batches[b]
      BY <1>1, <2>1, <2>3
    <3>2. request[p].batches[b].remaining + Out(p, b) = batches[b].remaining
      BY <1>1, <1>2, <2>1, <2>3 DEF OneOk, Balanced
    <3>3. QED
      BY <1>2, <2>1, <2>2, <2>3, <3>1, <3>2 DEF RequestOk, CopyOk, SameBatch
  <2>4. CASE b \notin request[p].loaded
    <3>1. Out(p, b) = 0
      BY <1>1, <1>2, <2>1, <2>4 DEF OneOk, Balanced
    <3>2. batches'[b] = batches[b]
      BY <1>1, <2>1, <2>4
    <3>3. QED
      BY <2>1, <3>1, <3>2
  <2>5. QED
    BY <2>3, <2>4
<1>6. Shelf' = Shelf /\ Expiry' = Expiry
  BY <1>4, <1>5 DEF Shelf, Expiry
<1>7. CASE OnHand' = OnHand
  BY <1>6, <1>7, OnlyTheDate
<1>8. CASE OnHand' # OnHand
  <2>1. PICK b \in stored : batches'[b].remaining # batches[b].remaining
    BY <1>4, <1>8 DEF OnHand
  <2>2. Out(p, b) # 0
    BY <1>5, <2>1
  <2>3. request[p].moves # <<>>
    BY <2>2, UnitsOfNone DEF Out
  <2>4. request[p].kind \in Withdrawal
    BY <1>1, <1>2, <2>3 DEF ShelfOk, Quiet, Moving
  <2>5. AsOf' = AsOf /\ AsOf = request[p].day
    <3>1. request'[p].day = request[p].day
      BY <1>1, <2>3
    <3>2. AsOf' = AsOf
      BY <3>1 DEF AsOf, OneAtATime
    <3>3. QED
      BY <3>2, TheDate
  <2>6. PICK x \in Branch : x = request[p].branch
    BY <1>1, <1>2, <2>4 DEF ShelfOk, Placed, Moving
  <2>7. FirstOut(p)
    BY <1>2 DEF ShelfOk
  <2>8. Shelves!Received = stored
    BY DEF Shelves!Received
  <2>9. \A c \in stored : c \in Shelves!Usable(x) <=> Usable(p, c)
    BY <2>5, <2>6, <2>8 DEF Shelves!Usable, Usable
  <2>10. Shelves!Usable(x) \subseteq stored
    BY <2>8 DEF Shelves!Usable
  <2>11. ASSUME NEW c \in stored
         PROVE  /\ OnHand'[c] \in 0 .. OnHand[c]
                /\ OnHand'[c] < OnHand[c] =>
                     /\ c \in Shelves!Usable(x)
                     /\ \A d \in Shelves!Usable(x) : Expiry[d] < Expiry[c] => OnHand'[d] = 0
    <3>1. /\ \A d \in stored : OnHand'[d] = batches'[d].remaining
          /\ \A d \in stored : OnHand[d] = batches[d].remaining
          /\ \A d \in stored : Expiry[d] = batches[d].expiry
      BY <1>4 DEF OnHand, Expiry
    <3>2. OnHand'[c] \in 0 .. OnHand[c]
      BY <1>5, <3>1
    <3>3. ASSUME OnHand'[c] < OnHand[c]
          PROVE  Out(p, c) # 0
      BY <1>5, <3>1, <3>3
    <3>4. ASSUME OnHand'[c] < OnHand[c], NEW d \in Shelves!Usable(x), Expiry[d] < Expiry[c]
          PROVE  OnHand'[d] = 0
      <4>1. d \in stored /\ Usable(p, d) /\ batches[d].expiry < batches[c].expiry
        BY <2>9, <2>10, <3>1, <3>4
      <4>2. Out(p, d) = batches[d].remaining
        BY <1>1, <2>4, <2>7, <3>3, <3>4, <4>1 DEF FirstOut
      <4>3. QED
        BY <1>5, <3>1, <4>1, <4>2
    <3>5. ASSUME OnHand'[c] < OnHand[c]
          PROVE  c \in Shelves!Usable(x)
      BY <1>1, <2>4, <2>7, <2>9, <3>3, <3>5 DEF FirstOut
    <3>6. QED
      BY <3>2, <3>4, <3>5
  <2>12. DOMAIN OnHand' = stored
    BY <1>4 DEF OnHand
  <2>13. Shelves!Withdraw(x)
    BY <1>6, <1>8, <2>1, <2>5, <2>8, <2>11, <2>12
    DEF Shelves!Withdraw, Shelf, Expiry, OnHand
  <2>14. QED
    BY <2>13 DEF Shelves!Next
<1>9. QED
  BY <1>7, <1>8

\* What only reads, operates in memory or publishes leaves the shelves alone.
LEMMA ShelvesKept ==
  ASSUME OneAtATime, IInv', NEW p \in Request, UNCHANGED tables
  PROVE  Shelves!Next
<1>1. Shelf' = Shelf /\ Expiry' = Expiry /\ OnHand' = OnHand
  BY DEF tables, Shelf, Expiry, OnHand
<1>2. QED
  BY <1>1, OnlyTheDate

LEMMA NextShelves ==
  ASSUME OneAtATime, IInv, CInv, SInv, BInv, [Next]_vars
  PROVE  [Shelves!Next]_(Shelves!vars)
<1>1. CASE UNCHANGED vars
  BY <1>1 DEF vars, tables, Shelves!vars, AsOf
<1>2. CASE Next
  <2>1. IInv'
    BY NextIInv
  <2>2. PICK p \in Request :
          \/ Begin(p) \/ LoadBatches(p) \/ LoadOverrides(p)
          \/ Receive(p) \/ Withdraw(p)
          \/ SetMinimums(p) \/ SetGlobalMinimum(p) \/ Update(p)
          \/ SaveSelect(p) \/ SaveCommit(p)
          \/ RecordMovement(p) \/ MovementFails(p)
          \/ Fails(p) \/ Dies(p)
    BY <1>2 DEF Next
  <2>3. CASE SaveCommit(p)
    BY <2>1, <2>3, DeliveryCommits, WithdrawalCommits
  <2>4. CASE ~SaveCommit(p)
    <3>1. UNCHANGED tables
      <4>1. Begin(p) \/ LoadBatches(p) \/ LoadOverrides(p) \/ Receive(p) \/ Withdraw(p)
              => UNCHANGED tables
        BY DEF Begin, LoadBatches, LoadOverrides, Receive, Withdraw, tables
      <4>2. SetMinimums(p) \/ SetGlobalMinimum(p) \/ Update(p) \/ SaveSelect(p) \/ Fails(p)
              => UNCHANGED tables
        BY DEF SetMinimums, SetGlobalMinimum, Update, SaveSelect, Fails, tables
      <4>3. RecordMovement(p) \/ MovementFails(p) \/ Dies(p) => UNCHANGED tables
        BY DEF RecordMovement, MovementFails, Dies, tables
      <4>4. QED
        BY <2>2, <2>4, <4>1, <4>2, <4>3
    <3>2. QED
      BY <2>1, <3>1, ShelvesKept
  <2>5. QED
    BY <2>3, <2>4
<1>3. QED
  BY <1>1, <1>2

\* One request at a time, the item keeps the promises of the stock book: a
\* delivery is a new batch, and a withdrawal takes what expires first from what
\* its branch can still use on its date.
THEOREM ItemImplementsStockBook ==
  ASSUME OneAtATime, Request # {}
  PROVE  Spec => ImplementsStockBook
<1>1. Init => IInv /\ CInv /\ SInv /\ EInv /\ BInv
  BY InitIInv, InitCInv, InitSInv, InitEInv, InitBInv
<1>2. IInv /\ CInv /\ SInv /\ EInv /\ BInv /\ [Next]_vars
        => (IInv /\ CInv /\ SInv /\ EInv /\ BInv)'
  BY NextIInv, NextCInv, NextSInv, NextEInv, NextBInv
<1>3. Init => Shelves!Init
  <2> SUFFICES ASSUME Init PROVE Shelves!Init
    OBVIOUS
  <2>1. PICK p \in Request : TRUE
    OBVIOUS
  <2>2. AsOf \in Day
    BY <2>1, InitIInv, TheDate
  <2>3. stored = {}
    BY DEF Init
  <2>4. QED
    BY <2>2, <2>3 DEF Shelves!Init
<1>4. IInv /\ CInv /\ SInv /\ EInv /\ BInv /\ [Next]_vars => [Shelves!Next]_(Shelves!vars)
  BY NextShelves
<1>5. QED
  BY <1>1, <1>2, <1>3, <1>4, PTL DEF Spec, Shelves!Spec, ImplementsStockBook

=============================================================================
