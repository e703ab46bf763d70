---------------------------- MODULE PagingProofs ----------------------------
(***************************************************************************)
(* What a page of a finite table is, whatever the table and the page size: *)
(* the rows down to the one the cursor names, each of them once.           *)
(***************************************************************************)
EXTENDS Paging, Integers, FiniteSetTheorems, WellFoundedInduction, TLAPS

Keyset == [id : Int, at : Int]

LEMMA NewerIsAnOrder ==
    ASSUME NEW x, NEW y, NEW z, x.at \in Int, y.at \in Int, z.at \in Int,
           x.id \in Int, y.id \in Int, z.id \in Int
    PROVE  /\ ~Newer(x, x)
           /\ Newer(x, y) => ~Newer(y, x)
           /\ Newer(x, y) /\ Newer(y, z) => Newer(x, z)
           /\ x \in Keyset /\ y \in Keyset => x = y \/ Newer(x, y) \/ Newer(y, x)
<1>1. x \in Keyset /\ y \in Keyset /\ x.at = y.at /\ x.id = y.id => x = y
  BY DEF Keyset
<1> QED BY <1>1 DEF Newer

\* Of a finite set of sets one has no proper subset among them.
LEMMA SmallestMember ==
    ASSUME NEW S, IsFiniteSet(S), NEW T, T \subseteq SUBSET S, T # {}
    PROVE  \E U \in T : \A V \in T : V \subseteq U => V = U
<1>1. IsWellFoundedOn(StrictSubsetOrdering(S), SUBSET S)
  BY FS_StrictSubsetOrderingWellFounded, FS_FiniteSubsetsOfFinite
<1>2. PICK U \in T : \A V \in T : <<V, U>> \notin StrictSubsetOrdering(S)
  BY <1>1, WFMin
<1>3. \A V \in T : V \subseteq U => V = U
  BY <1>2 DEF StrictSubsetOrdering
<1> QED BY <1>3

\* A finite table that is not empty has a newest and an oldest row.
LEMMA NewestExists ==
    ASSUME NEW S, IsFiniteSet(S), S # {}, \A x \in S : x.at \in Int /\ x.id \in Int
    PROVE  \E x \in S : \A y \in S : ~Newer(y, x)
<1> DEFINE Over(x) == {y \in S : Newer(y, x)}
<1>1. \A x, y \in S : Newer(y, x) => Over(y) \subseteq Over(x) /\ y \in Over(x) /\ y \notin Over(y)
  BY NewerIsAnOrder
<1>2. PICK x \in S : \A y \in S : Over(y) \subseteq Over(x) => Over(y) = Over(x)
  <2>1. PICK T : T = {Over(x) : x \in S}
    OBVIOUS
  <2>2. T \subseteq SUBSET S /\ T # {}
    BY <2>1
  <2>3. PICK U \in T : \A V \in T : V \subseteq U => V = U
    BY <2>2, SmallestMember
  <2>4. PICK x \in S : U = Over(x)
    BY <2>1
  <2>5. \A y \in S : Over(y) \in T
    BY <2>1
  <2> HIDE DEF Over
  <2> QED BY <2>3, <2>4, <2>5
<1> QED BY <1>1, <1>2

LEMMA OldestExists ==
    ASSUME NEW S, IsFiniteSet(S), S # {}, \A x \in S : x.at \in Int /\ x.id \in Int
    PROVE  \E x \in S : \A y \in S : ~Newer(x, y)
<1> DEFINE Under(x) == {y \in S : Newer(x, y)}
<1>1. \A x, y \in S : Newer(x, y) => Under(y) \subseteq Under(x) /\ y \in Under(x) /\ y \notin Under(y)
  BY NewerIsAnOrder
<1>2. PICK x \in S : \A y \in S : Under(y) \subseteq Under(x) => Under(y) = Under(x)
  <2>1. PICK T : T = {Under(x) : x \in S}
    OBVIOUS
  <2>2. T \subseteq SUBSET S /\ T # {}
    BY <2>1
  <2>3. PICK U \in T : \A V \in T : V \subseteq U => V = U
    BY <2>2, SmallestMember
  <2>4. PICK x \in S : U = Under(x)
    BY <2>1
  <2>5. \A y \in S : Under(y) \in T
    BY <2>1
  <2> HIDE DEF Under
  <2> QED BY <2>3, <2>4, <2>5
<1> QED BY <1>1, <1>2

-----------------------------------------------------------------------------
(* How many rows come before a row.                                          *)

Above(rows, x) == {y \in rows : Newer(y, x)}

LEMMA AboveCounts ==
    ASSUME NEW rows, rows \subseteq Keyset, IsFiniteSet(rows)
    PROVE  /\ \A x : Cardinality(Above(rows, x)) \in Nat
           /\ \A x \in rows : Cardinality(Above(rows, x)) < Cardinality(rows)
           /\ \A x, y \in rows : Newer(x, y) =>
                  Cardinality(Above(rows, x)) < Cardinality(Above(rows, y))
<1>1. \A x : Above(rows, x) \subseteq rows /\ IsFiniteSet(Above(rows, x))
             /\ Cardinality(Above(rows, x)) \in Nat
  <2> TAKE x
  <2>1. Above(rows, x) \in SUBSET rows
    BY DEF Above
  <2> QED BY <2>1, FS_Subset, FS_CardinalityType
<1>2. ASSUME NEW x \in rows PROVE Cardinality(Above(rows, x)) < Cardinality(rows)
  <2>1. x \notin Above(rows, x)
    BY NewerIsAnOrder DEF Above, Keyset
  <2>2. /\ Cardinality(Above(rows, x)) <= Cardinality(rows)
        /\ Cardinality(rows) = Cardinality(Above(rows, x)) => rows = Above(rows, x)
    BY <1>1, FS_Subset
  <2>3. Cardinality(rows) \in Nat
    BY FS_CardinalityType
  <2> QED BY <1>1, <2>1, <2>2, <2>3
<1>3. ASSUME NEW x \in rows, NEW y \in rows, Newer(x, y)
      PROVE  Cardinality(Above(rows, x)) < Cardinality(Above(rows, y))
  <2>1. Above(rows, x) \subseteq Above(rows, y) /\ x \in Above(rows, y) /\ x \notin Above(rows, x)
    BY <1>3, NewerIsAnOrder DEF Above, Keyset
  <2>2. /\ Cardinality(Above(rows, x)) <= Cardinality(Above(rows, y))
        /\ Cardinality(Above(rows, y)) = Cardinality(Above(rows, x))
               => Above(rows, y) = Above(rows, x)
    BY <1>1, <2>1, FS_Subset
  <2> QED BY <1>1, <2>1, <2>2
<1> QED BY <1>1, <1>2, <1>3

LEMMA FirstIsAbove ==
    ASSUME NEW rows, NEW k
    PROVE  First(rows, k) = {x \in rows : Cardinality(Above(rows, x)) < k}
BY Zenon DEF First, Above

\* A page holds what is above one of its rows.
LEMMA FirstIsUpwardClosed ==
    ASSUME NEW rows, rows \subseteq Keyset, IsFiniteSet(rows), NEW k \in Nat,
           NEW x \in First(rows, k), NEW y \in rows, Newer(y, x)
    PROVE  y \in First(rows, k)
<1>1. Cardinality(Above(rows, y)) < Cardinality(Above(rows, x))
  BY AboveCounts, FirstIsAbove
<1> HIDE DEF Above
<1> QED BY <1>1, AboveCounts, FirstIsAbove

\* What does not fill a page is all of it.
LEMMA ShortPage ==
    ASSUME NEW rows, rows \subseteq Keyset, IsFiniteSet(rows), NEW k \in Nat, Cardinality(rows) <= k
    PROVE  First(rows, k) = rows
<1>1. Cardinality(rows) \in Nat
  BY FS_CardinalityType
<1>2. \A x \in rows : Cardinality(Above(rows, x)) < k
  BY <1>1, AboveCounts
<1> QED BY <1>2, FirstIsAbove

\* A page of a table that is not empty holds a row.
LEMMA SomePage ==
    ASSUME NEW rows, rows \subseteq Keyset, IsFiniteSet(rows), NEW k \in Nat \ {0}, rows # {}
    PROVE  First(rows, k) # {} /\ IsFiniteSet(First(rows, k)) /\ First(rows, k) \subseteq rows
<1>1. PICK x \in rows : \A y \in rows : ~Newer(y, x)
  BY NewestExists DEF Keyset
<1>2. Above(rows, x) = {}
  BY <1>1 DEF Above
<1>3. Cardinality(Above(rows, x)) = 0
  BY <1>2, FS_EmptySet
<1>4. First(rows, k) \in SUBSET rows
  BY DEF First
<1> QED BY <1>3, <1>4, FirstIsAbove, FS_Subset

\* The last row of a page, as NextCursor names it, splits the table.
LEMMA CursorSplits ==
    ASSUME NEW rows, rows \subseteq Keyset, IsFiniteSet(rows), NEW k \in Nat \ {0},
           ~(Cardinality(rows) <= k)
    PROVE  /\ NextCursor(rows, k) \in First(rows, k) /\ NextCursor(rows, k) \in rows
           /\ \A x \in rows : x \in First(rows, k) <=> ~Newer(NextCursor(rows, k), x)
<1>1. rows # {}
  BY FS_EmptySet
<1>2. /\ First(rows, k) # {} /\ IsFiniteSet(First(rows, k))
      /\ First(rows, k) \subseteq rows
  BY <1>1, SomePage
<1>3. \E x \in First(rows, k) : IsLastOf(x, First(rows, k))
  BY <1>2, OldestExists DEF IsLastOf, Keyset
<1>4. PICK c : c = NextCursor(rows, k)
  OBVIOUS
<1>5. c \in First(rows, k) /\ \A y \in First(rows, k) : ~Newer(c, y)
  BY <1>3, <1>4 DEF NextCursor, IsLastOf
<1>6. ASSUME NEW x \in rows, ~Newer(c, x) PROVE x \in First(rows, k)
  <2>1. x = c \/ Newer(x, c)
    BY <1>2, <1>5, <1>6, NewerIsAnOrder DEF Keyset
  <2> QED BY <1>5, <2>1, FirstIsUpwardClosed
<1> QED BY <1>2, <1>4, <1>5, <1>6

\* So does the row beyond a page.
LEMMA BeyondSplits ==
    ASSUME NEW rows, rows \subseteq Keyset, IsFiniteSet(rows), NEW k \in Nat,
           ~(Cardinality(rows) <= k), NEW c,
           c = CHOOSE x \in First(rows, k + 1) : x \notin First(rows, k)
    PROVE  c \in rows /\ \A x \in rows : x \in First(rows, k) <=> Newer(x, c)
<1>1. /\ \A x : Cardinality(Above(rows, x)) \in Nat
      /\ \A x, y \in rows : Newer(x, y) =>
             Cardinality(Above(rows, x)) < Cardinality(Above(rows, y))
      /\ Cardinality(rows) \in Nat
  BY AboveCounts, FS_CardinalityType
<1> DEFINE Left == rows \ First(rows, k)
<1>2. Left # {} /\ IsFiniteSet(Left) /\ Left \subseteq rows
  <2>1. PICK o \in rows : \A y \in rows : ~Newer(o, y)
    <3>1. rows # {}
      BY FS_EmptySet
    <3> QED BY <3>1, OldestExists DEF Keyset
  <2>2. Above(rows, o) = rows \ {o}
    BY <2>1, NewerIsAnOrder DEF Above, Keyset
  <2>3. Cardinality(Above(rows, o)) = Cardinality(rows) - 1
    BY <2>2, FS_RemoveElement
  <2>4. o \notin First(rows, k)
    BY <1>1, <2>3, FirstIsAbove
  <2>5. Left \in SUBSET rows
    OBVIOUS
  <2> QED BY <2>4, <2>5, FS_Subset
<1>3. PICK n \in Left : \A y \in Left : ~Newer(y, n)
  BY <1>2, NewestExists DEF Keyset
<1>4. n \in First(rows, k + 1)
  <2>1. Above(rows, n) \subseteq First(rows, k)
    BY <1>3 DEF Above
  <2>2. CASE Above(rows, n) = {}
    <3>1. Cardinality(Above(rows, n)) = 0
      BY <2>2, FS_EmptySet
    <3> QED BY <1>3, <3>1, FirstIsAbove
  <2>3. CASE Above(rows, n) # {}
    <3>1. Above(rows, n) \subseteq rows /\ IsFiniteSet(Above(rows, n))
      <4>1. Above(rows, n) \in SUBSET rows
        BY DEF Above
      <4> QED BY <4>1, FS_Subset
    <3>2. PICK o \in Above(rows, n) : \A y \in Above(rows, n) : ~Newer(o, y)
      BY <2>3, <3>1, OldestExists DEF Keyset
    <3>3. Above(rows, o) = Above(rows, n) \ {o}
      <4>1. \A y \in rows : Newer(y, o) => Newer(y, n) /\ y # o
        BY <1>3, <3>1, <3>2, NewerIsAnOrder DEF Above, Keyset
      <4>2. \A y \in Above(rows, n) : y # o => Newer(y, o)
        BY <3>1, <3>2, NewerIsAnOrder DEF Keyset
      <4> QED BY <3>1, <4>1, <4>2 DEF Above
    <3>4. Cardinality(Above(rows, o)) = Cardinality(Above(rows, n)) - 1
      BY <3>1, <3>2, <3>3, FS_RemoveElement
    <3>5. Cardinality(Above(rows, o)) < k
      BY <2>1, <3>2, FirstIsAbove
    <3>6. Cardinality(Above(rows, n)) < k + 1
      BY <1>1, <3>4, <3>5
    <3> QED BY <1>3, <3>6, FirstIsAbove
  <2> QED BY <2>2, <2>3
<1>5. c \in First(rows, k + 1) /\ c \notin First(rows, k)
  BY <1>3, <1>4
<1>6. c \in rows /\ Cardinality(Above(rows, c)) = k
  <2>1. c \in rows /\ Cardinality(Above(rows, c)) < k + 1 /\ ~(Cardinality(Above(rows, c)) < k)
    BY <1>5, FirstIsAbove
  <2> QED BY <1>1, <2>1
<1>7. ASSUME NEW x \in rows, Newer(x, c) PROVE x \in First(rows, k)
  BY <1>1, <1>6, <1>7, FirstIsAbove
<1>8. ASSUME NEW x \in First(rows, k) PROVE Newer(x, c)
  <2>1. x \in rows /\ Cardinality(Above(rows, x)) < k
    BY <1>8, FirstIsAbove
  <2>2. x = c \/ Newer(x, c) \/ Newer(c, x)
    BY <1>6, <2>1, NewerIsAnOrder DEF Keyset
  <2>3. ~Newer(c, x)
    BY <1>1, <1>6, <2>1
  <2> QED BY <1>5, <1>8, <2>2, <2>3
<1> QED BY <1>6, <1>7, <1>8

\* A page is as long as its limit, unless it is the whole table.
LEMMA FullPage ==
    ASSUME NEW rows, rows \subseteq Keyset, IsFiniteSet(rows), NEW k \in Nat
    PROVE  /\ First(rows, k) \subseteq rows /\ IsFiniteSet(First(rows, k))
           /\ Cardinality(First(rows, k)) <= k
           /\ First(rows, k) # rows => Cardinality(First(rows, k)) = k
<1> DEFINE page == First(rows, k)
           Over(x) == Above(rows, x)
<1>1. page \in SUBSET rows /\ IsFiniteSet(page) /\ Cardinality(page) \in Nat
  <2>1. page \in SUBSET rows
    BY DEF First
  <2> QED BY <2>1, FS_Subset, FS_CardinalityType
<1>2. \A x : IsFiniteSet(Over(x)) /\ Cardinality(Over(x)) \in Nat
  <2> TAKE x
  <2>1. Over(x) \in SUBSET rows
    BY DEF Above
  <2> QED BY <2>1, FS_Subset, FS_CardinalityType
<1>3. \A x \in rows : x \in page <=> Cardinality(Over(x)) < k
  BY FirstIsAbove
<1>4. Cardinality(page) <= k
  <2>1. CASE page = {}
    BY <2>1, FS_EmptySet
  <2>2. CASE page # {}
    <3>1. PICK o \in page : \A y \in page : ~Newer(o, y)
      BY <1>1, <2>2, OldestExists DEF Keyset
    <3>2. page \ {o} \subseteq Over(o)
      BY <1>1, <3>1, NewerIsAnOrder DEF Above, Keyset
    <3> HIDE DEF Over, page
    <3>3. Cardinality(page \ {o}) = Cardinality(page) - 1
      BY <1>1, <3>1, FS_RemoveElement
    <3>4. Cardinality(page \ {o}) <= Cardinality(Over(o))
      BY <1>2, <3>2, FS_Subset
    <3> QED BY <1>1, <1>2, <1>3, <3>1, <3>3, <3>4
  <2> QED BY <2>1, <2>2
<1>5. ASSUME page # rows PROVE Cardinality(page) = k
  <2>1. IsFiniteSet(rows \ page) /\ rows \ page # {} /\ rows \ page \subseteq rows
    <3>1. rows \ page \in SUBSET rows
      OBVIOUS
    <3> QED BY <1>1, <1>5, <3>1, FS_Subset
  <2>2. PICK n \in rows \ page : \A y \in rows \ page : ~Newer(y, n)
    <3>1. \A x \in rows \ page : x.at \in Int /\ x.id \in Int
      BY DEF Keyset
    <3> HIDE DEF page
    <3> QED BY <2>1, <3>1, NewestExists
  <2>3. Over(n) \subseteq page
    BY <2>2 DEF Above
  <2> HIDE DEF Over, page
  <2>4. Cardinality(Over(n)) <= Cardinality(page) /\ ~(Cardinality(Over(n)) < k)
    BY <1>1, <1>3, <2>2, <2>3, FS_Subset
  <2> QED BY <1>1, <1>2, <1>4, <2>4
<1> QED BY <1>1, <1>4, <1>5
=============================================================================
