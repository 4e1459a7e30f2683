-------------------------------- MODULE Ranks --------------------------------
(***************************************************************************)
(* The elements of a finite set put in an order: sort_by over a collection *)
(* and what is taken from the front of it.  The order is an operator, so   *)
(* the lemma about it is over the pairs it relates.                        *)
(***************************************************************************)
EXTENDS Integers, FiniteSets, FiniteSetTheorems, WellFoundedInduction, TLAPS

\* The element with k - 1 others of S before it.
Nth(S, k, before(_, _)) == CHOOSE i \in S : Cardinality({j \in S : before(j, i)}) = k - 1

\* All of S in that order.
Ranked(S, before(_, _)) == [k \in 1..Cardinality(S) |-> Nth(S, k, before)]

\* The first of them, up to a number.
FirstOf(S, k, before(_, _)) == {i \in S : Cardinality({j \in S : before(j, i)}) < k}

-----------------------------------------------------------------------------
\* A strict total order on S, as pairs.
Orders(R, S) ==
  \A a, b, c \in S :
    /\ <<a, a>> \notin R
    /\ <<a, b>> \in R /\ <<b, c>> \in R => <<a, c>> \in R
    /\ a # b => <<a, b>> \in R \/ <<b, a>> \in R

Under(R, S, i) == {j \in S : <<j, i>> \in R}
Leading(R, S, k) == {i \in S : Cardinality(Under(R, S, i)) < k}

\* Every set with something in it has a first element.
LEMMA Earliest ==
  ASSUME NEW S, IsFiniteSet(S), NEW R, Orders(R, S), NEW T \in SUBSET S, T # {}
  PROVE  \E i \in T : \A j \in T : <<j, i>> \notin R
  <1> DEFINE Heads == {Under(R, S, i) : i \in T}
  <1>1. IsWellFoundedOn(StrictSubsetOrdering(S), FiniteSubsetsOf(S))
    BY FS_StrictSubsetOrderingWellFounded
  <1>2. FiniteSubsetsOf(S) = SUBSET S
    BY FS_FiniteSubsetsOfFinite
  <1>3. Heads \subseteq FiniteSubsetsOf(S) /\ Heads # {}
    <2>1. \A i \in T : Under(R, S, i) \in SUBSET S
      BY DEF Under
    <2>2. PICK i \in T : TRUE
      OBVIOUS
    <2>3. Under(R, S, i) \in Heads
      OBVIOUS
    <2> QED
      BY <1>2, <2>1, <2>3
  <1>4. PICK H \in Heads : \A U \in Heads : <<U, H>> \notin StrictSubsetOrdering(S)
    <2> HIDE DEF Heads
    <2> QED
      BY <1>1, <1>3, WFMin
  <1>5. PICK i \in T : H = Under(R, S, i)
    BY <1>4
  <1>6. SUFFICES ASSUME NEW j \in T, <<j, i>> \in R PROVE FALSE
    OBVIOUS
  <1>7. /\ Under(R, S, j) \subseteq Under(R, S, i)
        /\ j \in Under(R, S, i) /\ j \notin Under(R, S, j)
        /\ Under(R, S, j) \in SUBSET S /\ Under(R, S, i) \in SUBSET S
    BY <1>6 DEF Under, Orders
  <1>8. <<Under(R, S, j), Under(R, S, i)>> \in StrictSubsetOrdering(S)
    BY <1>7 DEF StrictSubsetOrdering
  <1>9. Under(R, S, j) \in Heads
    BY <1>6
  <1> QED
    BY <1>4, <1>5, <1>8, <1>9

LEMMA UndersAreFinite ==
  ASSUME NEW S, IsFiniteSet(S), NEW R, NEW i
  PROVE  IsFiniteSet(Under(R, S, i)) /\ Cardinality(Under(R, S, i)) \in Nat
         /\ Under(R, S, i) \in SUBSET S
  BY FS_Subset, FS_CardinalityType DEF Under

\* Whoever comes later has more before it.
LEMMA LaterHasMore ==
  ASSUME NEW S, IsFiniteSet(S), NEW R, Orders(R, S), NEW i \in S, NEW j \in S, <<i, j>> \in R
  PROVE  Cardinality(Under(R, S, i)) < Cardinality(Under(R, S, j))
  <1>1. /\ Under(R, S, i) \subseteq Under(R, S, j)
        /\ i \in Under(R, S, j) /\ i \notin Under(R, S, i)
    BY DEF Under, Orders
  <1>2. /\ Cardinality(Under(R, S, i)) <= Cardinality(Under(R, S, j))
        /\ Cardinality(Under(R, S, i)) = Cardinality(Under(R, S, j)) => Under(R, S, i) = Under(R, S, j)
    BY <1>1, UndersAreFinite, FS_Subset
  <1> QED
    BY <1>1, <1>2, UndersAreFinite

\* No two elements have as many before them.
LEMMA RanksDiffer ==
  ASSUME NEW S, IsFiniteSet(S), NEW R, Orders(R, S), NEW i \in S, NEW j \in S,
         Cardinality(Under(R, S, i)) = Cardinality(Under(R, S, j))
  PROVE  i = j
  <1>1. SUFFICES ASSUME i # j PROVE FALSE
    OBVIOUS
  <1>2. <<i, j>> \in R \/ <<j, i>> \in R
    BY <1>1 DEF Orders
  <1> QED
    BY <1>2, LaterHasMore, UndersAreFinite

\* As long as S has that many, some element has k before it: the first of
\* those that are not in front of it.
LEMMA RankExists ==
  ASSUME NEW S, IsFiniteSet(S), NEW R, Orders(R, S), NEW k \in Nat, k < Cardinality(S)
  PROVE  \E i \in S : Cardinality(Under(R, S, i)) = k
  <1> DEFINE T == S \ Leading(R, S, k)
  <1>1. Cardinality(S) \in Nat /\ Leading(R, S, k) \in SUBSET S
    BY FS_CardinalityType DEF Leading
  <1>2. Cardinality(Leading(R, S, k)) <= k
    <2>1. CASE Leading(R, S, k) = {}
      BY <2>1, FS_EmptySet
    <2>2. CASE Leading(R, S, k) # {}
      <3> DEFINE Q == {p \in S \X S : <<p[2], p[1]>> \in R}
      <3>1. Orders(Q, S)
        BY DEF Orders
      <3>2. PICK m \in Leading(R, S, k) : \A j \in Leading(R, S, k) : <<j, m>> \notin Q
        <4> HIDE DEF Q
        <4> QED
          BY <1>1, <2>2, <3>1, Earliest
      <3>3. \A j \in Leading(R, S, k) : j = m \/ <<j, m>> \in R
        BY <1>1, <3>2 DEF Orders
      <3>4. Leading(R, S, k) \subseteq Under(R, S, m) \cup {m}
        BY <1>1, <3>3 DEF Under
      <3>5. Cardinality(Under(R, S, m)) < k /\ m \notin Under(R, S, m) /\ m \in S
        BY DEF Leading, Under, Orders
      <3>6. /\ IsFiniteSet(Under(R, S, m) \cup {m})
            /\ Cardinality(Under(R, S, m) \cup {m}) = Cardinality(Under(R, S, m)) + 1
        BY <3>5, UndersAreFinite, FS_AddElement
      <3>7. /\ Cardinality(Leading(R, S, k)) <= Cardinality(Under(R, S, m) \cup {m})
            /\ Cardinality(Leading(R, S, k)) \in Nat
        BY <3>4, <3>6, FS_Subset, FS_CardinalityType
      <3> QED
        BY <3>5, <3>6, <3>7, UndersAreFinite
    <2> QED
      BY <2>1, <2>2
  <1>3. T \in SUBSET S /\ T # {}
    <2>1. Leading(R, S, k) # S
      BY <1>1, <1>2
    <2> QED
      BY <1>1, <2>1
  <1>4. PICK i \in T : \A j \in T : <<j, i>> \notin R
    <2> HIDE DEF T
    <2> QED
      BY <1>3, Earliest
  <1>5. Under(R, S, i) \subseteq Leading(R, S, k)
    BY <1>4 DEF Under
  <1>6. Cardinality(Under(R, S, i)) <= Cardinality(Leading(R, S, k)) /\ Cardinality(Leading(R, S, k)) \in Nat
    BY <1>1, <1>5, FS_Subset, FS_CardinalityType
  <1>7. ~(Cardinality(Under(R, S, i)) < k)
    BY <1>4 DEF Leading
  <1> QED
    BY <1>2, <1>6, <1>7, UndersAreFinite

\* The k-th of a set of numbers is one of them.
LEMMA NthIsIn ==
  ASSUME NEW S, IsFiniteSet(S), S \subseteq Int, NEW k \in 1 .. Cardinality(S)
  PROVE  Nth(S, k, <) \in S
  <1> DEFINE R == {p \in S \X S : p[1] < p[2]}
  <1>1. Orders(R, S)
    BY DEF Orders
  <1>2. Cardinality(S) \in Nat /\ k - 1 \in Nat /\ k - 1 < Cardinality(S)
    BY FS_CardinalityType
  <1>3. \A i \in S : {j \in S : j < i} = Under(R, S, i)
    BY DEF Under
  <1>4. \E i \in S : Cardinality(Under(R, S, i)) = k - 1
    <2> DEFINE m == k - 1
    <2>1. m \in Nat /\ m < Cardinality(S)
      BY <1>2
    <2> HIDE DEF R, m
    <2>2. \E i \in S : Cardinality(Under(R, S, i)) = m
      BY <1>1, <2>1, RankExists
    <2> QED
      BY <2>2 DEF m
  <1>5. \E i \in S : Cardinality({j \in S : j < i}) = k - 1
    BY <1>3, <1>4
  <1> QED
    BY <1>5 DEF Nth

\* What does not get to the front leaves it full.
LEMMA LeadIsFull ==
  ASSUME NEW S, IsFiniteSet(S), NEW R, Orders(R, S), NEW k \in Nat, S \ Leading(R, S, k) # {}
  PROVE  Cardinality(Leading(R, S, k)) >= k
  <1>1. Leading(R, S, k) \in SUBSET S
    BY DEF Leading
  <1>2. PICK i \in S \ Leading(R, S, k) : \A j \in S \ Leading(R, S, k) : <<j, i>> \notin R
    BY Earliest
  <1>3. Under(R, S, i) \subseteq Leading(R, S, k)
    BY <1>2 DEF Under
  <1>4. Cardinality(Under(R, S, i)) <= Cardinality(Leading(R, S, k)) /\ Cardinality(Leading(R, S, k)) \in Nat
    BY <1>1, <1>3, FS_Subset, FS_CardinalityType
  <1>5. ~(Cardinality(Under(R, S, i)) < k)
    BY <1>2 DEF Leading
  <1> QED
    BY <1>4, <1>5, UndersAreFinite

\* What comes before something at the front is at the front.
LEMMA LeadIsDown ==
  ASSUME NEW S, IsFiniteSet(S), NEW R, Orders(R, S), NEW k \in Nat,
         NEW n \in Leading(R, S, k), NEW m \in S, <<m, n>> \in R
  PROVE  m \in Leading(R, S, k)
  <1>1. n \in S /\ Cardinality(Under(R, S, n)) < k
    BY DEF Leading
  <1>2. Cardinality(Under(R, S, m)) < Cardinality(Under(R, S, n))
    BY <1>1, LaterHasMore
  <1> QED
    BY <1>1, <1>2, UndersAreFinite DEF Leading
=============================================================================
