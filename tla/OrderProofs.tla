---------------------------- MODULE OrderProofs ----------------------------
(***************************************************************************)
(* Lemmas about finite sets of natural numbers and their order, for the    *)
(* proofs about positions in lines, messages and keys.                     *)
(***************************************************************************)
EXTENDS Ranks, FiniteSetsExt, FiniteSetTheorems, WellFoundedInduction, TLAPS

\* A set of naturals has a least element.  An induction in these proofs is an
\* argument about the least counterexample.
LEMMA LeastExists == ASSUME NEW S \in SUBSET Nat, S # {} PROVE \E x \in S : \A y \in S : x <= y
<1> DEFINE R == {ss \in Nat \X Nat : ss[1] < ss[2]}
<1>1. IsWellFoundedOn(R, Nat)
  BY NatLessThanWellFounded DEF OpToRel
<1> HIDE DEF R
<1>2. \E x \in S : \A y \in S : ~(<<y, x>> \in R)
  BY <1>1, WFMin
<1>3. \A x, y \in Nat : ~(<<y, x>> \in R) => x <= y
  BY DEF R
<1> QED
  BY <1>2, <1>3

LEMMA MinIs ==
    ASSUME NEW S \in SUBSET Nat, S # {}
    PROVE  Min(S) \in S /\ \A y \in S : Min(S) <= y
<1>1. \E x \in S : \A y \in S : x <= y
  BY LeastExists
<1> QED
  BY <1>1 DEF Min

\* Min is the one that is below all.
LEMMA MinOnly ==
    ASSUME NEW S \in SUBSET Nat, NEW m \in S, \A y \in S : m <= y
    PROVE  Min(S) = m
<1>1. Min(S) \in S /\ \A y \in S : Min(S) <= y
  BY MinIs
<1>2. Min(S) <= m /\ m <= Min(S) /\ m \in Nat /\ Min(S) \in Nat
  BY <1>1
<1> QED
  BY <1>2

\* A bounded set of naturals has a greatest one.
LEMMA MaxIn ==
    ASSUME NEW n \in Nat, NEW S \in SUBSET (1 .. n), S # {}
    PROVE  Max(S) \in S /\ \A y \in S : y <= Max(S)
<1> DEFINE T == {n - x : x \in S}
<1>1. T \in SUBSET Nat /\ T # {}
  <2>1. \A x \in S : n - x \in Nat
    OBVIOUS
  <2>2. PICK x : x \in S
    OBVIOUS
  <2>3. n - x \in T
    BY <2>2
  <2> QED
    BY <2>1, <2>3
<1>2. PICK t \in T : \A y \in T : t <= y
  BY <1>1, LeastExists
<1>3. PICK x \in S : t = n - x
  BY <1>2
<1>4. \A y \in S : x >= y
  <2> TAKE y \in S
  <2>1. n - y \in T
    OBVIOUS
  <2>2. n - x <= n - y
    BY <1>2, <1>3, <2>1
  <2> QED
    BY <2>2
<1>5. \E z \in S : \A y \in S : z >= y
  BY <1>4
<1>6. Max(S) \in S /\ \A y \in S : Max(S) >= y
  BY <1>5 DEF Max
<1> QED
  BY <1>6

-----------------------------------------------------------------------------
(* Ranks *)

LEMMA RankType ==
    ASSUME NEW S \in SUBSET Nat, IsFiniteSet(S), NEW i
    PROVE  Rank(S, i) \in Nat /\ IsFiniteSet({j \in S : j <= i})
<1>1. {j \in S : j <= i} \in SUBSET S
  OBVIOUS
<1>2. IsFiniteSet({j \in S : j <= i})
  BY <1>1, FS_Subset
<1> QED
  BY <1>2, FS_CardinalityType DEF Rank

\* A greater element has a greater rank.
LEMMA RankGrows ==
    ASSUME NEW S \in SUBSET Nat, IsFiniteSet(S), NEW i \in S, NEW j \in S, i < j
    PROVE  Rank(S, i) < Rank(S, j)
<1> DEFINE A == {x \in S : x <= i}
           B == {x \in S : x <= j}
<1>0. i \in Nat /\ j \in Nat /\ \A x \in S : x \in Nat
  OBVIOUS
<1>1. A \in SUBSET B /\ j \in B /\ j \notin A
  <2>1. \A x \in S : x <= i => x <= j
    BY <1>0
  <2>2. ~(j <= i) /\ j <= j
    BY <1>0
  <2> QED
    BY <2>1, <2>2
<1>2. IsFiniteSet(A) /\ IsFiniteSet(B)
  BY RankType
<1>3. A # B
  BY <1>1
<1> HIDE DEF A, B
<1>4. Cardinality(A) < Cardinality(B)
  <2>1. Cardinality(A) \in Nat /\ Cardinality(B) \in Nat
    BY <1>2, FS_CardinalityType
  <2>2. Cardinality(A) <= Cardinality(B) /\ Cardinality(A) # Cardinality(B)
    BY <1>1, <1>2, <1>3, FS_Subset
  <2> QED
    BY <2>1, <2>2
<1> QED
  BY <1>4 DEF Rank, A, B

\* The element behind k smaller ones is the next.
LEMMA RankNext ==
    ASSUME NEW S \in SUBSET Nat, IsFiniteSet(S), NEW q \in Nat,
           NEW m \in S, q <= m, \A j \in S : q <= j => m <= j
    PROVE  /\ Rank(S, m) = Cardinality({j \in S : j < q}) + 1
           /\ Cardinality({j \in S : j < q}) \in Nat
<1> DEFINE B == {j \in S : j < q}
<1>1. IsFiniteSet(B)
  <2>1. B \in SUBSET S
    OBVIOUS
  <2> QED
    BY <2>1, FS_Subset
<1>2. {j \in S : j <= m} = B \cup {m} /\ m \notin B
  <2>1. m \in Nat /\ \A x \in S : x \in Nat
    OBVIOUS
  <2>2. ~(m < q) /\ m <= m
    BY <2>1
  <2>3. \A x \in S : x <= m <=> (x < q \/ x = m)
    BY <2>1
  <2> QED
    BY <2>2, <2>3
<1> HIDE DEF B
<1>3. Cardinality(B \cup {m}) = Cardinality(B) + 1 /\ Cardinality(B) \in Nat
  BY <1>1, <1>2, FS_AddElement, FS_CardinalityType
<1> QED
  BY <1>2, <1>3 DEF Rank, B

\* The elements below a number.
LEMMA Below ==
    ASSUME NEW S \in SUBSET Nat
    PROVE  /\ {j \in S : j < 0} = {}
           /\ \A c \in Nat : {j \in S : j < c + 1} = {j \in S : j <= c}
           /\ \A q \in Nat : (\A j \in S : ~(q <= j)) => {j \in S : j < q} = S
<1>0. \A x \in S : x \in Nat /\ ~(x < 0)
  OBVIOUS
<1>1. {j \in S : j < 0} = {}
  BY <1>0
<1>2. ASSUME NEW c \in Nat PROVE {j \in S : j < c + 1} = {j \in S : j <= c}
  <2>1. \A x \in S : x < c + 1 <=> x <= c
    BY <1>0
  <2> QED
    BY <2>1
<1>3. ASSUME NEW q \in Nat, \A j \in S : ~(q <= j) PROVE {j \in S : j < q} = S
  <2>1. \A x \in S : x < q
    BY <1>0, <1>3
  <2> QED
    BY <2>1
<1> QED
  BY <1>1, <1>2, <1>3

\* Every number up to the cardinality is a rank.
LEMMA RankExists ==
    ASSUME NEW S \in SUBSET Nat, IsFiniteSet(S), NEW k \in 1 .. Cardinality(S)
    PROVE  \E i \in S : Rank(S, i) = k
<1> DEFINE Bad == {n \in Nat : n >= 1 /\ n <= Cardinality(S) /\ ~\E i \in S : Rank(S, i) = n}
<1>0. Cardinality(S) \in Nat
  BY FS_CardinalityType
<1> SUFFICES ASSUME Bad # {} PROVE FALSE
  BY <1>0
<1>1. PICK n \in Bad : \A y \in Bad : n <= y
  BY LeastExists
<1>2. n \in Nat /\ n >= 1 /\ n <= Cardinality(S) /\ ~\E i \in S : Rank(S, i) = n
  BY <1>1
<1> HIDE DEF Bad
<1> DEFINE q == IF n = 1 THEN 0 ELSE (CHOOSE i \in S : Rank(S, i) = n - 1) + 1
<1>3. q \in Nat /\ Cardinality({j \in S : j < q}) = n - 1
  <2>1. CASE n = 1
    <3>1. {j \in S : j < 0} = {}
      BY Below
    <3>2. q = 0
      BY <2>1
    <3> HIDE DEF q
    <3> QED
      BY <2>1, <3>1, <3>2, FS_EmptySet
  <2>2. CASE n # 1
    <3>1. n - 1 \in Nat /\ n - 1 >= 1 /\ n - 1 <= Cardinality(S) /\ ~(n <= n - 1)
      BY <1>0, <1>2, <2>2
    <3>2. \E i \in S : Rank(S, i) = n - 1
      <4>1. n - 1 \notin Bad
        BY <1>1, <3>1
      <4> QED
        BY <3>1, <4>1 DEF Bad
    <3> DEFINE c == CHOOSE i \in S : Rank(S, i) = n - 1
    <3>3. c \in S /\ Rank(S, c) = n - 1
      BY <3>2
    <3>4. q = c + 1
      BY <2>2
    <3> HIDE DEF c, q
    <3>5. {j \in S : j < q} = {j \in S : j <= c} /\ q \in Nat
      <4>1. c \in Nat
        BY <3>3
      <4> QED
        BY <3>4, <4>1, Below
    <3> QED
      BY <3>3, <3>5 DEF Rank
  <2> QED
    BY <2>1, <2>2
<1> HIDE DEF q
<1> DEFINE T == {j \in S : q <= j}
<1>4. T # {}
  <2> SUFFICES ASSUME T = {} PROVE FALSE
    OBVIOUS
  <2>0. \A x \in S : ~(q <= x)
    OBVIOUS
  <2>1. {j \in S : j < q} = S
    BY <1>3, <2>0, Below
  <2> QED
    BY <1>0, <1>2, <1>3, <2>1
<1>5. PICK m \in T : \A y \in T : m <= y
  <2>1. T \in SUBSET Nat
    OBVIOUS
  <2> QED
    BY <1>4, <2>1, LeastExists
<1>6. Rank(S, m) = n - 1 + 1
  BY <1>3, <1>5, RankNext
<1> QED
  BY <1>2, <1>5, <1>6

LEMMA NthIs ==
    ASSUME NEW S \in SUBSET Nat, IsFiniteSet(S), NEW k \in 1 .. Cardinality(S)
    PROVE  Nth(S, k) \in S /\ Rank(S, Nth(S, k)) = k
BY RankExists DEF Nth

\* Ranks name elements.
LEMMA NthOnly ==
    ASSUME NEW S \in SUBSET Nat, IsFiniteSet(S), NEW i \in S
    PROVE  Nth(S, Rank(S, i)) = i
<1> DEFINE c == Nth(S, Rank(S, i))
<1>1. c \in S /\ Rank(S, c) = Rank(S, i)
  BY DEF Nth
<1> HIDE DEF c
<1>2. ~(c < i) /\ ~(i < c)
  <2>1. c < i => Rank(S, c) < Rank(S, i)
    BY <1>1, RankGrows
  <2>2. i < c => Rank(S, i) < Rank(S, c)
    BY <1>1, RankGrows
  <2>3. Rank(S, i) \in Nat
    BY RankType
  <2> QED
    BY <1>1, <2>1, <2>2, <2>3
<1>3. c = i
  BY <1>1, <1>2
<1> QED
  BY <1>3 DEF c

\* The first element behind k smaller ones is the one after the k-th.
LEMMA NthNext ==
    ASSUME NEW S \in SUBSET Nat, IsFiniteSet(S), NEW q \in Nat,
           NEW m \in S, q <= m, \A j \in S : q <= j => m <= j
    PROVE  Nth(S, Cardinality({j \in S : j < q}) + 1) = m
BY RankNext, NthOnly

LEMMA NthFirst ==
    ASSUME NEW S \in SUBSET Nat, IsFiniteSet(S), NEW m \in S, \A y \in S : m <= y
    PROVE  Nth(S, 1) = m
<1>1. Cardinality({j \in S : j < 0}) = 0
  <2>1. {j \in S : j < 0} = {}
    BY Below
  <2> QED
    BY <2>1, FS_EmptySet
<1>2. Nth(S, Cardinality({j \in S : j < 0}) + 1) = m
  <2>1. 0 <= m /\ 0 \in Nat /\ \A j \in S : 0 <= j => m <= j
    OBVIOUS
  <2> QED
    BY <2>1, NthNext
<1>3. Cardinality({j \in S : j < 0}) + 1 = 1
  BY <1>1
<1> QED
  BY <1>2, <1>3

\* The rank of an element is at most the number of them.
LEMMA RankBound ==
    ASSUME NEW S \in SUBSET Nat, IsFiniteSet(S), NEW i \in S
    PROVE  Rank(S, i) \in 1 .. Cardinality(S)
<1> DEFINE A == {j \in S : j <= i}
<1>1. A \in SUBSET S /\ A # {} /\ IsFiniteSet(A)
  BY RankType
<1>2. Cardinality(A) <= Cardinality(S) /\ Cardinality(A) \in Nat /\ Cardinality(S) \in Nat
  BY <1>1, FS_Subset, FS_CardinalityType
<1>3. Cardinality(A) # 0
  BY <1>1, FS_EmptySet
<1> QED
  BY <1>2, <1>3 DEF Rank

\* An element above all others is the last.
LEMMA NthAdd ==
    ASSUME NEW S \in SUBSET Nat, IsFiniteSet(S), NEW x \in Nat, \A j \in S : j < x
    PROVE  /\ IsFiniteSet(S \cup {x}) /\ Cardinality(S) \in Nat
           /\ Cardinality(S \cup {x}) = Cardinality(S) + 1
           /\ Nth(S \cup {x}, Cardinality(S) + 1) = x
           /\ \A k \in 1 .. Cardinality(S) : Nth(S \cup {x}, k) = Nth(S, k)
           /\ Rank(S \cup {x}, x) = Cardinality(S) + 1
           /\ \A i \in S : Rank(S \cup {x}, i) = Rank(S, i)
<1> DEFINE T == S \cup {x}
<1>1. x \notin S /\ T \in SUBSET Nat
  OBVIOUS
<1>2. IsFiniteSet(T) /\ Cardinality(T) = Cardinality(S) + 1 /\ Cardinality(S) \in Nat
  BY <1>1, FS_AddElement, FS_CardinalityType
<1>3. {j \in T : j <= x} = T
  <2>1. \A j \in S : j \in Nat /\ j <= x
    OBVIOUS
  <2>2. x <= x
    OBVIOUS
  <2> QED
    BY <2>1, <2>2
<1>6. Rank(T, x) = Cardinality(S) + 1
  BY <1>2, <1>3 DEF Rank
<1>7. ASSUME NEW i \in S PROVE Rank(T, i) = Rank(S, i)
  <2>1. ~(x <= i)
    OBVIOUS
  <2>2. {j \in T : j <= i} = {j \in S : j <= i}
    BY <2>1
  <2> QED
    BY <2>2 DEF Rank
<1>4. Nth(T, Cardinality(S) + 1) = x
  <2>2. x \in T
    OBVIOUS
  <2> HIDE DEF T
  <2> QED
    BY <1>1, <1>2, <1>6, <2>2, NthOnly
<1>5. ASSUME NEW k \in 1 .. Cardinality(S) PROVE Nth(T, k) = Nth(S, k)
  <2> DEFINE i == Nth(S, k)
  <2>1. i \in S /\ Rank(S, i) = k
    BY NthIs
  <2> HIDE DEF i
  <2>2. i \in T
    BY <2>1
  <2>3. Rank(T, i) = k
    BY <1>7, <2>1
  <2>4. Nth(T, Rank(T, i)) = i
    <3> HIDE DEF T
    <3> QED
      BY <1>1, <1>2, <2>2, NthOnly
  <2> QED
    BY <2>3, <2>4 DEF i
<1> QED
  BY <1>2, <1>6, <1>7, <1>4, <1>5

\* All but the last.
LEMMA NthRemove ==
    ASSUME NEW S \in SUBSET Nat, IsFiniteSet(S), S # {},
           NEW T, T = {i \in S : Rank(S, i) # Cardinality(S)}
    PROVE  /\ IsFiniteSet(T) /\ Cardinality(T) \in Nat /\ Cardinality(S) = Cardinality(T) + 1
           /\ \A k \in 1 .. Cardinality(T) : Nth(T, k) = Nth(S, k)
           /\ \A i \in T : Rank(T, i) = Rank(S, i)
<1> DEFINE n == Cardinality(S)
           m == Nth(S, n)
<1>1. n \in Nat /\ n # 0
  BY FS_CardinalityType, FS_EmptySet
<1>2. m \in S /\ Rank(S, m) = n
  BY <1>1, NthIs
<1> HIDE DEF m
<1>3. ASSUME NEW j \in S, j # m PROVE j < m /\ Rank(S, j) # n
  <2>1. Rank(S, j) \in 1 .. n
    BY RankBound
  <2>2. m < j => Rank(S, m) < Rank(S, j)
    BY <1>2, RankGrows
  <2>3. ~(m < j)
    BY <1>1, <1>2, <2>1, <2>2
  <2>4. j < m
    BY <1>2, <1>3, <2>3
  <2>5. Rank(S, j) < Rank(S, m)
    BY <1>2, <2>4, RankGrows
  <2> QED
    BY <1>1, <1>2, <2>1, <2>4, <2>5
<1>4. T \in SUBSET S /\ m \notin T /\ \A j \in T : j < m
  BY <1>2, <1>3
<1>5. S = T \cup {m}
  BY <1>2, <1>3
<1>6. IsFiniteSet(T) /\ T \in SUBSET Nat /\ m \in Nat
  BY <1>2, <1>4, FS_Subset
<1> HIDE DEF n
<1>7. /\ Cardinality(T) \in Nat /\ Cardinality(T \cup {m}) = Cardinality(T) + 1
      /\ \A k \in 1 .. Cardinality(T) : Nth(T \cup {m}, k) = Nth(T, k)
      /\ \A i \in T : Rank(T \cup {m}, i) = Rank(T, i)
  BY <1>4, <1>6, NthAdd
<1> QED
  BY <1>5, <1>6, <1>7
=============================================================================
