---------------------------- MODULE OrderLemmas ----------------------------
(***************************************************************************)
(* Facts about sets of numbers and finite sets that the proofs about the   *)
(* components share: minima, maxima and induction, stated over sets so     *)
(* that they can be cited, and the reading of a finite set page by page.   *)
(***************************************************************************)
EXTENDS Integers, FiniteSetTheorems, TLAPS

\* Every non-empty set of naturals has a least element.
LEMMA LeastNatural ==
    ASSUME NEW S \in SUBSET Nat, S # {}
    PROVE  \E x \in S : \A y \in S : x <= y
<1>1. IsWellFoundedOn(OpToRel(<, Nat), Nat)
  BY NatLessThanWellFounded
<1>2. PICK x \in S : \A y \in S : ~(<<y, x>> \in OpToRel(<, Nat))
  BY <1>1, WFMin
<1>3. \A y \in S : ~(y < x)
  BY <1>2 DEF OpToRel
<1>4. \A y \in S : x <= y
  <2> TAKE y \in S
  <2>1. x \in Nat /\ y \in Nat
    OBVIOUS
  <2> QED BY <1>3, <2>1
<1> QED BY <1>4

\* Induction on the naturals for membership in a set.
LEMMA SetInduction ==
    ASSUME NEW S, 0 \in S, \A n \in Nat : n \in S => n + 1 \in S
    PROVE  Nat \subseteq S
<1> SUFFICES ASSUME Nat \ S # {} PROVE FALSE
  OBVIOUS
<1>1. PICK x \in Nat \ S : \A y \in Nat \ S : x <= y
  BY LeastNatural
<1>2. x # 0 /\ x - 1 \in Nat
  BY <1>1
<1>3. x - 1 \in S
  BY <1>1, <1>2
<1>4. (x - 1) + 1 \in S
  BY <1>2, <1>3
<1> QED BY <1>1, <1>4

\* A family of subsets of a finite set has a smallest member.
LEMMA SmallestSet ==
    ASSUME NEW S, IsFiniteSet(S), NEW Family, Family \subseteq SUBSET S, Family # {}
    PROVE  \E T \in Family : \A U \in Family : U \subseteq T => U = T
<1>1. IsWellFoundedOn(StrictSubsetOrdering(S), SUBSET S)
  BY FS_StrictSubsetOrderingWellFounded, FS_FiniteSubsetsOfFinite
<1>2. PICK T \in Family : \A U \in Family : ~(<<U, T>> \in StrictSubsetOrdering(S))
  BY <1>1, WFMin
<1> QED BY <1>2 DEF StrictSubsetOrdering

\* A non-empty finite set has a greatest element under a total order.
LEMMA GreatestElement ==
    ASSUME NEW S, IsFiniteSet(S), S # {}, NEW R,
           \A x, y \in S : <<x, y>> \in R \/ <<y, x>> \in R,
           \A x, y, z \in S : <<x, y>> \in R /\ <<y, z>> \in R => <<x, z>> \in R
    PROVE  \E x \in S : \A y \in S : <<y, x>> \in R
<1> DEFINE HasGreatest(T) == \E x \in T : \A y \in T : <<y, x>> \in R
           Family == {T \in SUBSET S : T # {} /\ ~HasGreatest(T)}
<1> SUFFICES ASSUME Family # {} PROVE FALSE
  OBVIOUS
<1>1. PICK T \in Family : \A U \in Family : U \subseteq T => U = T
  <2>1. Family \subseteq SUBSET S
    OBVIOUS
  <2> HIDE DEF Family
  <2> QED BY <2>1, SmallestSet
<1>2. PICK t \in T : TRUE
  OBVIOUS
<1>3. T \ {t} \notin Family
  <2>1. T \ {t} \subseteq T /\ T \ {t} # T
    BY <1>2
  <2> HIDE DEF Family
  <2> QED BY <1>1, <2>1
<1>4. T \ {t} # {}
  <2>1. CASE T = {t}
    BY <1>2, <2>1
  <2> QED BY <1>2, <2>1
<1>5. PICK x \in T \ {t} : \A y \in T \ {t} : <<y, x>> \in R
  BY <1>3, <1>4
<1>6. x \in S /\ t \in S /\ T \subseteq S
  BY <1>2, <1>5
<1>7. CASE <<t, x>> \in R
  <2>1. \A y \in T : <<y, x>> \in R
    BY <1>5, <1>7
  <2> QED BY <1>5, <2>1
<1>8. CASE <<x, t>> \in R
  <2>1. \A y \in T : <<y, t>> \in R
    <3> TAKE y \in T
    <3>1. CASE y = t
      BY <1>6, <3>1
    <3>2. CASE y # t
      <4>1. y \in S /\ <<y, x>> \in R
        BY <1>5, <1>6, <3>2
      <4> QED BY <1>6, <1>8, <4>1
    <3> QED BY <3>1, <3>2
  <2> QED BY <1>2, <2>1
<1> QED BY <1>6, <1>7, <1>8

\* Every non-empty finite set of naturals has a greatest element.
LEMMA GreatestNatural ==
    ASSUME NEW S \in SUBSET Nat, IsFiniteSet(S), S # {}
    PROVE  \E x \in S : \A y \in S : y <= x
<1> DEFINE R == {p \in S \X S : p[1] <= p[2]}
<1>1. \A x, y \in S : <<x, y>> \in R <=> x <= y
  OBVIOUS
<1> HIDE DEF R
<1>2. \A x, y \in S : <<x, y>> \in R \/ <<y, x>> \in R
  <2> TAKE x, y \in S
  <2>1. x \in Nat /\ y \in Nat
    OBVIOUS
  <2> QED BY <1>1, <2>1
<1>3. \A x, y, z \in S : <<x, y>> \in R /\ <<y, z>> \in R => <<x, z>> \in R
  <2> TAKE x, y, z \in S
  <2>1. x \in Nat /\ y \in Nat /\ z \in Nat
    OBVIOUS
  <2> QED BY <1>1, <2>1
<1>4. \E x \in S : \A y \in S : <<y, x>> \in R
  BY <1>2, <1>3, GreatestElement
<1> QED BY <1>1, <1>4

-----------------------------------------------------------------------------
\* The position of e in the order of S, counted from 1.
Place(S, e) == Cardinality({f \in S : f <= e})

LEMMA PlaceType ==
    ASSUME NEW S, IsFiniteSet(S), NEW e PROVE Place(S, e) \in Nat
<1>1. IsFiniteSet({f \in S : f <= e})
  BY FS_Subset
<1> QED BY <1>1, FS_CardinalityType DEF Place

LEMMA PlacePositive ==
    ASSUME NEW S \in SUBSET Nat, IsFiniteSet(S), NEW e \in S
    PROVE  Place(S, e) \in Nat \ {0}
<1> DEFINE Upto == {f \in S : f <= e}
<1>1. IsFiniteSet(Upto) /\ e \in Upto
  BY FS_Subset
<1>2. Cardinality(Upto) # 0
  <2> HIDE DEF Upto
  <2> QED BY <1>1, FS_EmptySet
<1> QED BY <1>2, PlaceType DEF Place

\* No more than n elements stand at the first n positions.
LEMMA FirstPlaces ==
    ASSUME NEW S \in SUBSET Nat, IsFiniteSet(S), NEW n \in Nat
    PROVE  /\ IsFiniteSet({e \in S : Place(S, e) <= n})
           /\ Cardinality({e \in S : Place(S, e) <= n}) <= n
<1> DEFINE A == {e \in S : Place(S, e) <= n}
<1>1. IsFiniteSet(A) /\ A \in SUBSET Nat
  BY FS_Subset
<1>2. CASE A = {}
  BY <1>2, FS_EmptySet
<1>3. CASE A # {}
  <2>1. PICK a \in A : \A b \in A : b <= a
    <3> HIDE DEF A
    <3> QED BY <1>1, <1>3, GreatestNatural
  <2>2. IsFiniteSet({f \in S : f <= a}) /\ A \in SUBSET {f \in S : f <= a}
    BY <2>1, FS_Subset
  <2>3. Cardinality(A) <= Cardinality({f \in S : f <= a})
    <3> HIDE DEF A
    <3> QED BY <2>2, FS_Subset
  <2>4. Cardinality({f \in S : f <= a}) <= n
    BY <2>1 DEF Place
  <2>5. Cardinality(A) \in Nat /\ Cardinality({f \in S : f <= a}) \in Nat
    <3> HIDE DEF A
    <3> QED BY <1>1, <2>2, FS_CardinalityType
  <2>6. Cardinality(A) <= n
    <3> HIDE DEF A
    <3> QED BY <2>3, <2>4, <2>5
  <2> QED BY <1>1, <2>6
<1> QED BY <1>2, <1>3

\* A page that is not full is the last one.
LEMMA ShortPageIsLast ==
    ASSUME NEW S \in SUBSET Nat, IsFiniteSet(S), NEW pos \in Nat, NEW size \in Nat,
           Cardinality({e \in S : pos < Place(S, e) /\ Place(S, e) <= pos + size}) < size
    PROVE  \A e \in S : Place(S, e) <= pos + size
<1> DEFINE A == {e \in S : Place(S, e) <= pos}
           P == {e \in S : pos < Place(S, e) /\ Place(S, e) <= pos + size}
           Rest == {e \in S : ~(Place(S, e) <= pos + size)}
<1> SUFFICES ASSUME Rest # {} PROVE FALSE
  OBVIOUS
<1>1. PICK y \in Rest : \A z \in Rest : y <= z
  <2>1. Rest \in SUBSET Nat
    OBVIOUS
  <2> HIDE DEF Rest
  <2> QED BY <2>1, LeastNatural
<1>2. \A e \in S : Place(S, e) \in Nat
  BY PlaceType
<1>3. {f \in S : f <= y} \subseteq (A \cup P) \cup {y}
  <2> SUFFICES ASSUME NEW f \in S, f <= y, f # y PROVE f \in A \cup P
    OBVIOUS
  <2>1. f \notin Rest
    BY <1>1
  <2> QED BY <1>2, <2>1
<1>4. /\ IsFiniteSet(A) /\ Cardinality(A) \in Nat /\ Cardinality(A) <= pos
      /\ IsFiniteSet(P) /\ Cardinality(P) \in Nat /\ Cardinality(P) < size
  <2>1. IsFiniteSet(A) /\ Cardinality(A) <= pos
    BY FirstPlaces
  <2>2. IsFiniteSet(P) /\ Cardinality(P) < size
    BY FS_Subset
  <2> HIDE DEF A, P
  <2> QED BY <2>1, <2>2, FS_CardinalityType
<1>5. Place(S, y) <= Cardinality((A \cup P) \cup {y})
  <2>1. IsFiniteSet((A \cup P) \cup {y})
    <3> HIDE DEF A, P
    <3> QED BY <1>4, FS_Union, FS_AddElement
  <2> HIDE DEF A, P
  <2> QED BY <1>3, <2>1, FS_Subset DEF Place
<1>6. Cardinality((A \cup P) \cup {y}) <= pos + size
  <2> HIDE DEF A, P
  <2>1. IsFiniteSet(A \cup P) /\ IsFiniteSet(A \cap P)
        /\ Cardinality(A \cup P) = Cardinality(A) + Cardinality(P) - Cardinality(A \cap P)
    BY <1>4, FS_Union, FS_Subset
  <2>2. Cardinality(A \cup P) \in Nat /\ Cardinality(A \cap P) \in Nat
    BY <2>1, FS_CardinalityType
  <2>3. Cardinality(A \cup P) < pos + size
    BY <1>4, <2>1, <2>2
  <2>4. \/ Cardinality((A \cup P) \cup {y}) = Cardinality(A \cup P)
        \/ Cardinality((A \cup P) \cup {y}) = Cardinality(A \cup P) + 1
    BY <2>1, FS_AddElement
  <2> QED BY <2>2, <2>3, <2>4
<1>7. Place(S, y) <= pos + size
  <2>1. IsFiniteSet((A \cup P) \cup {y})
    <3> HIDE DEF A, P
    <3> QED BY <1>4, FS_Union, FS_AddElement
  <2>2. Cardinality((A \cup P) \cup {y}) \in Nat /\ Place(S, y) \in Nat
    <3> HIDE DEF A, P
    <3> QED BY <2>1, FS_CardinalityType, PlaceType
  <2> HIDE DEF A, P
  <2> QED BY <1>5, <1>6, <2>2
<1> QED BY <1>1, <1>7

=============================================================================
