----------------------------- MODULE DataLemmas -----------------------------
(***************************************************************************)
(* Facts about numbers, finite sets and sequences that the proofs of       *)
(* several components use.  Where a fact needs induction, it comes from    *)
(* the least element of a set of natural numbers.                          *)
(***************************************************************************)
EXTENDS Naturals, FiniteSetsExt, FiniteSetTheorems, WellFoundedInduction, TLAPS

(* Every set of natural numbers has a least element. *)
LEMMA LeastElement ==
  ASSUME NEW T \in SUBSET Nat, T # {}
  PROVE  \E least \in T : \A n \in T : least <= n
<1> DEFINE R == OpToRel(<, Nat)
<1>1. IsWellFoundedOn(R, Nat)
  BY NatLessThanWellFounded
<1>2. \A x, y \in Nat : y < x => <<y, x>> \in R
  BY DEF OpToRel
<1> HIDE DEF R
<1>3. PICK least \in T : \A n \in T : ~(<<n, least>> \in R)
  BY <1>1, WFMin
<1>4. \A n \in T : ~(n < least)
  BY <1>2, <1>3
<1> QED BY <1>4

(* A finite set of natural numbers has a greatest element, which Max is.   *)
LEMMA MaxOfFinite ==
  ASSUME NEW S \in SUBSET Nat, IsFiniteSet(S), S # {}
  PROVE  Max(S) \in S /\ \A n \in S : n <= Max(S)
<1> DEFINE Has(X) == \E m \in X : \A n \in X : n <= m
           Bad(c) == \E X \in SUBSET Nat : IsFiniteSet(X) /\ X # {} /\ Cardinality(X) = c /\ ~Has(X)
           T == {c \in Nat : Bad(c)}
<1>1. T = {}
  <2> SUFFICES ASSUME T # {}
               PROVE  FALSE
    OBVIOUS
  <2>1. PICK c \in T : \A n \in T : c <= n
    BY LeastElement
  <2>2. PICK X \in SUBSET Nat : IsFiniteSet(X) /\ X # {} /\ Cardinality(X) = c /\ ~Has(X)
    BY <2>1
  <2>3. PICK x \in X : TRUE
    BY <2>2
  <2> DEFINE Y == X \ {x}
  <2>4. IsFiniteSet(Y) /\ Cardinality(Y) = c - 1 /\ Y \in SUBSET Nat
    BY <2>2, <2>3, FS_RemoveElement
  <2>5. c - 1 \in Nat
    BY <2>4, FS_CardinalityType
  <2>6. ~Bad(c - 1)
    BY <2>1, <2>5
  <2>7. Y # {} => Has(Y)
    BY <2>4, <2>6
  <2>8. CASE Y = {}
    BY <2>2, <2>3, <2>8
  <2>9. CASE Has(Y)
    <3>1. PICK m \in Y : \A n \in Y : n <= m
      BY <2>9
    <3>2. CASE x <= m
      <4>1. \A n \in X : n <= m
        BY <3>1, <3>2
      <4> QED BY <2>2, <3>1, <4>1
    <3>3. CASE m < x
      <4>1. \A n \in X : n <= x
        BY <2>3, <3>1, <3>3
      <4> QED BY <2>2, <2>3, <4>1
    <3> QED BY <2>3, <3>1, <3>2, <3>3
  <2> QED BY <2>7, <2>8, <2>9
<1>2. Cardinality(S) \in Nat
  BY FS_CardinalityType
<1>3. Has(S)
  BY <1>1, <1>2
<1> QED BY <1>3 DEF Max

(* The least element is what Min is. *)
LEMMA MinOfNonempty ==
  ASSUME NEW S \in SUBSET Nat, S # {}
  PROVE  Min(S) \in S /\ \A n \in S : Min(S) <= n
  BY LeastElement DEF Min

(* The image of a finite set and the union of finitely many finite sets    *)
(* are finite.                                                             *)
LEMMA FiniteImage ==
  ASSUME NEW S, IsFiniteSet(S), NEW f
  PROVE  IsFiniteSet({f[x] : x \in S})
<1> DEFINE g == [x \in S |-> f[x]]
           T == {f[x] : x \in S}
<1>1. g \in Surjection(S, T)
  BY DEF Surjection
<1> QED BY <1>1, FS_Surjection

LEMMA FiniteFamily ==
  ASSUME NEW S, IsFiniteSet(S), NEW f, \A x \in S : IsFiniteSet(f[x])
  PROVE  IsFiniteSet(UNION {f[x] : x \in S})
<1> DEFINE U == {f[x] : x \in S}
<1>1. IsFiniteSet(U) /\ \A x \in U : IsFiniteSet(x)
  BY FiniteImage
<1> HIDE DEF U
<1>2. IsFiniteSet(UNION U)
  BY <1>1, FS_UNION
<1> QED BY <1>2 DEF U
=============================================================================
