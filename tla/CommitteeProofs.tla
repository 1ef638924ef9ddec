--------------------------- MODULE CommitteeProofs ---------------------------
(***************************************************************************)
(* Quorum arithmetic of Committee for a committee of any size.              *)
(***************************************************************************)
EXTENDS Committee, FiniteSetTheorems, TLAPS

\* A committee V tolerates f with 3f < n, and its quorum is n - f.
LEMMA CommitteeSize ==
    ASSUME NEW V, IsFiniteSet(V), V # {}
    PROVE  /\ Cardinality(V) \in Nat \ {0}
           /\ max_byzantine(Cardinality(V)) \in Nat
           /\ 3 * max_byzantine(Cardinality(V)) < Cardinality(V)
           /\ availability_quorum(Cardinality(V))
                 = Cardinality(V) - max_byzantine(Cardinality(V))
<1> DEFINE n == Cardinality(V)
<1>1. n \in Nat /\ n # 0
  BY FS_CardinalityType, FS_EmptySet
<1>2. max_byzantine(n) = (n - 1) \div 3
  BY <1>1 DEF max_byzantine
<1>3. availability_quorum(n) = n - max_byzantine(n)
  BY DEF availability_quorum
<1> HIDE DEF n
<1>4. (n - 1) \div 3 \in Nat /\ 3 * ((n - 1) \div 3) < n
  BY <1>1
<1> QED
  BY <1>1, <1>2, <1>3, <1>4 DEF n

\* Two quorums have more than f members in common.
LEMMA QuorumOverlap ==
    ASSUME NEW V, IsFiniteSet(V), V # {}, NEW S \in SUBSET V, NEW T \in SUBSET V,
           Cardinality(S) >= availability_quorum(Cardinality(V)),
           Cardinality(T) >= availability_quorum(Cardinality(V))
    PROVE  /\ IsFiniteSet(S \intersect T)
           /\ Cardinality(S \intersect T) \in Nat
           /\ Cardinality(S \intersect T) > max_byzantine(Cardinality(V))
<1> DEFINE n == Cardinality(V)
           f == max_byzantine(n)
           q == availability_quorum(n)
<1>1. IsFiniteSet(S) /\ IsFiniteSet(T) /\ IsFiniteSet(S \intersect T)
  BY FS_Subset, FS_Intersection
<1>2. /\ Cardinality(S) \in Nat /\ Cardinality(T) \in Nat
      /\ Cardinality(S \intersect T) \in Nat /\ Cardinality(S \union T) \in Nat
  BY <1>1, FS_CardinalityType, FS_Union
<1>3. Cardinality(S \union T) = Cardinality(S) + Cardinality(T) - Cardinality(S \intersect T)
  BY <1>1, FS_Union
<1>4. Cardinality(S \union T) <= n
  BY FS_Subset, S \union T \in SUBSET V
<1>5. n \in Nat /\ f \in Nat /\ 3 * f < n /\ q = n - f
  BY CommitteeSize
<1>6. Cardinality(S) >= q /\ Cardinality(T) >= q
  OBVIOUS
<1> HIDE DEF n, f, q
<1>7. Cardinality(S \intersect T) > f
  BY <1>2, <1>3, <1>4, <1>5, <1>6
<1> QED
  BY <1>1, <1>2, <1>7 DEF n, f

\* With at most f Byzantine members B, two quorums have an honest one in common.
LEMMA HonestOverlap ==
    ASSUME NEW V, IsFiniteSet(V), V # {}, NEW S \in SUBSET V, NEW T \in SUBSET V,
           Cardinality(S) >= availability_quorum(Cardinality(V)),
           Cardinality(T) >= availability_quorum(Cardinality(V)),
           NEW B \in SUBSET V, Cardinality(B) <= max_byzantine(Cardinality(V))
    PROVE  \E v \in V \ B : v \in S /\ v \in T
<1> SUFFICES ASSUME S \intersect T \subseteq B
             PROVE  FALSE
  OBVIOUS
<1>1. IsFiniteSet(B)
  BY FS_Subset
<1>2. Cardinality(B) \in Nat /\ Cardinality(S \intersect T) <= Cardinality(B)
  BY <1>1, FS_CardinalityType, FS_Subset
<1>3. /\ Cardinality(S \intersect T) \in Nat
      /\ Cardinality(S \intersect T) > max_byzantine(Cardinality(V))
  BY QuorumOverlap
<1>4. max_byzantine(Cardinality(V)) \in Nat
  BY CommitteeSize
<1> QED
  BY <1>2, <1>3, <1>4

\* With at most f Byzantine members, a quorum holds more than f honest ones.
LEMMA HonestQuorum ==
    ASSUME NEW V, IsFiniteSet(V), V # {}, NEW S \in SUBSET V,
           Cardinality(S) >= availability_quorum(Cardinality(V)),
           NEW B \in SUBSET V, Cardinality(B) <= max_byzantine(Cardinality(V))
    PROVE  Cardinality(S \ B) > max_byzantine(Cardinality(V))
<1> DEFINE n == Cardinality(V)
           f == max_byzantine(n)
           q == availability_quorum(n)
           A == S \ B
           C == S \intersect B
<1>1. IsFiniteSet(S) /\ IsFiniteSet(B) /\ IsFiniteSet(A) /\ IsFiniteSet(C)
  BY FS_Subset
<1>2. /\ Cardinality(S) \in Nat /\ Cardinality(B) \in Nat
      /\ Cardinality(A) \in Nat /\ Cardinality(C) \in Nat
  BY <1>1, FS_CardinalityType
<1>3. A \union C = S /\ A \intersect C = {}
  OBVIOUS
<1>4. Cardinality(S) = Cardinality(A) + Cardinality(C)
  <2>1. Cardinality(A \union C) = Cardinality(A) + Cardinality(C) - Cardinality(A \intersect C)
    BY <1>1, FS_Union
  <2>2. Cardinality(A \intersect C) = 0 /\ Cardinality(A \union C) = Cardinality(S)
    BY <1>3, FS_EmptySet
  <2> HIDE DEF A, C
  <2> QED
    BY <2>1, <2>2, <1>2
<1>5. Cardinality(C) <= Cardinality(B)
  BY <1>1, FS_Subset
<1>6. n \in Nat /\ f \in Nat /\ 3 * f < n /\ q = n - f
  BY CommitteeSize
<1>7. Cardinality(S) >= q /\ Cardinality(B) <= f
  OBVIOUS
<1> HIDE DEF n, f, q, A, C
<1>8. Cardinality(A) > f
  BY <1>2, <1>4, <1>5, <1>6, <1>7
<1> QED
  BY <1>8 DEF A, f, n

\* Once more than f members D withhold their vote, no quorum S can form without them.
LEMMA Withheld ==
    ASSUME NEW V, IsFiniteSet(V), V # {}, NEW S \in SUBSET V, NEW D \in SUBSET V,
           S \intersect D = {},
           Cardinality(D) > max_byzantine(Cardinality(V))
    PROVE  ~(Cardinality(S) >= availability_quorum(Cardinality(V)))
<1> DEFINE n == Cardinality(V)
           f == max_byzantine(n)
           q == availability_quorum(n)
<1>1. IsFiniteSet(S) /\ IsFiniteSet(D)
  BY FS_Subset
<1>2. Cardinality(S) \in Nat /\ Cardinality(D) \in Nat
  BY <1>1, FS_CardinalityType
<1>3. Cardinality(S \union D) = Cardinality(S) + Cardinality(D) - Cardinality(S \intersect D)
  BY <1>1, FS_Union
<1>4. Cardinality(S \intersect D) = 0
  BY FS_EmptySet
<1>5. Cardinality(S \union D) <= n
  BY FS_Subset, S \union D \in SUBSET V
<1>6. n \in Nat /\ f \in Nat /\ q = n - f /\ Cardinality(D) > f
  BY CommitteeSize
<1> HIDE DEF n, f, q
<1>7. ~(Cardinality(S) >= q)
  BY <1>2, <1>3, <1>4, <1>5, <1>6
<1> QED
  BY <1>7 DEF q, n

\* A set of natural numbers that is not empty has a least element.
LEMMA LeastNatural ==
    ASSUME NEW S \in SUBSET Nat, S # {}
    PROVE  \E x \in S : \A y \in S : x <= y
<1>1. PICK x \in S : \A y \in S : ~(<<y, x>> \in OpToRel(<, Nat))
  BY NatLessThanWellFounded, WFMin, Zenon
<1>2. \A y \in S : ~(y < x)
  BY <1>1 DEF OpToRel
<1> QED
  BY <1>2

=============================================================================
