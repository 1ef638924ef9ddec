-------------------------- MODULE LedgerBooksProofs --------------------------
(***************************************************************************)
(* Proofs about the coin of Ledger for every capacity, window, schedule,    *)
(* reward, cap and payments: what the notes are worth is what the books say, *)
(* the cap holds, every unspent note can be reached, and the ledger is a    *)
(* bank of notes.                                                           *)
(***************************************************************************)
EXTENDS LedgerProofs, FiniteSetTheorems, NaturalsInduction, WellFoundedInduction

-----------------------------------------------------------------------------
(* Sums over finite sets.                                                   *)

Total(V, S) == MapThenSumSet(LAMBDA x : V[x], S)

First(S) == CHOOSE x \in S : TRUE

LEMMA SumIsTotal == \A f : Sum(f) = Total(f, DOMAIN f)
  BY DEF Sum, Total

LEMMA WorthIsTotal == \A S : Worth(S) = Total(Value, S)
  BY DEF Worth, Total

IsTotal(V, S, t) ==
    t = [s \in SUBSET S |-> IF s = {} THEN 0 ELSE V[First(s)] + t[s \ {First(s)}]]

LEMMA TotalUnfolds ==
    ASSUME NEW V, NEW S
    PROVE  Total(V, S) = (CHOOSE t : IsTotal(V, S, t))[S]
  BY DEF Total, MapThenSumSet, MapThenFoldSet, IsTotal, First

\* Induction over the subsets of a finite set, for a set of good ones.
LEMMA SubsetInduction ==
    ASSUME NEW U, IsFiniteSet(U), NEW G,
           \A s \in SUBSET U : (\A x \in s : s \ {x} \in G) => s \in G
    PROVE  \A s \in SUBSET U : s \in G
<1> DEFINE Bad == {s \in SUBSET U : s \notin G}
           Sizes == {Cardinality(s) : s \in Bad}
<1> SUFFICES ASSUME Bad # {} PROVE FALSE
  OBVIOUS
<1>1. \A s \in SUBSET U : IsFiniteSet(s) /\ Cardinality(s) \in Nat
  BY FS_Subset, FS_CardinalityType
<1>2. Bad \in SUBSET FiniteSubsetsOf(U)
  BY <1>1 DEF FiniteSubsetsOf
<1>3. PICK s \in Bad : \A r \in Bad : ~(<<r, s>> \in StrictSubsetOrdering(U))
  <2> HIDE DEF Bad
  <2> QED
  BY <1>2, FS_StrictSubsetOrderingWellFounded, WFMin, Zenon
<1>4. ASSUME NEW x \in s PROVE s \ {x} \in G
  <2>1. <<s \ {x}, s>> \in StrictSubsetOrdering(U)
    BY <1>4 DEF StrictSubsetOrdering
  <2> QED
    BY <1>3, <2>1
<1> QED
  BY <1>3, <1>4

\* A set of natural numbers that is not empty has a least element.
LEMMA LeastNumber ==
    ASSUME NEW S \in SUBSET Nat, S # {}
    PROVE  \E x \in S : \A y \in S : x <= y
<1>1. PICK x \in S : \A y \in S : ~(<<y, x>> \in OpToRel(<, Nat))
  BY NatLessThanWellFounded, WFMin, Zenon
<1>2. \A y \in S : ~(y < x)
  BY <1>1 DEF OpToRel
<1> QED
  BY <1>2

\* The equation of the sum, on the subsets of at most n elements.
Approximates(V, U, n, t) ==
    \A s \in SUBSET U : Cardinality(s) <= n =>
        t[s] = IF s = {} THEN 0 ELSE V[First(s)] + t[s \ {First(s)}]

LEMMA FirstIn ==
    ASSUME NEW S, S # {}
    PROVE  First(S) \in S
  BY DEF First

LEMMA TotalApproximated ==
    ASSUME NEW V, NEW U, IsFiniteSet(U)
    PROVE  \A n \in Nat : \E t : Approximates(V, U, n, t)
<1> DEFINE Bad == {n \in Nat : ~\E t : Approximates(V, U, n, t)}
<1> SUFFICES ASSUME Bad # {} PROVE FALSE
  OBVIOUS
<1>0. \A s \in SUBSET U : IsFiniteSet(s) /\ Cardinality(s) \in Nat
  BY FS_Subset, FS_CardinalityType
<1>1. PICK n \in Bad : \A k \in Bad : n <= k
  <2>1. Bad \in SUBSET Nat
    OBVIOUS
  <2> HIDE DEF Bad
  <2> QED
    BY <2>1, LeastNumber
<1>2. CASE n = 0
  <2> DEFINE t == [s \in SUBSET U |-> 0]
  <2>1. ASSUME NEW s \in SUBSET U, Cardinality(s) <= 0 PROVE s = {} /\ t[s] = 0
    BY <1>0, <2>1, FS_EmptySet
  <2>2. Approximates(V, U, 0, t)
    BY <2>1 DEF Approximates
  <2> QED
    BY <1>1, <1>2, <2>2
<1>3. CASE n # 0
  <2>1. n \in Nat /\ n - 1 \in Nat /\ n - 1 < n
    BY <1>1, <1>3
  <2>2. n - 1 \notin Bad
    <3> HIDE DEF Bad
    <3> QED
      BY <1>1, <2>1
  <2>3. PICK t : Approximates(V, U, n - 1, t)
    BY <2>1, <2>2
  <2> DEFINE u == [s \in SUBSET U |->
                     IF s = {} THEN 0 ELSE V[First(s)] + t[s \ {First(s)}]]
  <2>4. ASSUME NEW s \in SUBSET U, Cardinality(s) <= n
        PROVE  u[s] = IF s = {} THEN 0 ELSE V[First(s)] + u[s \ {First(s)}]
    <3> SUFFICES ASSUME s # {} PROVE u[s] = V[First(s)] + u[s \ {First(s)}]
      OBVIOUS
    <3>1. First(s) \in s
      BY FirstIn
    <3> DEFINE r == s \ {First(s)}
    <3>2. r \in SUBSET U /\ Cardinality(r) <= n - 1
      BY <1>0, <2>1, <2>4, <3>1, FS_RemoveElement
    <3>3. u[r] = t[r]
      BY <2>3, <3>2 DEF Approximates
    <3> QED
      BY <3>3
  <2>5. Approximates(V, U, n, u)
    <3> HIDE DEF u
    <3> QED
      BY <2>4 DEF Approximates
  <2> QED
    BY <1>1, <2>5
<1> QED
  BY <1>2, <1>3

LEMMA TotalExists ==
    ASSUME NEW V, NEW U, IsFiniteSet(U)
    PROVE  \E t : IsTotal(V, U, t)
<1>1. \A s \in SUBSET U : Cardinality(s) <= Cardinality(U)
  BY FS_Subset
<1>2. PICK t : Approximates(V, U, Cardinality(U), t)
  BY TotalApproximated, FS_CardinalityType
<1> DEFINE u == [s \in SUBSET U |-> t[s]]
<1>3. ASSUME NEW s \in SUBSET U
      PROVE  u[s] = IF s = {} THEN 0 ELSE V[First(s)] + u[s \ {First(s)}]
  <2>1. t[s] = IF s = {} THEN 0 ELSE V[First(s)] + t[s \ {First(s)}]
    BY <1>1, <1>2 DEF Approximates
  <2> QED
    BY <2>1
<1>4. u = [s \in SUBSET U |-> u[s]]
  OBVIOUS
<1>5. IsTotal(V, U, u)
  <2> HIDE DEF u
  <2> QED
    BY <1>3, <1>4 DEF IsTotal
<1> QED
  BY <1>5

\* The sum of a set is the same whichever larger set it is taken in.
LEMMA TotalIs ==
    ASSUME NEW V, NEW U, IsFiniteSet(U), NEW t, IsTotal(V, U, t), NEW S \in SUBSET U
    PROVE  Total(V, S) = t[S]
<1> DEFINE u == CHOOSE x : IsTotal(V, S, x)
           G == {s \in SUBSET S : u[s] = t[s]}
<1>1. IsFiniteSet(S)
  BY FS_Subset
<1>2. IsTotal(V, S, u)
  BY <1>1, TotalExists
<1> HIDE DEF u
<1>3. ASSUME NEW s \in SUBSET S, \A x \in s : s \ {x} \in G PROVE s \in G
  <2>1. u[s] = IF s = {} THEN 0 ELSE V[First(s)] + u[s \ {First(s)}]
    BY <1>2, Zenon DEF IsTotal
  <2>2. t[s] = IF s = {} THEN 0 ELSE V[First(s)] + t[s \ {First(s)}]
    BY Zenon DEF IsTotal
  <2>3. s # {} => u[s \ {First(s)}] = t[s \ {First(s)}]
    BY <1>3, FirstIn
  <2> QED
    BY <2>1, <2>2, <2>3
<1>4. \A s \in SUBSET S : s \in G
  <2> HIDE DEF G
  <2> QED
    BY <1>1, <1>3, SubsetInduction
<1> QED
  BY <1>4, TotalUnfolds DEF u

LEMMA TotalStep ==
    ASSUME NEW V, NEW S, IsFiniteSet(S)
    PROVE  /\ Total(V, {}) = 0
           /\ S # {} => Total(V, S) = V[First(S)] + Total(V, S \ {First(S)})
<1>1. PICK t : IsTotal(V, S, t)
  BY TotalExists
<1>2. \A s \in SUBSET S : t[s] = IF s = {} THEN 0 ELSE V[First(s)] + t[s \ {First(s)}]
  BY <1>1, Zenon DEF IsTotal
<1>3. \A s \in SUBSET S : Total(V, s) = t[s]
  BY <1>1, TotalIs
<1>4. S \ {First(S)} \in SUBSET S /\ {} \in SUBSET S
  OBVIOUS
<1> QED
  BY <1>2, <1>3, <1>4

\* Sums of natural numbers are natural numbers.
LEMMA TotalNat ==
    ASSUME NEW V, NEW S, IsFiniteSet(S), \A x \in S : V[x] \in Nat
    PROVE  Total(V, S) \in Nat
<1> DEFINE G == {s \in SUBSET S : Total(V, s) \in Nat}
<1>1. ASSUME NEW s \in SUBSET S, \A x \in s : s \ {x} \in G PROVE s \in G
  <2>1. IsFiniteSet(s)
    BY FS_Subset
  <2>2. Total(V, {}) = 0 /\ (s # {} => Total(V, s) = V[First(s)] + Total(V, s \ {First(s)}))
    BY <2>1, TotalStep
  <2>3. s # {} => V[First(s)] \in Nat /\ Total(V, s \ {First(s)}) \in Nat
    BY <1>1, FirstIn
  <2>4. CASE s = {}
    BY <2>2, <2>4
  <2>5. CASE s # {}
    <3> DEFINE a == V[First(s)]
               b == Total(V, s \ {First(s)})
    <3>1. a \in Nat /\ b \in Nat /\ Total(V, s) = a + b
      BY <2>2, <2>3, <2>5
    <3> HIDE DEF a, b
    <3>2. Total(V, s) \in Nat
      BY <3>1
    <3> QED
      BY <3>2
  <2> QED
    BY <2>4, <2>5
<1>2. \A s \in SUBSET S : s \in G
  <2> HIDE DEF G
  <2> QED
    BY <1>1, SubsetInduction
<1> QED
  BY <1>2

\* Any element may be counted first.
LEMMA TotalTake ==
    ASSUME NEW V, NEW S, IsFiniteSet(S), \A x \in S : V[x] \in Nat, NEW a \in S
    PROVE  Total(V, S) = V[a] + Total(V, S \ {a})
<1> DEFINE G == {s \in SUBSET S : \A x \in s : Total(V, s) = V[x] + Total(V, s \ {x})}
<1>0. \A s \in SUBSET S : IsFiniteSet(s) /\ Total(V, s) \in Nat
  BY FS_Subset, TotalNat
<1>1. ASSUME NEW s \in SUBSET S, \A x \in s : s \ {x} \in G PROVE s \in G
  <2> SUFFICES ASSUME NEW x \in s PROVE Total(V, s) = V[x] + Total(V, s \ {x})
    OBVIOUS
  <2> DEFINE f == First(s)
  <2>1. f \in s /\ Total(V, s) = V[f] + Total(V, s \ {f})
    BY <1>0, FirstIn, TotalStep
  <2> HIDE DEF f
  <2> SUFFICES ASSUME x # f PROVE Total(V, s) = V[x] + Total(V, s \ {x})
    BY <2>1
  <2>2. Total(V, s \ {f}) = V[x] + Total(V, (s \ {f}) \ {x})
    BY <1>1, <2>1
  <2>3. Total(V, s \ {x}) = V[f] + Total(V, (s \ {x}) \ {f})
    BY <1>1, <2>1
  <2>4. (s \ {f}) \ {x} = (s \ {x}) \ {f} /\ (s \ {f}) \ {x} \in SUBSET S
    OBVIOUS
  <2>5. V[x] \in Nat /\ V[f] \in Nat /\ Total(V, (s \ {f}) \ {x}) \in Nat
    BY <1>0, <2>1, <2>4
  <2> QED
    BY <2>1, <2>2, <2>3, <2>4, <2>5
<1>2. \A s \in SUBSET S : s \in G
  <2> HIDE DEF G
  <2> QED
    BY <1>1, SubsetInduction
<1> QED
  BY <1>2

\* Adding a new element, joining disjoint sets, and a sum over a larger set.
LEMMA TotalAdd ==
    ASSUME NEW V, NEW S, IsFiniteSet(S), \A x \in S : V[x] \in Nat,
           NEW a, a \notin S, V[a] \in Nat
    PROVE  Total(V, S \union {a}) = Total(V, S) + V[a]
<1>1. IsFiniteSet(S \union {a}) /\ (S \union {a}) \ {a} = S
  BY FS_AddElement
<1> DEFINE u == S \union {a}
<1>2. a \in u /\ IsFiniteSet(u) /\ u \ {a} = S /\ \A x \in u : V[x] \in Nat
  BY <1>1
<1> HIDE DEF u
<1>3. Total(V, u) = V[a] + Total(V, u \ {a})
  BY <1>2, TotalTake
<1>4. Total(V, S) \in Nat
  BY TotalNat
<1>5. Total(V, u) = Total(V, S) + V[a]
  BY <1>2, <1>3, <1>4
<1> QED
  BY <1>5 DEF u

LEMMA TotalUnion ==
    ASSUME NEW V, NEW S, IsFiniteSet(S), \A x \in S : V[x] \in Nat,
           NEW T, IsFiniteSet(T), \A x \in T : V[x] \in Nat, S \intersect T = {}
    PROVE  Total(V, S \union T) = Total(V, S) + Total(V, T)
<1> DEFINE G == {s \in SUBSET T : Total(V, S \union s) = Total(V, S) + Total(V, s)}
<1>0. \A s \in SUBSET T : /\ IsFiniteSet(s) /\ Total(V, s) \in Nat
                          /\ IsFiniteSet(S \union s) /\ Total(V, S \union s) \in Nat
  <2>1. ASSUME NEW s \in SUBSET T
        PROVE  IsFiniteSet(s) /\ IsFiniteSet(S \union s) /\ \A x \in S \union s : V[x] \in Nat
    BY FS_Subset, FS_Union
  <2> QED
    BY <2>1, TotalNat
<1>1. ASSUME NEW s \in SUBSET T, \A x \in s : s \ {x} \in G PROVE s \in G
  <2>1. Total(V, {}) = 0 /\ Total(V, S) \in Nat
    BY TotalStep, TotalNat
  <2>2. CASE s = {}
    <3>1. S \union s = S
      BY <2>2
    <3> QED
      BY <2>1, <2>2, <3>1
  <2>3. CASE s # {}
    <3>1. PICK a \in s : TRUE
      BY <2>3
    <3> DEFINE u == S \union s
    <3>0. IsFiniteSet(s) /\ IsFiniteSet(u) /\ a \in u /\ \A x \in u : V[x] \in Nat
      BY <1>0
    <3>2. Total(V, s) = V[a] + Total(V, s \ {a})
      BY <3>0, TotalTake
    <3>3. Total(V, S \union s) = V[a] + Total(V, (S \union s) \ {a})
      <4> HIDE DEF u
      <4>1. Total(V, u) = V[a] + Total(V, u \ {a})
        BY <3>0, TotalTake
      <4> QED
        BY <4>1 DEF u
    <3>4. (S \union s) \ {a} = S \union (s \ {a})
      OBVIOUS
    <3>5. Total(V, S \union (s \ {a})) = Total(V, S) + Total(V, s \ {a})
      BY <1>1
    <3>6. V[a] \in Nat /\ Total(V, s \ {a}) \in Nat
      BY <1>0
    <3>7. Total(V, S \union s) = Total(V, S) + Total(V, s)
      BY <2>1, <3>2, <3>3, <3>4, <3>5, <3>6
    <3> QED
      BY <3>7
  <2> QED
    BY <2>2, <2>3
<1>2. \A s \in SUBSET T : s \in G
  <2> HIDE DEF G
  <2> QED
    BY <1>1, SubsetInduction
<1> QED
  BY <1>2

\* Two functions that agree on a set have one sum over it.
LEMMA TotalAgree ==
    ASSUME NEW V, NEW W, NEW S, IsFiniteSet(S), \A x \in S : V[x] = W[x]
    PROVE  Total(V, S) = Total(W, S)
<1> DEFINE G == {s \in SUBSET S : Total(V, s) = Total(W, s)}
<1>1. ASSUME NEW s \in SUBSET S, \A x \in s : s \ {x} \in G PROVE s \in G
  <2>1. IsFiniteSet(s)
    BY FS_Subset
  <2>2. /\ Total(V, {}) = 0 /\ (s # {} => Total(V, s) = V[First(s)] + Total(V, s \ {First(s)}))
        /\ Total(W, {}) = 0 /\ (s # {} => Total(W, s) = W[First(s)] + Total(W, s \ {First(s)}))
    BY <2>1, TotalStep
  <2> QED
    BY <1>1, <2>2, FirstIn
<1>2. \A s \in SUBSET S : s \in G
  <2> HIDE DEF G
  <2> QED
    BY <1>1, SubsetInduction
<1> QED
  BY <1>2

\* One balance written: the sum moves by the difference.
LEMMA SumWritten ==
    ASSUME NEW D, IsFiniteSet(D), NEW f \in [D -> Nat], NEW w \in D, NEW v \in Nat
    PROVE  Sum([f EXCEPT ![w] = v]) = Sum(f) + v - f[w]
<1> DEFINE g == [f EXCEPT ![w] = v]
           R == D \ {w}
<1>1. g \in [D -> Nat] /\ g[w] = v /\ \A x \in R : g[x] = f[x]
  OBVIOUS
<1> HIDE DEF g
<1>2. IsFiniteSet(R) /\ Total(g, R) = Total(f, R) /\ Total(f, R) \in Nat
  BY <1>1, FS_Subset, TotalAgree, TotalNat
<1>3. Total(f, D) = f[w] + Total(f, R) /\ Total(g, D) = g[w] + Total(g, R)
  BY <1>1, TotalTake
<1>4. Sum(g) = Total(g, D) /\ Sum(f) = Total(f, D)
  BY <1>1, SumIsTotal
<1> QED
  BY <1>1, <1>2, <1>3, <1>4 DEF g

LEMMA SumNat ==
    ASSUME NEW D, IsFiniteSet(D), NEW f \in [D -> Nat]
    PROVE  Sum(f) \in Nat
  BY SumIsTotal, TotalNat

\* The whole of a set is worth no less than a part of it.
LEMMA TotalPart ==
    ASSUME NEW V, NEW S, IsFiniteSet(S), \A x \in S : V[x] \in Nat, NEW T \in SUBSET S
    PROVE  /\ Total(V, S) = Total(V, T) + Total(V, S \ T)
           /\ Total(V, T) \in Nat /\ Total(V, S \ T) \in Nat
<1> DEFINE R == S \ T
<1>1. IsFiniteSet(T) /\ IsFiniteSet(R) /\ T \union R = S /\ T \intersect R = {}
  BY FS_Subset
<1>2. (\A x \in T : V[x] \in Nat) /\ \A x \in R : V[x] \in Nat
  OBVIOUS
<1> HIDE DEF R
<1>3. Total(V, T \union R) = Total(V, T) + Total(V, R)
  BY <1>1, <1>2, TotalUnion
<1>4. Total(V, T) \in Nat /\ Total(V, R) \in Nat
  BY <1>1, <1>2, TotalNat
<1> QED
  BY <1>1, <1>3, <1>4 DEF R

-----------------------------------------------------------------------------
(* The notes that can be spent, by generation.                              *)

\* The tag of the note at place i of tree t, with its epoch.
Mark(t, i) ==
    <<t.epoch, [generation |-> t.generation, key |-> Owner[t.notes[i]], position |-> i]>>

OpenIn(p, g) ==
    {cm \in Commitment : \E t \in Trees(p) : \E i \in DOMAIN t.notes :
        t.generation = g /\ t.notes[i] = cm /\ Mark(t, i) \notin p.nullifiers}

\* A commitment is at one place, and a tag is of one place.
LEMMA OnePlace ==
    ASSUME NEW p, Sound(p), NEW s \in Trees(p), NEW t \in Trees(p),
           NEW i \in DOMAIN s.notes, NEW j \in DOMAIN t.notes
    PROVE  /\ s.notes[i] = t.notes[j] => s = t /\ i = j
           /\ Mark(s, i) = Mark(t, j) => s = t /\ i = j
<1>1. ASSUME s.notes[i] = t.notes[j] PROVE s = t /\ i = j
  <2>1. s.notes[i] \in ToSet(s.notes) \intersect ToSet(t.notes)
    BY <1>1 DEF ToSet
  <2>2. s = t /\ IsInjective(s.notes)
    BY <2>1 DEF Sound, OneTreeEach
  <2> QED
    BY <1>1, <2>2 DEF IsInjective
<1>2. ASSUME Mark(s, i) = Mark(t, j) PROVE s = t /\ i = j
  <2>1. s.epoch = t.epoch /\ i = j
    BY <1>2 DEF Mark
  <2> QED
    BY <2>1, TreesNumbered DEF Sound
<1> QED
  BY <1>1, <1>2

LEMMA OpenWhere ==
    ASSUME NEW p, Sound(p), NEW t \in Trees(p), NEW i \in DOMAIN t.notes, NEW g
    PROVE  /\ t.notes[i] \in Commitment /\ t.notes[i] \in Held(p)
           /\ t.notes[i] \in OpenIn(p, g) <=> t.generation = g /\ Mark(t, i) \notin p.nullifiers
<1>1. t.notes[i] \in Commitment
  BY TreeType DEF Sound
<1>2. t.notes[i] \in Held(p)
  BY HeldInTrees DEF Sound, ToSet
<1>3. ASSUME t.notes[i] \in OpenIn(p, g) PROVE t.generation = g /\ Mark(t, i) \notin p.nullifiers
  <2>1. PICK s \in Trees(p) : \E j \in DOMAIN s.notes :
               s.generation = g /\ s.notes[j] = t.notes[i] /\ Mark(s, j) \notin p.nullifiers
    BY <1>3 DEF OpenIn
  <2>2. PICK j \in DOMAIN s.notes :
               s.generation = g /\ s.notes[j] = t.notes[i] /\ Mark(s, j) \notin p.nullifiers
    BY <2>1
  <2>3. s = t /\ j = i
    BY <2>2, OnePlace
  <2> QED
    BY <2>2, <2>3
<1> QED
  BY <1>1, <1>2, <1>3 DEF OpenIn

LEMMA OpenHeld ==
    ASSUME NEW p, Sound(p), NEW g
    PROVE  OpenIn(p, g) \subseteq Held(p) /\ OpenIn(p, g) \subseteq Commitment
<1>1. ASSUME NEW cm \in OpenIn(p, g) PROVE cm \in Held(p)
  <2>1. PICK t \in Trees(p) : \E i \in DOMAIN t.notes : t.notes[i] = cm
    BY DEF OpenIn
  <2> QED
    BY <2>1, OpenWhere
<1> QED
  BY <1>1 DEF OpenIn

\* The tag a root reveals is the mark of the tree it is a beginning of.
LEMMA RootMarks ==
    ASSUME NEW p, Sound(p), NEW t \in Trees(p), NEW r, r[1] = t.generation,
           \A j \in DOMAIN r[2] : j \in DOMAIN t.notes /\ t.notes[j] = r[2][j],
           NEW i \in DOMAIN r[2]
    PROVE  <<t.epoch, NullifierAt(r, r[2][i])>> = Mark(t, i)
<1> DEFINE k == CHOOSE j \in DOMAIN r[2] : r[2][j] = r[2][i]
<1>1. k \in DOMAIN r[2] /\ r[2][k] = r[2][i]
  OBVIOUS
<1> HIDE DEF k
<1>2. k = i
  BY <1>1, OnePlace
<1>3. NullifierAt(r, r[2][i]) = [generation |-> r[1], key |-> Owner[r[2][i]], position |-> k]
  BY DEF NullifierAt, k
<1> QED
  BY <1>2, <1>3 DEF Mark

\* The notes of the properties and the sets of this module.
LEMMA NoteIs ==
    ASSUME NEW p, Sound(p), NEW n \in Notes(p)
    PROVE  \E i \in DOMAIN n.tree.notes :
             /\ n.tree \in Trees(p) /\ n.cm = n.tree.notes[i]
             /\ n.raw = NullifierAt(TreeRoot(n.tree), n.cm)
             /\ <<n.tree.epoch, n.raw>> = Mark(n.tree, i)
<1>0. PICK t \in Trees(p) : \E cm \in ToSet(t.notes) :
             n = [cm |-> cm, tree |-> t, raw |-> NullifierAt(TreeRoot(t), cm)]
  BY DEF Notes
<1>1. PICK cm \in ToSet(t.notes) :
             n = [cm |-> cm, tree |-> t, raw |-> NullifierAt(TreeRoot(t), cm)]
  BY <1>0
<1>2. PICK i \in DOMAIN t.notes : cm = t.notes[i]
  BY DEF ToSet
<1>3. TreeRoot(t)[1] = t.generation /\ TreeRoot(t)[2] = t.notes
  BY DEF TreeRoot
<1>4. <<t.epoch, NullifierAt(TreeRoot(t), t.notes[i])>> = Mark(t, i)
  BY <1>3, RootMarks
<1>5. n.cm = cm /\ n.tree = t /\ n.raw = NullifierAt(TreeRoot(t), cm)
  BY <1>1
<1> QED
  BY <1>2, <1>4, <1>5

LEMMA NoteOf ==
    ASSUME NEW p, Sound(p), NEW t \in Trees(p), NEW i \in DOMAIN t.notes
    PROVE  \E n \in Notes(p) : n.cm = t.notes[i] /\ n.tree = t
<1> DEFINE n == [cm |-> t.notes[i], tree |-> t, raw |-> NullifierAt(TreeRoot(t), t.notes[i])]
<1>1. n \in Notes(p)
  BY DEF Notes, ToSet
<1>2. n.cm = t.notes[i] /\ n.tree = t
  OBVIOUS
<1> QED
  BY <1>1, <1>2

LEMMA UnspentOpen ==
    ASSUME NEW p, Sound(p)
    PROVE  /\ \A g : Commitments({n \in Unspent(p) : n.tree.generation = g}) = OpenIn(p, g)
           /\ Commitments(Unspent(p)) = OpenIn(p, "V1") \union OpenIn(p, "V7")
<1>1. ASSUME NEW n \in Unspent(p) PROVE n.cm \in OpenIn(p, n.tree.generation)
  <2>1. PICK i \in DOMAIN n.tree.notes :
             n.tree \in Trees(p) /\ n.cm = n.tree.notes[i] /\ <<n.tree.epoch, n.raw>> = Mark(n.tree, i)
    BY NoteIs DEF Unspent
  <2>2. Mark(n.tree, i) \notin p.nullifiers
    BY <2>1 DEF Unspent
  <2> QED
    BY <2>1, <2>2, OpenWhere
<1>2. ASSUME NEW g, NEW cm \in OpenIn(p, g)
      PROVE  \E n \in Unspent(p) : n.cm = cm /\ n.tree.generation = g
  <2>0. PICK t \in Trees(p) : \E i \in DOMAIN t.notes :
               t.generation = g /\ t.notes[i] = cm /\ Mark(t, i) \notin p.nullifiers
    BY DEF OpenIn
  <2>1. PICK i \in DOMAIN t.notes :
               t.generation = g /\ t.notes[i] = cm /\ Mark(t, i) \notin p.nullifiers
    BY <2>0
  <2>2. PICK n \in Notes(p) : n.cm = t.notes[i] /\ n.tree = t
    BY NoteOf
  <2>3. PICK j \in DOMAIN t.notes : n.cm = t.notes[j] /\ <<t.epoch, n.raw>> = Mark(t, j)
    BY <2>2, NoteIs
  <2>4. j = i
    <3>1. t.notes[i] = t.notes[j] => i = j
      BY OnePlace
    <3> QED
      BY <2>2, <2>3, <3>1
  <2>5. n \in Unspent(p)
    BY <2>1, <2>2, <2>3, <2>4 DEF Unspent
  <2> QED
    BY <2>1, <2>2, <2>5
<1>3. ASSUME NEW n \in Unspent(p) PROVE n.tree.generation \in Generation
  BY NoteIs, TreeType DEF Unspent, Sound
<1>4. ASSUME NEW g
      PROVE  Commitments({n \in Unspent(p) : n.tree.generation = g}) = OpenIn(p, g)
  BY <1>1, <1>2 DEF Commitments
<1>5. Commitments(Unspent(p)) = OpenIn(p, "V1") \union OpenIn(p, "V7")
  <2>1. ASSUME NEW cm \in Commitments(Unspent(p))
        PROVE  cm \in OpenIn(p, "V1") \union OpenIn(p, "V7")
    BY <1>1, <1>3 DEF Commitments, Generation
  <2>2. ASSUME NEW cm \in OpenIn(p, "V1") \union OpenIn(p, "V7")
        PROVE  cm \in Commitments(Unspent(p))
    BY <1>2 DEF Commitments
  <2> QED
    BY <2>1, <2>2
<1> QED
  BY <1>4, <1>5

-----------------------------------------------------------------------------
(* What a pool keeps beside the trees and the index.                        *)

\* Every recorded tag is of a note.
MarksReal(p) ==
    \A x \in p.nullifiers : \E t \in Trees(p) : \E i \in DOMAIN t.notes : x = Mark(t, i)

\* The window holds a root once, and has its epoch.
WindowKnown(p) == IsInjective(p.anchors) /\ ToSet(p.anchors) \subseteq DOMAIN p.anchor_epoch

Sizes(p) ==
    /\ Len(p.notes) <= Capacity /\ Len(p.v7.notes) <= Capacity
    /\ Len(p.anchors) <= AnchorWindow

\* The generations a build opens.
OfNet(p) == (net = "g2" => ~v7_active(p)) /\ (net = "g3" /\ v7_active(p) => p.v1_closed)

Ready(p) == Sound(p) /\ MarksReal(p) /\ WindowKnown(p) /\ Sizes(p) /\ OfNet(p)

\* From p to q the notes of I in generation g are spent and those of N are new.
Moved(p, q, g, I, N) ==
    /\ I \subseteq OpenIn(p, g) /\ N \subseteq Commitment /\ N \intersect Held(p) = {}
    /\ Held(q) = Held(p) \union N
    /\ \A x \in Generation :
          OpenIn(q, x) = IF x = g THEN (OpenIn(p, g) \ I) \union N ELSE OpenIn(p, x)

SameLocked(p, q) == q.value_locked = p.value_locked /\ q.v7.value_locked = p.v7.value_locked

LEMMA MovedTwice ==
    ASSUME NEW p, NEW q, NEW r, NEW g \in Generation, NEW I, NEW N, NEW M, Sound(p),
           Moved(p, q, g, I, N), Moved(q, r, g, {}, M)
    PROVE  Moved(p, r, g, I, N \union M) /\ N \intersect M = {}
<1>1. I \subseteq Held(p)
  BY OpenHeld DEF Moved
<1>2. N \intersect M = {} /\ M \intersect Held(p) = {}
  BY DEF Moved
<1>3. ASSUME NEW x \in Generation
      PROVE  OpenIn(r, x) = IF x = g THEN (OpenIn(p, g) \ I) \union (N \union M) ELSE OpenIn(p, x)
  <2>1. OpenIn(q, x) = IF x = g THEN (OpenIn(p, g) \ I) \union N ELSE OpenIn(p, x)
    BY DEF Moved
  <2>2. OpenIn(r, x) = IF x = g THEN (OpenIn(q, g) \ {}) \union M ELSE OpenIn(q, x)
    BY DEF Moved
  <2> QED
    BY <2>1, <2>2
<1> QED
  BY <1>2, <1>3 DEF Moved

\* Steps that move no note.
LEMMA NotesKept ==
    ASSUME NEW p, NEW q, Ready(p), Sound(q), MoreTrees(p, q), q.nullifiers = p.nullifiers,
           q.anchors = p.anchors, DOMAIN p.anchor_epoch \subseteq DOMAIN q.anchor_epoch,
           Sizes(q), OfNet(q)
    PROVE  Ready(q) /\ \A g \in Generation : Moved(p, q, g, {}, {})
<1>1. Held(q) = Held(p)
  BY SameHeld DEF Ready, Sound
<1>2. MarksReal(q)
  BY DEF Ready, MarksReal, MoreTrees
<1>3. WindowKnown(q)
  BY DEF Ready, WindowKnown
<1>4. ASSUME NEW g PROVE OpenIn(q, g) = OpenIn(p, g)
  <2>1. \A t \in Trees(q) : t \in Trees(p) \/ DOMAIN t.notes = {}
    BY DEF MoreTrees
  <2>2. Trees(p) \subseteq Trees(q)
    BY DEF MoreTrees
  <2> QED
    BY <2>1, <2>2 DEF OpenIn
<1>5. \A g \in Generation : Moved(p, q, g, {}, {})
  BY <1>1, <1>4 DEF Moved
<1> QED
  BY <1>2, <1>3, <1>5 DEF Ready

\* Rotation, closing and opening a generation.
LEMMA MovedNothing ==
    ASSUME NEW p, NEW q, Ready(p), Sound(q), MoreTrees(p, q), SameBooks(p, q), Sizes(q), OfNet(q)
    PROVE  Ready(q) /\ SameLocked(p, q) /\ \A g \in Generation : Moved(p, q, g, {}, {})
  BY NotesKept DEF SameBooks, SameLocked

LEMMA ReadySizes ==
    ASSUME NEW p, Ready(p)
    PROVE  /\ Capacity \in Nat \ {0} /\ AnchorWindow \in Nat \ {0} /\ Len(<<>>) = 0
           /\ Len(p.notes) \in Nat /\ Len(p.v7.notes) \in Nat /\ Len(p.anchors) \in Nat
  BY PoolAssumption DEF Ready, Sound, IsPool

\* A tree that takes a note has room for it.
LEMMA RotatedReady ==
    ASSUME NEW p, Ready(p), NEW g \in Generation, NEW cm, NEW g3, ~Misfit(p, g, cm, g3)
    PROVE  LET q == RotatedAt(p, g, Capacity)
           IN /\ Ready(q) /\ SameLocked(p, q) /\ Moved(p, q, g, {}, {})
              /\ Len(Live(q, g)) < Capacity
              /\ g = "V7" => v7_active(q)
<1> DEFINE q == RotatedAt(p, g, Capacity)
<1>0. Sound(p) /\ Capacity \in Nat \ {0} /\ Len(<<>>) = 0
      /\ Len(p.notes) \in Nat /\ Len(p.v7.notes) \in Nat
  BY ReadySizes DEF Ready
<1>1. CASE g = "V1" /\ Len(p.notes) >= Capacity
  <2>1. q = rotate_epoch(p) /\ ~p.v1_closed
    BY <1>1 DEF RotatedAt, Misfit
  <2>2. /\ Sound(q) /\ q.v7 = p.v7 /\ q.notes = <<>>
        /\ MoreTrees(p, q) /\ SameBooks(p, q) /\ (v7_active(p) => q.v1_closed)
    BY <1>0, <2>1, RotateEpochSound
  <2> HIDE DEF q
  <2>3. Sizes(q) /\ OfNet(q)
    BY <1>0, <2>2 DEF Ready, Sizes, OfNet, SameBooks, v7_active
  <2> QED
    BY <1>0, <1>1, <2>2, <2>3, MovedNothing DEF Live, q
<1>2. CASE g = "V7" /\ Len(p.v7.notes) >= Capacity
  <2>1. q = rotate_v7(p) /\ v7_active(p)
    BY <1>2 DEF RotatedAt, Misfit
  <2>2. /\ Sound(q) /\ v7_active(q) /\ q.v1_closed /\ q.notes = <<>> /\ q.v7.notes = <<>>
        /\ MoreTrees(p, q) /\ SameBooks(p, q)
    BY <1>0, <2>1, RotateV7Sound
  <2> HIDE DEF q
  <2>3. Sizes(q) /\ OfNet(q)
    BY <1>0, <2>1, <2>2 DEF Ready, Sizes, OfNet, SameBooks
  <2> QED
    BY <1>0, <1>2, <2>2, <2>3, MovedNothing DEF Live, q
<1>3. CASE ~(g = "V1" /\ Len(p.notes) >= Capacity) /\ ~(g = "V7" /\ Len(p.v7.notes) >= Capacity)
  <2>1. q = p
    BY <1>3 DEF RotatedAt
  <2>2. MoreTrees(p, p) /\ SameBooks(p, p)
    BY DEF MoreTrees, SameBooks
  <2>3. SameLocked(p, p) /\ Moved(p, p, g, {}, {})
    BY <2>2, MovedNothing DEF Ready
  <2>4. Len(Live(p, g)) < Capacity
    BY <1>0, <1>3 DEF Live, Generation
  <2>5. g = "V7" => v7_active(p)
    BY DEF Misfit
  <2> QED
    BY <2>1, <2>3, <2>4, <2>5
<1> QED
  BY <1>1, <1>2, <1>3

-----------------------------------------------------------------------------
(* Notes and value.                                                         *)

LEMMA AppendReady ==
    ASSUME NEW p, Ready(p), NEW g \in Generation, NEW cm \in Commitment, Open(p, g),
           Len(Live(p, g)) < Capacity, cm \notin Held(p)
    PROVE  LET q == Appended(p, g, cm)
           IN Ready(q) /\ SameLocked(p, q) /\ Moved(p, q, g, {}, {cm})
<1> DEFINE q == Appended(p, g, cm)
           ns == Live(p, g)
           old == Tree(g, Epoch(p, g), ns)
           new == Tree(g, Epoch(p, g), Append(ns, cm))
           last == Len(ns) + 1
<1>1. Sound(p) /\ Sound(q) /\ Held(q) = Held(p) \union {cm}
  BY AppendedSound DEF Ready
<1>2. AppendedAs(p, q, g, cm)
  BY <1>1, AppendFields DEF Sound
<1>3. q.nullifiers = p.nullifiers /\ SameLocked(p, q)
  BY <1>1 DEF Appended, SameLocked, Sound, IsPool, Fields
<1> HIDE DEF q
<1>4. /\ old \in Trees(p) /\ new \in Trees(q)
      /\ \A t : t \in Trees(q) <=> t = new \/ (t \in Trees(p) /\ t # old)
  BY <1>1, <1>2, AppendedTrees
<1>5. ns \in Seq(Commitment)
  BY <1>1 DEF Sound, IsPool, Live
<1> HIDE DEF ns
<1>6. /\ Len(ns) \in Nat /\ DOMAIN ns = 1 .. Len(ns) /\ last \in Nat
      /\ DOMAIN Append(ns, cm) = 1 .. last /\ Append(ns, cm)[last] = cm
      /\ \A i \in DOMAIN ns : i \in 1 .. last /\ i # last /\ Append(ns, cm)[i] = ns[i]
      /\ \A i \in 1 .. last : i \in DOMAIN ns \/ i = last
  BY <1>5
<1>7. /\ old.notes = ns /\ new.notes = Append(ns, cm) /\ old.generation = g /\ new.generation = g
      /\ old.epoch = new.epoch
  BY DEF Tree
<1> HIDE DEF old, new, last
<1>8. \A i \in DOMAIN ns : Mark(new, i) = Mark(old, i) /\ new.notes[i] = old.notes[i]
  BY <1>6, <1>7 DEF Mark
<1>9. Mark(new, last) \notin p.nullifiers
  <2> SUFFICES ASSUME Mark(new, last) \in p.nullifiers PROVE FALSE
    OBVIOUS
  <2>0. PICK t \in Trees(p) : \E i \in DOMAIN t.notes : Mark(new, last) = Mark(t, i)
    BY DEF Ready, MarksReal
  <2>1. PICK i \in DOMAIN t.notes : Mark(new, last) = Mark(t, i)
    BY <2>0
  <2>2. t.epoch = new.epoch /\ i = last
    BY <2>1 DEF Mark
  <2>3. t = old
    BY <1>1, <1>4, <1>7, <2>2, TreesNumbered DEF Sound
  <2> QED
    BY <1>6, <1>7, <2>2, <2>3
<1>10. MarksReal(q)
  <2> SUFFICES ASSUME NEW x \in p.nullifiers
               PROVE  \E t \in Trees(q) : \E i \in DOMAIN t.notes : x = Mark(t, i)
    BY <1>3 DEF MarksReal
  <2>1. PICK t \in Trees(p) : \E i \in DOMAIN t.notes : x = Mark(t, i)
    BY DEF Ready, MarksReal
  <2>2. CASE t = old
    BY <1>4, <1>6, <1>7, <1>8, <2>1, <2>2
  <2>3. CASE t # old
    BY <1>4, <2>1, <2>3
  <2> QED
    BY <2>2, <2>3
<1>11. WindowKnown(q) /\ OfNet(q)
  BY <1>2 DEF AppendedAs, Ready, WindowKnown, OfNet, v7_active
<1>12. Sizes(q)
  <2>1. Len(Append(ns, cm)) = Len(ns) + 1 /\ Len(ns) + 1 <= Capacity
    BY <1>5, ReadySizes DEF ns
  <2>2. g = "V1" => q.notes = Append(ns, cm) /\ q.v7.notes = p.v7.notes
    BY <1>2 DEF AppendedAs, ns, Live
  <2>3. g = "V7" => q.v7.notes = Append(ns, cm) /\ q.notes = p.notes
    BY <1>2 DEF AppendedAs, ns, Live
  <2>4. q.anchors = p.anchors
    BY <1>2 DEF AppendedAs
  <2> QED
    BY <2>1, <2>2, <2>3, <2>4 DEF Ready, Sizes, Generation
<1>13. ASSUME NEW x \in Generation
       PROVE  OpenIn(q, x) = IF x = g THEN OpenIn(p, x) \union {cm} ELSE OpenIn(p, x)
  <2>1. ASSUME NEW c \in OpenIn(p, x) PROVE c \in OpenIn(q, x)
    <3>0. PICK t \in Trees(p) : \E i \in DOMAIN t.notes :
                 t.generation = x /\ t.notes[i] = c /\ Mark(t, i) \notin p.nullifiers
      BY DEF OpenIn
    <3>1. PICK i \in DOMAIN t.notes :
                 t.generation = x /\ t.notes[i] = c /\ Mark(t, i) \notin p.nullifiers
      BY <3>0
    <3>2. CASE t = old
      <4>1. i \in DOMAIN new.notes /\ new.notes[i] = c /\ new.generation = x
            /\ Mark(new, i) \notin q.nullifiers
        BY <1>3, <1>6, <1>7, <1>8, <3>1, <3>2
      <4> QED
        BY <1>1, <1>4, <4>1, OpenWhere
    <3>3. CASE t # old
      <4>1. t \in Trees(q)
        BY <1>4, <3>3
      <4> QED
        BY <1>1, <1>3, <3>1, <4>1, OpenWhere
    <3> QED
      BY <3>2, <3>3
  <2>2. ASSUME NEW c \in OpenIn(q, x) PROVE c \in OpenIn(p, x) \/ (x = g /\ c = cm)
    <3>0. PICK t \in Trees(q) : \E i \in DOMAIN t.notes :
                 t.generation = x /\ t.notes[i] = c /\ Mark(t, i) \notin q.nullifiers
      BY DEF OpenIn
    <3>1. PICK i \in DOMAIN t.notes :
                 t.generation = x /\ t.notes[i] = c /\ Mark(t, i) \notin q.nullifiers
      BY <3>0
    <3>2. CASE t = new
      <4>1. i \in DOMAIN ns \/ i = last
        BY <1>6, <1>7, <3>1, <3>2
      <4>2. CASE i = last
        BY <1>6, <1>7, <3>1, <3>2, <4>2
      <4>3. CASE i \in DOMAIN ns
        <5>1. i \in DOMAIN old.notes /\ old.notes[i] = c /\ old.generation = x
              /\ Mark(old, i) \notin p.nullifiers
          BY <1>3, <1>7, <1>8, <3>1, <3>2, <4>3
        <5> QED
          BY <1>1, <1>4, <5>1, OpenWhere
      <4> QED
        BY <4>1, <4>2, <4>3
    <3>3. CASE t # new
      <4>1. t \in Trees(p)
        BY <1>4, <3>3
      <4> QED
        BY <1>1, <1>3, <3>1, <4>1, OpenWhere
    <3> QED
      BY <3>2, <3>3
  <2>3. cm \in OpenIn(q, g)
    <3>1. last \in DOMAIN new.notes /\ new.notes[last] = cm
      BY <1>6, <1>7
    <3> QED
      BY <1>1, <1>3, <1>4, <1>7, <1>9, <3>1, OpenWhere
  <2> QED
    BY <2>1, <2>2, <2>3
<1>14. Moved(p, q, g, {}, {cm})
  BY <1>1, <1>13 DEF Moved
<1> QED
  BY <1>1, <1>3, <1>10, <1>11, <1>12, <1>14 DEF Ready, q

LEMMA AppendNoteReady ==
    ASSUME NEW p, Ready(p), NEW g \in Generation, NEW cm \in Commitment, NEW g3,
           append_note_in(p, g, cm, g3).ok
    PROVE  LET q == append_note_in(p, g, cm, g3).pool
           IN Ready(q) /\ SameLocked(p, q) /\ Moved(p, q, g, {}, {cm})
<1> DEFINE turned == RotatedAt(p, g, Capacity)
           q == Appended(turned, g, cm)
           out == append_note_in(p, g, cm, g3)
           no == (g = "V1" /\ turned.v1_closed) \/ has_ever_held(turned, cm)
<1>1. out.ok = TRUE \/ out.ok = FALSE
  BY DEF append_note_in, AppendFresh, Outcome
<1>2. ~Misfit(p, g, cm, g3)
  BY DEF append_note_in, Outcome
<1>3. out = IF no THEN Outcome(FALSE, turned) ELSE Outcome(TRUE, q)
  BY <1>2 DEF append_note_in, AppendFresh
<1>4. ~no /\ out.pool = q
  <2> HIDE DEF no, turned, q
  <2> QED
    BY <1>3 DEF Outcome
<1>5. /\ Ready(turned) /\ SameLocked(p, turned) /\ Moved(p, turned, g, {}, {})
      /\ Len(Live(turned, g)) < Capacity /\ (g = "V7" => v7_active(turned))
  BY <1>2, RotatedReady
<1> HIDE DEF turned, out
<1>6. Open(turned, g) /\ cm \notin Held(turned)
  BY <1>4, <1>5 DEF Open, Generation, has_ever_held, Ready, Sound, SeenIsHeld
<1>7. Ready(q) /\ SameLocked(turned, q) /\ Moved(turned, q, g, {}, {cm})
  BY <1>5, <1>6, AppendReady
<1> HIDE DEF q
<1>8. Moved(p, q, g, {}, {} \union {cm})
  BY <1>5, <1>7, MovedTwice DEF Ready
<1>9. {} \union {cm} = {cm} /\ SameLocked(p, q)
  BY <1>5, <1>7 DEF SameLocked
<1> QED
  BY <1>4, <1>7, <1>8, <1>9 DEF out

LEMMA AppendOutsReady ==
    ASSUME NEW p, Ready(p), NEW g \in Generation, NEW outs,
           outs[1] \in Commitment, outs[2] \in Commitment, AppendOuts(p, g, outs).ok
    PROVE  LET q == AppendOuts(p, g, outs).pool
           IN /\ Ready(q) /\ SameLocked(p, q) /\ Moved(p, q, g, {}, {outs[1], outs[2]})
              /\ outs[1] # outs[2]
<1> DEFINE one == append_note_in(p, g, outs[1], net = "g3")
           two == append_note_in(one.pool, g, outs[2], net = "g3")
<1>1. AppendOuts(p, g, outs) = IF ~one.ok THEN one ELSE two
  BY DEF AppendOuts, AppendNext
<1>2. one.ok /\ two.ok
  <2> HIDE DEF one, two
  <2> QED
    BY <1>1
<1>3. Ready(one.pool) /\ SameLocked(p, one.pool) /\ Moved(p, one.pool, g, {}, {outs[1]})
  BY <1>2, AppendNoteReady
<1> HIDE DEF one
<1>4. Ready(two.pool) /\ SameLocked(one.pool, two.pool) /\ Moved(one.pool, two.pool, g, {}, {outs[2]})
  BY <1>2, <1>3, AppendNoteReady
<1> HIDE DEF two
<1>5. Moved(p, two.pool, g, {}, {outs[1]} \union {outs[2]}) /\ {outs[1]} \intersect {outs[2]} = {}
  BY <1>3, <1>4, MovedTwice DEF Ready
<1>6. {outs[1]} \union {outs[2]} = {outs[1], outs[2]} /\ SameLocked(p, two.pool)
  BY <1>3, <1>4 DEF SameLocked
<1> QED
  BY <1>1, <1>2, <1>4, <1>5, <1>6

\* Value counted, and a pool marked dirty.
LEMMA LockReady ==
    ASSUME NEW p, Ready(p), NEW g \in Generation, NEW v
    PROVE  LET q == AddLocked(p, g, v)
           IN /\ Ready(q) /\ Moved(p, q, g, {}, {})
              /\ \A x \in Generation :
                    value_locked_in(q, x) = IF x = g THEN value_locked_in(p, g) + v
                                                     ELSE value_locked_in(p, x)
<1> DEFINE q == AddLocked(p, g, v)
<1>0. Sound(p) /\ DOMAIN p = Fields /\ DOMAIN p.v7 = {"epoch", "notes", "value_locked"}
  BY DEF Ready, Sound, IsPool
<1>1. Sound(q)
  BY <1>0, BooksSound
<1>2. /\ q.v7.notes = p.v7.notes /\ q.v7.epoch = p.v7.epoch /\ q.nullifiers = p.nullifiers
      /\ q.notes = p.notes /\ q.epoch = p.epoch /\ q.v1_closed = p.v1_closed
      /\ q.archive = p.archive /\ q.anchors = p.anchors /\ q.anchor_epoch = p.anchor_epoch
  BY <1>0 DEF AddLocked, Fields
<1>3. /\ q.value_locked = IF g = "V1" THEN p.value_locked + v ELSE p.value_locked
      /\ q.v7.value_locked = IF g = "V7" THEN p.v7.value_locked + v ELSE p.v7.value_locked
  BY <1>0 DEF AddLocked, Fields
<1> HIDE DEF q
<1>4. MoreTrees(p, q)
  <2>1. Trees(q) = Trees(p)
    BY <1>2 DEF Trees, v7_active
  <2> QED
    BY <2>1 DEF MoreTrees
<1>5. Sizes(q) /\ OfNet(q)
  BY <1>2 DEF Ready, Sizes, OfNet, v7_active
<1>6. Ready(q) /\ Moved(p, q, g, {}, {})
  BY <1>1, <1>2, <1>4, <1>5, NotesKept
<1>7. \A x \in Generation :
         value_locked_in(q, x) = IF x = g THEN value_locked_in(p, g) + v ELSE value_locked_in(p, x)
  BY <1>3 DEF value_locked_in, Generation
<1> QED
  BY <1>6, <1>7 DEF q

LEMMA DirtyReady ==
    ASSUME NEW p, Ready(p), NEW g \in Generation
    PROVE  /\ Ready(Dirty(p)) /\ SameLocked(p, Dirty(p)) /\ Moved(p, Dirty(p), g, {}, {})
           /\ Dirty(p).anchors_dirty = TRUE
<1> DEFINE q == Dirty(p)
<1>0. Sound(p) /\ DOMAIN p = Fields
  BY DEF Ready, Sound, IsPool
<1>1. Sound(q)
  BY <1>0, BooksSound
<1>2. /\ q.v7 = p.v7 /\ q.nullifiers = p.nullifiers /\ q.value_locked = p.value_locked
      /\ q.notes = p.notes /\ q.epoch = p.epoch /\ q.v1_closed = p.v1_closed
      /\ q.archive = p.archive /\ q.anchors = p.anchors /\ q.anchor_epoch = p.anchor_epoch
      /\ q.anchors_dirty = TRUE
  BY <1>0 DEF Dirty, Fields
<1> HIDE DEF q
<1>3. MoreTrees(p, q) /\ SameBooks(p, q)
  <2>1. Trees(q) = Trees(p)
    BY <1>2 DEF Trees, v7_active
  <2> QED
    BY <1>2, <2>1 DEF MoreTrees, SameBooks
<1>4. Sizes(q) /\ OfNet(q)
  BY <1>2 DEF Ready, Sizes, OfNet, v7_active
<1> QED
  BY <1>1, <1>2, <1>3, <1>4, MovedNothing DEF q

-----------------------------------------------------------------------------
(* Spends.                                                                  *)

\* A root with an epoch is the beginning of a tree of that epoch.
LEMMA RootTree ==
    ASSUME NEW p, Ready(p), NEW r, epoch_of_anchor(p, r) # NoEpoch, NEW k \in DOMAIN r[2]
    PROVE  \E t \in Trees(p) :
             /\ t.generation = r[1] /\ t.epoch = epoch_of_anchor(p, r)
             /\ \A i \in DOMAIN r[2] : i \in DOMAIN t.notes /\ t.notes[i] = r[2][i]
<1> DEFINE sealed == {i \in DOMAIN p.archive : SealedRoot(p.archive[i]) = r}
           first == CHOOSE i \in sealed : \A j \in sealed : i <= j
<1>0. Sound(p) /\ WindowKnown(p)
  BY DEF Ready
<1>1. CASE r \in DOMAIN p.anchor_epoch
  <2>1. epoch_of_anchor(p, r) = p.anchor_epoch[r]
    BY <1>1 DEF epoch_of_anchor
  <2>2. Len(r[2]) > 0
    <3>1. r[2] \in Seq(Commitment)
      BY <1>0, <1>1 DEF Sound, IsPool, Root
    <3> QED
      BY <3>1
  <2> QED
    BY <1>0, <1>1, <2>1, <2>2 DEF Sound, EpochsNamed
<1>2. CASE r \notin DOMAIN p.anchor_epoch /\ sealed # {}
  <2>1. epoch_of_anchor(p, r) = first - 1
    BY <1>2 DEF epoch_of_anchor
  <2>2. first \in sealed
    <3>1. DOMAIN p.archive = 1 .. Len(p.archive) /\ Len(p.archive) \in Nat
      BY <1>0 DEF Sound, IsPool
    <3>2. sealed \in SUBSET Nat
      BY <3>1
    <3> HIDE DEF sealed
    <3>3. \E i \in sealed : \A j \in sealed : i <= j
      BY <1>2, <3>2, LeastNumber
    <3> QED
      BY <3>3
  <2>3. first \in DOMAIN p.archive /\ SealedRoot(p.archive[first]) = r
    BY <2>2
  <2> HIDE DEF first
  <2> DEFINE t == Tree(p.archive[first].generation, first - 1, p.archive[first].notes)
  <2>4. t \in Trees(p)
    BY <2>3, TreesAre
  <2>5. t.generation = r[1] /\ t.notes = r[2] /\ t.epoch = first - 1
    BY <2>3 DEF SealedRoot, Tree
  <2> QED
    BY <2>1, <2>4, <2>5
<1>3. CASE r \notin DOMAIN p.anchor_epoch /\ sealed = {}
  <2>1. r \notin ToSet(p.anchors)
    BY <1>0, <1>3 DEF WindowKnown
  <2> QED
    BY <1>3, <2>1 DEF epoch_of_anchor
<1> QED
  BY <1>1, <1>2, <1>3

\* The inputs of m are notes of generation g, their tags are of those places in
\* epoch e, and none is recorded.
SpendsOpen(p, e, g, m) ==
    \A cm \in ToSet(m.pay.ins) : \E t \in Trees(p) : \E i \in DOMAIN t.notes :
        /\ t.notes[i] = cm /\ t.generation = g /\ Mark(t, i) \notin p.nullifiers
        /\ Mark(t, i) = <<e, NullifierAt(m.anchor, cm)>>

LEMMA SpendableOpen ==
    ASSUME NEW s, Ready(s.pool), NEW m, Spendable(s, m)
    PROVE  SpendsOpen(s.pool, epoch_of_anchor(s.pool, m.anchor),
                      generation_of_anchor(s.pool, m.anchor), m)
<1> DEFINE p == s.pool
           r == m.anchor
           e == epoch_of_anchor(p, r)
           g == generation_of_anchor(p, r)
<1> SUFFICES ASSUME NEW cm \in ToSet(m.pay.ins)
             PROVE  \E t \in Trees(p) : \E i \in DOMAIN t.notes :
                      /\ t.notes[i] = cm /\ t.generation = g /\ Mark(t, i) \notin p.nullifiers
                      /\ Mark(t, i) = <<e, NullifierAt(r, cm)>>
  BY DEF SpendsOpen
<1>1. e # NoEpoch /\ g = r[1] /\ cm \in ToSet(r[2])
  BY DEF Spendable, Proves
<1>2. <<e, NullifierAt(r, cm)>> \notin p.nullifiers
  BY DEF Spendable, is_spent_in_epoch, scoped_nullifier, Nullifiers
<1> HIDE DEF e, g, p, r
<1>3. PICK i \in DOMAIN r[2] : r[2][i] = cm
  BY <1>1 DEF ToSet
<1>4. Ready(p) /\ Sound(p)
  BY DEF p, Ready
<1>5. PICK t \in Trees(p) :
             /\ t.generation = r[1] /\ t.epoch = e
             /\ \A j \in DOMAIN r[2] : j \in DOMAIN t.notes /\ t.notes[j] = r[2][j]
  BY <1>1, <1>3, <1>4, RootTree DEF e
<1>6. <<t.epoch, NullifierAt(r, r[2][i])>> = Mark(t, i)
  BY <1>4, <1>5, RootMarks
<1> QED
  BY <1>1, <1>2, <1>3, <1>5, <1>6

LEMMA BurnReady ==
    ASSUME NEW p, Ready(p), NEW e, NEW g \in Generation, NEW m, SpendsOpen(p, e, g, m)
    PROVE  LET q == Burn(p, e, m)
           IN Ready(q) /\ SameLocked(p, q) /\ Moved(p, q, g, ToSet(m.pay.ins), {})
<1> DEFINE q == Burn(p, e, m)
           I == ToSet(m.pay.ins)
           B == {<<e, NullifierAt(m.anchor, cm)>> : cm \in I}
<1>0. Sound(p) /\ DOMAIN p = Fields
  BY DEF Ready, Sound, IsPool
<1>1. Sound(q)
  BY <1>0, BurnSound
<1>2. q = [p EXCEPT !.nullifiers = @ \union B]
  BY DEF Burn, scoped_nullifier, Nullifiers
<1>3. /\ q.v7 = p.v7 /\ q.value_locked = p.value_locked
      /\ q.notes = p.notes /\ q.epoch = p.epoch /\ q.v1_closed = p.v1_closed
      /\ q.archive = p.archive /\ q.anchors = p.anchors /\ q.anchor_epoch = p.anchor_epoch
      /\ q.nullifiers = p.nullifiers \union B
  <2> HIDE DEF q, B
  <2> QED
    BY <1>0, <1>2 DEF Fields
<1> HIDE DEF q
<1>4. Trees(q) = Trees(p) /\ Held(q) = Held(p)
  BY <1>3 DEF Trees, v7_active, Held
<1>5. \A x \in B : \E t \in Trees(p) : \E i \in DOMAIN t.notes : t.notes[i] \in I /\ x = Mark(t, i)
  BY DEF SpendsOpen
<1>6. \A cm \in I : \E t \in Trees(p) : \E i \in DOMAIN t.notes :
         t.notes[i] = cm /\ t.generation = g /\ Mark(t, i) \notin p.nullifiers /\ Mark(t, i) \in B
  BY DEF SpendsOpen
<1> HIDE DEF I, B
<1>7. MarksReal(q)
  BY <1>3, <1>4, <1>5 DEF Ready, MarksReal
<1>8. WindowKnown(q) /\ Sizes(q) /\ OfNet(q)
  BY <1>3 DEF Ready, WindowKnown, Sizes, OfNet, v7_active
<1>9. ASSUME NEW cm \in I
      PROVE  cm \in OpenIn(p, g) /\ \A x : cm \notin OpenIn(q, x)
  <2>0. PICK t \in Trees(p) : \E i \in DOMAIN t.notes :
         t.notes[i] = cm /\ t.generation = g /\ Mark(t, i) \notin p.nullifiers /\ Mark(t, i) \in B
    BY <1>6
  <2>1. PICK i \in DOMAIN t.notes :
         t.notes[i] = cm /\ t.generation = g /\ Mark(t, i) \notin p.nullifiers /\ Mark(t, i) \in B
    BY <2>0
  <2>2. Mark(t, i) \in q.nullifiers /\ t \in Trees(q)
    BY <1>3, <1>4, <2>1
  <2> QED
    BY <1>0, <1>1, <2>1, <2>2, OpenWhere
<1>10. ASSUME NEW x, NEW cm, cm \notin I PROVE cm \in OpenIn(p, x) <=> cm \in OpenIn(q, x)
  <2>1. ASSUME cm \in OpenIn(p, x) PROVE cm \in OpenIn(q, x)
    <3>0. PICK t \in Trees(p) : \E i \in DOMAIN t.notes :
               t.generation = x /\ t.notes[i] = cm /\ Mark(t, i) \notin p.nullifiers
      BY <2>1 DEF OpenIn
    <3>1. PICK i \in DOMAIN t.notes :
               t.generation = x /\ t.notes[i] = cm /\ Mark(t, i) \notin p.nullifiers
      BY <3>0
    <3>2. Mark(t, i) \notin B
      <4> SUFFICES ASSUME Mark(t, i) \in B PROVE FALSE
        OBVIOUS
      <4>0. PICK u \in Trees(p) : \E j \in DOMAIN u.notes :
                 u.notes[j] \in I /\ Mark(t, i) = Mark(u, j)
        BY <1>5
      <4>1. PICK j \in DOMAIN u.notes : u.notes[j] \in I /\ Mark(t, i) = Mark(u, j)
        BY <4>0
      <4>2. t = u /\ i = j
        BY <1>0, <4>1, OnePlace
      <4> QED
        BY <1>10, <3>1, <4>1, <4>2
    <3> QED
      BY <1>1, <1>3, <1>4, <3>1, <3>2, OpenWhere
  <2>2. OpenIn(q, x) \subseteq OpenIn(p, x)
    BY <1>3, <1>4 DEF OpenIn
  <2> QED
    BY <2>1, <2>2
<1>11. ASSUME NEW x \in Generation
       PROVE  OpenIn(q, x) = IF x = g THEN (OpenIn(p, g) \ I) \union {} ELSE OpenIn(p, x)
  <2>1. CASE x = g
    BY <1>9, <1>10, <2>1
  <2>2. CASE x # g
    <3>1. \A cm \in I : cm \notin OpenIn(p, x)
      <4> SUFFICES ASSUME NEW cm \in I, cm \in OpenIn(p, x) PROVE FALSE
        OBVIOUS
      <4>0. PICK t \in Trees(p) : \E i \in DOMAIN t.notes : t.notes[i] = cm /\ t.generation = g
        BY <1>6
      <4>1. PICK i \in DOMAIN t.notes : t.notes[i] = cm /\ t.generation = g
        BY <4>0
      <4> QED
        BY <1>0, <2>2, <4>1, OpenWhere
    <3> QED
      BY <1>9, <1>10, <2>2, <3>1
  <2> QED
    BY <2>1, <2>2
<1>12. Moved(p, q, g, I, {})
  BY <1>4, <1>9, <1>11 DEF Moved
<1>13. Ready(q) /\ SameLocked(p, q)
  BY <1>1, <1>3, <1>7, <1>8 DEF Ready, SameLocked
<1> QED
  BY <1>12, <1>13 DEF q, I

-----------------------------------------------------------------------------
(* Books.                                                                   *)

LEMMA WorthAdds ==
    ASSUME NEW S \in SUBSET Commitment
    PROVE  /\ Worth(S) \in Nat /\ Worth({}) = 0
           /\ \A T \in SUBSET S : Worth(S) = Worth(T) + Worth(S \ T)
           /\ \A T \in SUBSET Commitment :
                 S \intersect T = {} => Worth(S \union T) = Worth(S) + Worth(T)
           /\ \A cm \in Commitment : Worth({cm}) = Value[cm]
<1>1. \A T \in SUBSET Commitment : IsFiniteSet(T) /\ \A x \in T : Value[x] \in Nat
  BY PoolAssumption, FS_Subset
<1>2. \A T : Worth(T) = Total(Value, T)
  BY WorthIsTotal
<1>3. Worth(S) \in Nat
  BY <1>1, <1>2, TotalNat
<1>4. Worth({}) = 0
  BY <1>1, <1>2, TotalStep
<1>5. ASSUME NEW T \in SUBSET S PROVE Worth(S) = Worth(T) + Worth(S \ T)
  <2>1. IsFiniteSet(S) /\ \A x \in S : Value[x] \in Nat
    BY <1>1
  <2>2. Total(Value, S) = Total(Value, T) + Total(Value, S \ T)
    BY <2>1, TotalPart
  <2> QED
    BY <1>2, <2>2
<1>6. ASSUME NEW T \in SUBSET Commitment, S \intersect T = {}
      PROVE  Worth(S \union T) = Worth(S) + Worth(T)
  BY <1>1, <1>2, <1>6, TotalUnion
<1>7. ASSUME NEW cm \in Commitment PROVE Worth({cm}) = Value[cm]
  <2>1. IsFiniteSet({cm}) /\ \A x \in {cm} : Value[x] \in Nat
    BY <1>1
  <2>2. Total(Value, {cm}) = Value[cm] + Total(Value, {cm} \ {cm})
    BY <2>1, TotalTake
  <2>3. {cm} \ {cm} = {} /\ Value[cm] \in Nat
    BY PoolAssumption
  <2> QED
    BY <1>2, <1>4, <2>2, <2>3
<1> QED
  BY <1>3, <1>4, <1>5, <1>6, <1>7

\* The value counted into a generation is the worth of its notes.
Booked(p) == \A g \in Generation : value_locked_in(p, g) = Worth(OpenIn(p, g))

LEMMA BookedNat ==
    ASSUME NEW p, Booked(p)
    PROVE  /\ p.value_locked \in Nat /\ p.v7.value_locked \in Nat /\ value_locked(p) \in Nat
           /\ value_locked(p) = value_locked_in(p, "V1") + value_locked_in(p, "V7")
           /\ \A g \in Generation : value_locked_in(p, g) \in Nat
<1>1. \A g \in Generation : value_locked_in(p, g) \in Nat
  <2> SUFFICES ASSUME NEW g \in Generation PROVE value_locked_in(p, g) \in Nat
    OBVIOUS
  <2>1. OpenIn(p, g) \in SUBSET Commitment
    BY DEF OpenIn
  <2> QED
    BY <2>1, WorthAdds DEF Booked
<1>2. value_locked_in(p, "V1") = p.value_locked /\ value_locked_in(p, "V7") = p.v7.value_locked
  BY DEF value_locked_in
<1>3. p.value_locked \in Nat /\ p.v7.value_locked \in Nat
  BY <1>1, <1>2 DEF Generation
<1> QED
  BY <1>1, <1>2, <1>3 DEF value_locked

\* Books that follow the notes stay right.
LEMMA Rebooked ==
    ASSUME NEW p, Sound(p), Booked(p), NEW q, NEW g \in Generation, NEW I, NEW N,
           Moved(p, q, g, I, N),
           \A x \in Generation :
              value_locked_in(q, x) = IF x = g THEN value_locked_in(p, g) + Worth(N) - Worth(I)
                                               ELSE value_locked_in(p, x)
    PROVE  /\ Booked(q) /\ value_locked(q) = value_locked(p) + Worth(N) - Worth(I)
           /\ Worth(N) \in Nat /\ Worth(I) \in Nat
<1> DEFINE O == OpenIn(p, g)
           R == O \ I
<1>1. /\ O \in SUBSET Commitment /\ O \subseteq Held(p) /\ I \in SUBSET O
      /\ N \in SUBSET Commitment /\ R \intersect N = {}
  BY OpenHeld DEF Moved
<1> HIDE DEF O
<1>2. Worth(O) = Worth(I) + Worth(R)
  BY <1>1, WorthAdds
<1>3. R \in SUBSET Commitment /\ I \in SUBSET Commitment
  BY <1>1
<1> HIDE DEF R
<1>4. Worth(R \union N) = Worth(R) + Worth(N)
  BY <1>1, <1>3, WorthAdds
<1>5. Worth(R) \in Nat /\ Worth(N) \in Nat /\ Worth(I) \in Nat
  BY <1>1, <1>3, WorthAdds
<1>6. OpenIn(q, g) = R \union N /\ value_locked_in(p, g) = Worth(O)
  BY DEF Moved, Booked, R, O
<1>7. value_locked_in(q, g) = Worth(OpenIn(q, g))
  BY <1>2, <1>4, <1>5, <1>6
<1>8. \A x \in Generation : x # g => OpenIn(q, x) = OpenIn(p, x)
  BY DEF Moved
<1>9. Booked(q)
  BY <1>7, <1>8 DEF Booked
<1>10. value_locked(q) = value_locked(p) + Worth(N) - Worth(I)
  <2>1. \A x \in Generation : value_locked_in(p, x) \in Nat /\ value_locked_in(q, x) \in Nat
    BY <1>9, BookedNat
  <2>2. value_locked(p) = value_locked_in(p, "V1") + value_locked_in(p, "V7")
        /\ value_locked(q) = value_locked_in(q, "V1") + value_locked_in(q, "V7")
    BY <1>9, BookedNat
  <2> QED
    BY <1>5, <2>1, <2>2 DEF Generation
<1> QED
  BY <1>5, <1>9, <1>10

LEMMA OpenApart ==
    ASSUME NEW p, Sound(p)
    PROVE  OpenIn(p, "V1") \intersect OpenIn(p, "V7") = {}
<1> SUFFICES ASSUME NEW cm \in OpenIn(p, "V1"), cm \in OpenIn(p, "V7") PROVE FALSE
  OBVIOUS
<1>1. PICK t \in Trees(p) : \E i \in DOMAIN t.notes : t.notes[i] = cm /\ t.generation = "V1"
  BY DEF OpenIn
<1>2. PICK i \in DOMAIN t.notes : t.notes[i] = cm /\ t.generation = "V1"
  BY <1>1
<1> QED
  BY <1>1, <1>2, OpenWhere

Opens(p) == OpenIn(p, "V1") \union OpenIn(p, "V7")

LEMMA OpensWorth ==
    ASSUME NEW p, Sound(p), Booked(p)
    PROVE  Worth(Opens(p)) = value_locked(p) /\ Opens(p) \subseteq Held(p) /\ Opens(p) \subseteq Commitment
<1>1. OpenIn(p, "V1") \in SUBSET Commitment /\ OpenIn(p, "V7") \in SUBSET Commitment
  BY DEF OpenIn
<1>2. Worth(Opens(p)) = Worth(OpenIn(p, "V1")) + Worth(OpenIn(p, "V7"))
  BY <1>1, OpenApart, WorthAdds DEF Opens
<1>3. "V1" \in Generation /\ "V7" \in Generation
  BY DEF Generation
<1> QED
  BY <1>1, <1>2, <1>3, BookedNat, OpenHeld DEF Opens, Booked

\* All notes together: those of I spent, those of N new.
Passed(p, q, I, N) ==
    /\ N \intersect Held(p) = {} /\ Held(q) = Held(p) \union N
    /\ Opens(q) = (Opens(p) \ I) \union N

LEMMA MovedPassed ==
    ASSUME NEW p, Sound(p), NEW q, NEW g \in Generation, NEW I, NEW N, Moved(p, q, g, I, N)
    PROVE  Passed(p, q, I, N)
<1>1. "V1" \in Generation /\ "V7" \in Generation /\ (g = "V1" \/ g = "V7")
  BY DEF Generation
<1>2. OpenIn(p, "V1") \intersect OpenIn(p, "V7") = {}
  BY OpenApart
<1>3. /\ OpenIn(q, "V1") = IF "V1" = g THEN (OpenIn(p, g) \ I) \union N ELSE OpenIn(p, "V1")
      /\ OpenIn(q, "V7") = IF "V7" = g THEN (OpenIn(p, g) \ I) \union N ELSE OpenIn(p, "V7")
      /\ I \subseteq OpenIn(p, g)
  BY <1>1 DEF Moved
<1>4. Opens(q) = (Opens(p) \ I) \union N
  BY <1>1, <1>2, <1>3 DEF Opens
<1> QED
  BY <1>4 DEF Passed, Moved

-----------------------------------------------------------------------------
(* Balances.                                                                *)

Money(s) ==
    /\ s.bal \in [Wallet -> Nat] /\ s.native_supply = Sum(s.bal)
    /\ s.master \in Wallet \union {NoMaster}
    /\ s.minted \in Nat /\ s.burned \in Nat

\* A state whose coin is all accounted for.
Solid(s) ==
    /\ SoundState(s) /\ Money(s) /\ Ready(s.pool) /\ Booked(s.pool)
    /\ s.minted = Sum(s.bal) + value_locked(s.pool) + s.burned

LEMMA MoneyNat ==
    ASSUME NEW s, Money(s)
    PROVE  Sum(s.bal) \in Nat /\ s.native_supply \in Nat /\ \A w \in Wallet : s.bal[w] \in Nat
  BY LedgerAssumption, SumNat DEF Money

LEMMA BalanceWritten ==
    ASSUME NEW s, SoundState(s), Money(s), NEW w \in Wallet, NEW v \in Nat
    PROVE  LET t == set_balance(s, w, v)
           IN /\ Money(t) /\ Sum(t.bal) = Sum(s.bal) + v - s.bal[w]
              /\ t.pool = s.pool /\ t.minted = s.minted /\ t.burned = s.burned
              /\ t.master = s.master /\ t.events = s.events
<1> DEFINE t == set_balance(s, w, v)
<1>1. DOMAIN s = {"bal", "native_supply", "master", "pool", "events", "minted", "burned"}
  BY DEF SoundState
<1>2. /\ t.bal = [s.bal EXCEPT ![w] = v] /\ t.native_supply = s.native_supply + v - s.bal[w]
      /\ t.pool = s.pool /\ t.minted = s.minted /\ t.burned = s.burned
      /\ t.master = s.master /\ t.events = s.events
  BY <1>1 DEF set_balance
<1> HIDE DEF t
<1>3. t.bal \in [Wallet -> Nat]
  BY <1>2 DEF Money
<1>4. Sum(t.bal) = Sum(s.bal) + v - s.bal[w]
  <2>1. IsFiniteSet(Wallet) /\ s.bal \in [Wallet -> Nat]
    BY LedgerAssumption DEF Money
  <2>2. Sum([s.bal EXCEPT ![w] = v]) = Sum(s.bal) + v - s.bal[w]
    BY <2>1, SumWritten
  <2> QED
    BY <1>2, <2>2
<1>5. Money(t)
  BY <1>2, <1>3, <1>4 DEF Money
<1> QED
  BY <1>2, <1>4, <1>5 DEF t

LEMMA Credited ==
    ASSUME NEW s, SoundState(s), Money(s), NEW w \in Wallet, NEW v \in Nat
    PROVE  LET t == credit(s, w, v)
           IN /\ Money(t) /\ Sum(t.bal) = Sum(s.bal) + v
              /\ t.pool = s.pool /\ t.minted = s.minted /\ t.burned = s.burned
              /\ t.master = s.master /\ t.events = s.events
<1>1. s.bal[w] \in Nat /\ s.bal[w] + v \in Nat /\ Sum(s.bal) \in Nat
  BY MoneyNat
<1> DEFINE t == set_balance(s, w, s.bal[w] + v)
<1>2. /\ Money(t) /\ Sum(t.bal) = Sum(s.bal) + (s.bal[w] + v) - s.bal[w]
      /\ t.pool = s.pool /\ t.minted = s.minted /\ t.burned = s.burned
      /\ t.master = s.master /\ t.events = s.events
  BY <1>1, BalanceWritten
<1>3. credit(s, w, v) = t
  BY DEF credit
<1> HIDE DEF t
<1>4. Sum(t.bal) = Sum(s.bal) + v
  BY <1>1, <1>2
<1> QED
  BY <1>2, <1>3, <1>4

LEMMA PooledMoney ==
    ASSUME NEW s, SoundState(s), Money(s), NEW p, Sound(p)
    PROVE  LET t == InPool(s, p)
           IN /\ SoundState(t) /\ Money(t) /\ t.pool = p /\ t.bal = s.bal
              /\ t.minted = s.minted /\ t.burned = s.burned
              /\ t.master = s.master /\ t.events = s.events /\ t.native_supply = s.native_supply
  BY BalancesAside DEF SoundState, InPool, Money

-----------------------------------------------------------------------------
(* Payments.                                                                *)

\* A payment as a wallet of this build may send it.
IsOffer(m) == m.op \in PoolOp /\ m.pay \in Payments[net] /\ m.pay.op = m.op

LEMMA OfferIs ==
    ASSUME net \in Networks, NEW m, IsOffer(m)
    PROVE  /\ m.pay.amount \in Nat /\ m.pay.wallet \in Wallet /\ ToSet(m.pay.ins) \subseteq Commitment
           /\ m.pay.outs[1] \in Commitment
           /\ m.op = "Shield" => /\ ToSet(m.pay.outs) = {m.pay.outs[1]}
                                 /\ Worth(ToSet(m.pay.outs)) = m.pay.amount
           /\ m.op # "Shield" => /\ m.pay.outs[2] \in Commitment
                                 /\ ToSet(m.pay.outs) = {m.pay.outs[1], m.pay.outs[2]}
<1> DEFINE o == m.pay.outs
<1>1. /\ o \in Seq(Commitment) /\ Len(o) = (IF m.op = "Shield" THEN 1 ELSE 2)
      /\ m.pay.ins \in Seq(Commitment) /\ m.pay.amount \in Nat /\ m.pay.wallet \in Wallet
      /\ m.op = "Shield" => Value[o[1]] = m.pay.amount
  BY LedgerAssumption DEF IsOffer
<1>2. ToSet(m.pay.ins) \subseteq Commitment
  BY <1>1 DEF ToSet
<1> HIDE DEF o
<1>3. DOMAIN o = 1 .. Len(o) /\ \A i \in DOMAIN o : o[i] \in Commitment
  <2>1. o \in Seq(Commitment)
    BY <1>1
  <2> QED
    BY <2>1
<1>4. ASSUME m.op = "Shield"
      PROVE  o[1] \in Commitment /\ ToSet(o) = {o[1]} /\ Worth(ToSet(o)) = m.pay.amount
  <2>1. DOMAIN o = {1}
    BY <1>1, <1>3, <1>4
  <2>2. o[1] \in Commitment /\ ToSet(o) = {o[1]}
    BY <1>3, <2>1 DEF ToSet
  <2>3. {} \in SUBSET Commitment
    OBVIOUS
  <2> QED
    BY <1>1, <1>4, <2>2, <2>3, WorthAdds
<1>5. ASSUME m.op # "Shield"
      PROVE  o[1] \in Commitment /\ o[2] \in Commitment /\ ToSet(o) = {o[1], o[2]}
  <2>1. DOMAIN o = {1, 2}
    BY <1>1, <1>3, <1>5
  <2> QED
    BY <1>3, <2>1 DEF ToSet
<1> QED
  BY <1>1, <1>2, <1>4, <1>5 DEF o

LEMMA MovedAfter ==
    ASSUME NEW p, NEW q, NEW r, NEW g \in Generation, NEW I, NEW N,
           Moved(p, q, g, {}, {}), Moved(q, r, g, I, N)
    PROVE  Moved(p, r, g, I, N)
<1>1. Held(q) = Held(p) /\ \A x \in Generation : OpenIn(q, x) = OpenIn(p, x)
  BY DEF Moved
<1> QED
  BY <1>1 DEF Moved

LEMMA LockedAlike ==
    ASSUME NEW p, NEW q, SameLocked(p, q)
    PROVE  \A x : value_locked_in(q, x) = value_locked_in(p, x)
  BY DEF SameLocked, value_locked_in

\* The notes of I become those of N, and value v comes in.
Exchanged(p, q, I, N, v) ==
    /\ Ready(q) /\ Booked(q) /\ Passed(p, q, I, N) /\ q.anchors_dirty = TRUE
    /\ value_locked(q) = value_locked(p) + v

\* The value follows the notes.
LEMMA LockAfter ==
    ASSUME NEW p, Ready(p), Booked(p), NEW q, Ready(q), NEW g \in Generation, NEW I, NEW N,
           SameLocked(p, q), Moved(p, q, g, I, N), NEW v, v = Worth(N) - Worth(I)
    PROVE  Exchanged(p, Dirty(AddLocked(q, g, v)), I, N, v)
<1> DEFINE u == AddLocked(q, g, v)
           t == Dirty(u)
<1>1. /\ Ready(u) /\ Moved(q, u, g, {}, {})
      /\ \A x \in Generation :
            value_locked_in(u, x) = IF x = g THEN value_locked_in(q, g) + v ELSE value_locked_in(q, x)
  BY LockReady
<1> HIDE DEF u
<1>2. Ready(t) /\ SameLocked(u, t) /\ Moved(u, t, g, {}, {}) /\ t.anchors_dirty = TRUE
  BY <1>1, DirtyReady
<1> HIDE DEF t
<1>3. Sound(p)
  BY DEF Ready
<1>4. Moved(p, u, g, I, N \union {})
  BY <1>1, <1>3, MovedTwice
<1>5. N \union {} = N
  OBVIOUS
<1>6. Moved(p, t, g, I, N \union {})
  BY <1>2, <1>3, <1>4, <1>5, MovedTwice
<1>7. Moved(p, t, g, I, N)
  BY <1>5, <1>6
<1>8. \A x \in Generation :
         value_locked_in(t, x) = IF x = g THEN value_locked_in(p, g) + v ELSE value_locked_in(p, x)
  BY <1>1, <1>2, LockedAlike
<1>9. N \in SUBSET Commitment /\ I \in SUBSET Commitment
  BY <1>3, <1>7, OpenHeld DEF Moved
<1>10. Worth(N) \in Nat /\ Worth(I) \in Nat
  BY <1>9, WorthAdds
<1>11. value_locked_in(p, g) \in Nat
  BY BookedNat
<1>12. \A x \in Generation :
          value_locked_in(t, x) = IF x = g THEN value_locked_in(p, g) + Worth(N) - Worth(I)
                                           ELSE value_locked_in(p, x)
  BY <1>8, <1>10, <1>11
<1>13. Booked(t) /\ value_locked(t) = value_locked(p) + Worth(N) - Worth(I)
  BY <1>3, <1>7, <1>12, Rebooked
<1>14. value_locked(p) \in Nat
  BY BookedNat
<1>15. value_locked(t) = value_locked(p) + v
  BY <1>10, <1>13, <1>14
<1>16. Passed(p, t, I, N)
  BY <1>3, <1>7, MovedPassed
<1> QED
  BY <1>2, <1>13, <1>15, <1>16 DEF Exchanged, u, t

\* The notes follow the value.
LEMMA LockBefore ==
    ASSUME NEW p, Ready(p), Booked(p), NEW v, NEW g \in Generation, NEW q, Ready(q), NEW I, NEW N,
           SameLocked(AddLocked(p, g, v), q), Moved(AddLocked(p, g, v), q, g, I, N),
           v = Worth(N) - Worth(I)
    PROVE  Exchanged(p, Dirty(q), I, N, v)
<1> DEFINE u == AddLocked(p, g, v)
           t == Dirty(q)
<1>1. /\ Ready(u) /\ Moved(p, u, g, {}, {})
      /\ \A x \in Generation :
            value_locked_in(u, x) = IF x = g THEN value_locked_in(p, g) + v ELSE value_locked_in(p, x)
  BY LockReady
<1>2. SameLocked(u, q) /\ Moved(u, q, g, I, N)
  OBVIOUS
<1> HIDE DEF u
<1>3. Ready(t) /\ SameLocked(q, t) /\ Moved(q, t, g, {}, {}) /\ t.anchors_dirty = TRUE
  BY DirtyReady
<1> HIDE DEF t
<1>4. Sound(p) /\ Sound(u)
  BY <1>1 DEF Ready
<1>5. Moved(p, q, g, I, N)
  BY <1>1, <1>2, MovedAfter
<1>6. Moved(p, t, g, I, N \union {}) /\ N \union {} = N
  BY <1>3, <1>4, <1>5, MovedTwice
<1>7. Moved(p, t, g, I, N)
  BY <1>6
<1>8. \A x \in Generation :
         value_locked_in(t, x) = IF x = g THEN value_locked_in(p, g) + v ELSE value_locked_in(p, x)
  BY <1>1, <1>2, <1>3, LockedAlike
<1>9. N \in SUBSET Commitment /\ I \in SUBSET Commitment
  BY <1>4, <1>7, OpenHeld DEF Moved
<1>10. Worth(N) \in Nat /\ Worth(I) \in Nat
  BY <1>9, WorthAdds
<1>11. value_locked_in(p, g) \in Nat
  BY BookedNat
<1>12. \A x \in Generation :
          value_locked_in(t, x) = IF x = g THEN value_locked_in(p, g) + Worth(N) - Worth(I)
                                           ELSE value_locked_in(p, x)
  BY <1>8, <1>10, <1>11
<1>13. Booked(t) /\ value_locked(t) = value_locked(p) + Worth(N) - Worth(I)
  BY <1>4, <1>7, <1>12, Rebooked
<1>14. value_locked(p) \in Nat
  BY BookedNat
<1>15. value_locked(t) = value_locked(p) + v
  BY <1>10, <1>13, <1>14
<1>16. Passed(p, t, I, N)
  BY <1>4, <1>7, MovedPassed
<1> QED
  BY <1>3, <1>13, <1>15, <1>16 DEF Exchanged, t

\* A payment that took effect.
Paid(s, t, m) ==
    /\ Solid(t) /\ t.pool.anchors_dirty = TRUE
    /\ \E I : (I = {} \/ I = ToSet(m.pay.ins)) /\ Passed(s.pool, t.pool, I, ToSet(m.pay.outs))
              /\ (m.op = "Shield" => I = {})
    /\ t.minted = s.minted /\ s.burned <= t.burned

\* Coin and notes make up for each other.
LEMMA PaidUp ==
    ASSUME NEW s, Solid(s), NEW m, NEW I, I = ToSet(m.pay.ins) \/ I = {},
           m.op = "Shield" => I = {}, NEW v \in Int, NEW q,
           Exchanged(s.pool, q, I, ToSet(m.pay.outs), v),
           NEW t, SoundState(t), Money(t), t.pool = q, t.minted = s.minted,
           s.burned <= t.burned, Sum(t.bal) + t.burned = Sum(s.bal) + s.burned - v
    PROVE  Paid(s, t, m)
<1>1. Sum(t.bal) \in Nat /\ Sum(s.bal) \in Nat /\ t.burned \in Nat /\ s.burned \in Nat
  BY MoneyNat DEF Solid, Money
<1>2. value_locked(s.pool) \in Nat /\ value_locked(q) = value_locked(s.pool) + v
  BY BookedNat DEF Solid, Exchanged
<1>3. t.minted = Sum(t.bal) + value_locked(t.pool) + t.burned
  BY <1>1, <1>2 DEF Solid
<1> QED
  BY <1>3 DEF Paid, Exchanged, Solid

LEMMA ShieldBooks ==
    ASSUME net \in Networks, NEW s, Solid(s), NEW m, IsOffer(m), m.op = "Shield", Shield(s, m).ok
    PROVE  Paid(s, Shield(s, m).state, m)
<1> DEFINE p == s.pool
           cm == m.pay.outs[1]
           w == m.pay.wallet
           v == m.pay.amount
           g == DepositGeneration(p, cm)
           added == append_note_in(p, g, cm, net = "g3")
           q == Dirty(lock_value_in(added.pool, g, v))
           u == InPool(s, q)
           t == set_balance(u, w, s.bal[w] - v)
           refused == v \notin Denomination \/ s.bal[w] < v \/ g = "refused"
<1>1. Shield(s, m) =
        IF refused THEN Result(FALSE, s)
        ELSE IF ~added.ok THEN Result(FALSE, InPool(s, added.pool)) ELSE Result(TRUE, t)
  BY DEF Shield, Deposited
<1>2. /\ v \in Nat /\ w \in Wallet /\ cm \in Commitment /\ ToSet(m.pay.outs) = {cm}
      /\ Worth({cm}) = v
  BY OfferIs
<1>3. ~refused /\ added.ok /\ Shield(s, m).state = t
  <2> HIDE DEF refused, added, t
  <2> QED
    BY <1>1 DEF Result
<1>4. g \in Generation
  BY <1>3 DEF DepositGeneration, Generation
<1>5. /\ SoundState(s) /\ Money(s) /\ Ready(p) /\ Booked(p)
      /\ s.bal[w] \in Nat /\ Sum(s.bal) \in Nat /\ s.burned \in Nat
  BY <1>2, MoneyNat DEF Solid, Money
<1>6. s.bal[w] - v \in Nat
  BY <1>2, <1>3, <1>5
<1> HIDE DEF p, cm, w, v, g
<1>7. Ready(added.pool) /\ SameLocked(p, added.pool) /\ Moved(p, added.pool, g, {}, {cm})
  BY <1>2, <1>3, <1>4, <1>5, AppendNoteReady
<1> HIDE DEF added
<1>8. Worth({}) = 0
  <2>1. {} \in SUBSET Commitment
    OBVIOUS
  <2> QED
    BY <2>1, WorthAdds
<1>9. Exchanged(p, q, {}, {cm}, v)
  BY <1>2, <1>4, <1>5, <1>7, <1>8, LockAfter DEF lock_value_in
<1>10. Sound(q)
  BY <1>9 DEF Exchanged, Ready
<1> HIDE DEF q
<1>11. /\ SoundState(u) /\ Money(u) /\ u.pool = q /\ u.bal = s.bal
       /\ u.minted = s.minted /\ u.burned = s.burned
  BY <1>5, <1>10, PooledMoney
<1> HIDE DEF u
<1>12. /\ SoundState(t) /\ Money(t) /\ Sum(t.bal) = Sum(s.bal) + (s.bal[w] - v) - s.bal[w]
       /\ t.pool = q /\ t.minted = s.minted /\ t.burned = s.burned
  BY <1>2, <1>6, <1>11, BalanceWritten, BalancesAside
<1> HIDE DEF t
<1>13. Sum(t.bal) + t.burned = Sum(s.bal) + s.burned - v /\ s.burned <= t.burned
  BY <1>2, <1>5, <1>12
<1>14. v \in Int /\ Exchanged(s.pool, q, {}, ToSet(m.pay.outs), v)
  BY <1>2, <1>9 DEF p
<1>15. Paid(s, t, m)
  BY <1>12, <1>13, <1>14, PaidUp
<1> QED
  BY <1>3, <1>15

\* What a spend's proof says of its amount.
LEMMA SpendBalances ==
    ASSUME NEW s, NEW m, Spendable(s, m)
    PROVE  Worth(ToSet(m.pay.ins)) = m.pay.amount + Worth(ToSet(m.pay.outs))
  BY DEF Spendable, Proves

LEMMA FeePaidMoney ==
    ASSUME NEW s, SoundState(s), Money(s)
    PROVE  LET t == PayFee(s)
           IN /\ SoundState(t) /\ Money(t) /\ t.pool = s.pool /\ t.minted = s.minted
              /\ s.burned <= t.burned /\ Sum(t.bal) + t.burned = Sum(s.bal) + s.burned + Fee
<1> DEFINE t == PayFee(s)
<1>1. Fee \in Nat /\ Sum(s.bal) \in Nat /\ s.burned \in Nat /\ SoundState(t)
  BY LedgerAssumption, MoneyNat, BalancesAside DEF Money
<1>2. CASE s.master = NoMaster
  <2>1. t = [s EXCEPT !.burned = @ + Fee]
    BY <1>2 DEF PayFee
  <2>2. /\ t.burned = s.burned + Fee /\ t.bal = s.bal /\ t.pool = s.pool /\ t.minted = s.minted
        /\ t.master = s.master /\ t.native_supply = s.native_supply
    BY <2>1 DEF SoundState
  <2> HIDE DEF t
  <2>3. t.burned \in Nat /\ s.burned <= t.burned
    BY <1>1, <2>2
  <2>4. Money(t)
    BY <2>2, <2>3 DEF Money
  <2>5. Sum(t.bal) + t.burned = Sum(s.bal) + s.burned + Fee
    BY <1>1, <2>2
  <2> QED
    BY <1>1, <2>2, <2>3, <2>4, <2>5 DEF t
<1>3. CASE s.master # NoMaster
  <2>1. s.master \in Wallet
    BY <1>3 DEF Money
  <2>2. t = credit(s, s.master, Fee)
    BY <1>3 DEF PayFee
  <2> HIDE DEF t
  <2>3. /\ Money(t) /\ Sum(t.bal) = Sum(s.bal) + Fee
        /\ t.pool = s.pool /\ t.minted = s.minted /\ t.burned = s.burned
    BY <1>1, <2>1, <2>2, Credited
  <2> QED
    BY <1>1, <2>3 DEF t
<1> QED
  BY <1>2, <1>3

LEMMA SpendBooks ==
    ASSUME net \in Networks, NEW s, Solid(s), NEW m, IsOffer(m), m.op = "ShieldedSend",
           ShieldedSpend(s, m).ok
    PROVE  Paid(s, ShieldedSpend(s, m).state, m)
<1> DEFINE p == s.pool
           I == ToSet(m.pay.ins)
           N == ToSet(m.pay.outs)
           e == epoch_of_anchor(p, m.anchor)
           g == generation_of_anchor(p, m.anchor)
           burnt == Burn(p, e, m)
           outs == AppendOuts(burnt, g, m.pay.outs)
           paid == unlock_value_in(outs.pool, g, Fee)
           q == Dirty(AddLocked(outs.pool, g, -Fee))
           u == InPool(s, q)
           t == PayFee(u)
<1>1. ShieldedSpend(s, m) =
        IF m.pay.amount # Fee \/ ~Spendable(s, m) THEN Result(FALSE, s)
        ELSE IF ~(outs.ok /\ paid.ok) THEN Result(FALSE, InPool(s, outs.pool))
        ELSE Result(TRUE, PayFee(InPool(s, Dirty(paid.pool))))
  BY DEF ShieldedSpend, FeePaid
<1>2. /\ m.pay.amount = Fee /\ Spendable(s, m) /\ outs.ok /\ paid.ok
      /\ ShieldedSpend(s, m).state = PayFee(InPool(s, Dirty(paid.pool)))
  <2> HIDE DEF outs, paid
  <2> QED
    BY <1>1 DEF Result
<1>3. paid.pool = AddLocked(outs.pool, g, -Fee)
  <2> HIDE DEF outs, g
  <2> QED
    BY <1>2 DEF unlock_value_in, Outcome
<1>4. ShieldedSpend(s, m).state = t
  <2> HIDE DEF outs, g, paid
  <2> QED
    BY <1>2, <1>3
<1> HIDE DEF paid
<1>5. /\ m.pay.outs[1] \in Commitment /\ m.pay.outs[2] \in Commitment
      /\ N = {m.pay.outs[1], m.pay.outs[2]} /\ I \subseteq Commitment /\ N \subseteq Commitment
  BY OfferIs
<1>6. /\ SoundState(s) /\ Money(s) /\ Ready(p) /\ Sound(p) /\ Booked(p) /\ Fee \in Nat
      /\ Sum(s.bal) \in Nat /\ s.burned \in Nat
  BY MoneyNat, LedgerAssumption DEF Solid, Money, Ready
<1>7. g \in Generation
  BY <1>2, <1>6, AnchorGeneration DEF Spendable
<1>8. SpendsOpen(p, e, g, m)
  BY <1>2, <1>6, SpendableOpen
<1>9. Worth(I) = Fee + Worth(N) /\ Worth(N) \in Nat
  BY <1>2, <1>5, SpendBalances, WorthAdds
<1> HIDE DEF p, e, g
<1>10. Ready(burnt) /\ SameLocked(p, burnt) /\ Moved(p, burnt, g, I, {})
  BY <1>6, <1>7, <1>8, BurnReady
<1> HIDE DEF burnt
<1>11. Ready(outs.pool) /\ SameLocked(burnt, outs.pool) /\ Moved(burnt, outs.pool, g, {}, N)
  BY <1>2, <1>5, <1>7, <1>10, AppendOutsReady
<1> HIDE DEF outs, I, N
<1>12. Moved(p, outs.pool, g, I, {} \union N) /\ {} \union N = N
  BY <1>6, <1>7, <1>10, <1>11, MovedTwice
<1>13. Moved(p, outs.pool, g, I, N) /\ SameLocked(p, outs.pool)
  BY <1>10, <1>11, <1>12 DEF SameLocked
<1>14. -Fee = Worth(N) - Worth(I) /\ -Fee \in Int
  BY <1>6, <1>9
<1>15. Exchanged(p, q, I, N, -Fee)
  BY <1>6, <1>7, <1>11, <1>13, <1>14, LockAfter
<1>16. Sound(q)
  BY <1>15 DEF Exchanged, Ready
<1> HIDE DEF q
<1>17. /\ SoundState(u) /\ Money(u) /\ u.pool = q /\ u.bal = s.bal
       /\ u.minted = s.minted /\ u.burned = s.burned
  BY <1>6, <1>16, PooledMoney
<1> HIDE DEF u
<1>18. /\ SoundState(t) /\ Money(t) /\ t.pool = q /\ t.minted = s.minted
       /\ s.burned <= t.burned /\ Sum(t.bal) + t.burned = Sum(s.bal) + s.burned + Fee
  BY <1>17, FeePaidMoney
<1> HIDE DEF t
<1>19. Sum(t.bal) + t.burned = Sum(s.bal) + s.burned - (-Fee)
  BY <1>6, <1>18
<1>20. Exchanged(s.pool, q, ToSet(m.pay.ins), ToSet(m.pay.outs), -Fee)
  BY <1>15 DEF p, I, N
<1>21. Paid(s, t, m)
  BY <1>14, <1>18, <1>19, <1>20, PaidUp
<1> QED
  BY <1>4, <1>21

LEMMA UnshieldBooks ==
    ASSUME net \in Networks, NEW s, Solid(s), NEW m, IsOffer(m), m.op = "Unshield",
           Unshield(s, m).ok
    PROVE  Paid(s, Unshield(s, m).state, m)
<1> DEFINE p == s.pool
           I == ToSet(m.pay.ins)
           N == ToSet(m.pay.outs)
           v == m.pay.amount
           e == epoch_of_anchor(p, m.anchor)
           g == generation_of_anchor(p, m.anchor)
           paid == unlock_value_in(p, g, v)
           less == AddLocked(p, g, -v)
           burnt == Burn(less, e, m)
           outs == AppendOuts(burnt, g, m.pay.outs)
           q == Dirty(outs.pool)
           u == InPool(s, q)
           t == credit(u, m.pay.wallet, v)
           old == AppendOuts(Burn(paid.pool, e, m), g, m.pay.outs)
<1>1. Unshield(s, m) =
        IF v \notin Denomination \/ ~Spendable(s, m) \/ ~paid.ok THEN Result(FALSE, s)
        ELSE IF ~old.ok THEN Result(FALSE, InPool(s, old.pool))
        ELSE Result(TRUE, credit(InPool(s, Dirty(old.pool)), m.pay.wallet, v))
  BY DEF Unshield, Withdrawn
<1>2. /\ Spendable(s, m) /\ paid.ok /\ old.ok
      /\ Unshield(s, m).state = credit(InPool(s, Dirty(old.pool)), m.pay.wallet, v)
  <2> HIDE DEF old, paid
  <2> QED
    BY <1>1 DEF Result
<1>3. paid.pool = less
  <2> HIDE DEF g
  <2> QED
    BY <1>2 DEF unlock_value_in, Outcome
<1>4. Unshield(s, m).state = t /\ outs.ok
  <2> HIDE DEF paid, less
  <2> QED
    BY <1>2, <1>3
<1> HIDE DEF paid, old
<1>5. /\ m.pay.outs[1] \in Commitment /\ m.pay.outs[2] \in Commitment
      /\ N = {m.pay.outs[1], m.pay.outs[2]} /\ I \subseteq Commitment /\ N \subseteq Commitment
      /\ v \in Nat /\ m.pay.wallet \in Wallet
  BY OfferIs
<1>6. /\ SoundState(s) /\ Money(s) /\ Ready(p) /\ Sound(p) /\ Booked(p)
      /\ Sum(s.bal) \in Nat /\ s.burned \in Nat
  BY MoneyNat DEF Solid, Money, Ready
<1>7. g \in Generation
  BY <1>2, <1>6, AnchorGeneration DEF Spendable
<1>8. SpendsOpen(p, e, g, m)
  BY <1>2, <1>6, SpendableOpen
<1>9. Worth(I) = v + Worth(N) /\ Worth(N) \in Nat
  BY <1>2, <1>5, SpendBalances, WorthAdds
<1> HIDE DEF p, e, g, v
<1>10. Ready(less) /\ Moved(p, less, g, {}, {})
  BY <1>6, <1>7, LockReady
<1>11. Trees(less) = Trees(p) /\ less.nullifiers = p.nullifiers
  BY <1>6 DEF AddLocked, Trees, v7_active, Sound, IsPool, Fields
<1> HIDE DEF less
<1>12. SpendsOpen(less, e, g, m)
  BY <1>8, <1>11 DEF SpendsOpen
<1>13. Ready(burnt) /\ SameLocked(less, burnt) /\ Moved(less, burnt, g, I, {})
  BY <1>7, <1>10, <1>12, BurnReady
<1> HIDE DEF burnt
<1>14. Ready(outs.pool) /\ SameLocked(burnt, outs.pool) /\ Moved(burnt, outs.pool, g, {}, N)
  BY <1>4, <1>5, <1>7, <1>13, AppendOutsReady
<1> HIDE DEF outs, I, N
<1>15. Sound(less)
  BY <1>10 DEF Ready
<1>16. Moved(less, outs.pool, g, I, {} \union N) /\ {} \union N = N
  BY <1>7, <1>13, <1>14, <1>15, MovedTwice
<1>17. Moved(less, outs.pool, g, I, N) /\ SameLocked(less, outs.pool)
  BY <1>13, <1>14, <1>16 DEF SameLocked
<1>18. -v = Worth(N) - Worth(I) /\ -v \in Int
  BY <1>5, <1>9
<1>19. Exchanged(p, q, I, N, -v)
  BY <1>6, <1>7, <1>14, <1>17, <1>18, LockBefore DEF less
<1>20. Sound(q)
  BY <1>19 DEF Exchanged, Ready
<1> HIDE DEF q
<1>21. /\ SoundState(u) /\ Money(u) /\ u.pool = q /\ u.bal = s.bal
       /\ u.minted = s.minted /\ u.burned = s.burned
  BY <1>6, <1>20, PooledMoney
<1> HIDE DEF u
<1>22. /\ SoundState(t) /\ Money(t) /\ t.pool = q /\ t.minted = s.minted
       /\ t.burned = s.burned /\ Sum(t.bal) = Sum(s.bal) + v
  BY <1>5, <1>21, Credited, BalancesAside
<1> HIDE DEF t
<1>23. Sum(t.bal) + t.burned = Sum(s.bal) + s.burned - (-v) /\ s.burned <= t.burned
  BY <1>5, <1>6, <1>22
<1>24. Exchanged(s.pool, q, ToSet(m.pay.ins), ToSet(m.pay.outs), -v)
  BY <1>19 DEF p, I, N
<1>25. Paid(s, t, m)
  BY <1>18, <1>22, <1>23, <1>24, PaidUp
<1> QED
  BY <1>4, <1>25

-----------------------------------------------------------------------------
(* The window, and the steps of a commit that are not mutations.             *)

LEMMA TailApart ==
    ASSUME NEW S, NEW A \in Seq(S), A # <<>>, IsInjective(A)
    PROVE  /\ Tail(A) \in Seq(S) /\ Len(Tail(A)) = Len(A) - 1 /\ IsInjective(Tail(A))
           /\ Head(A) \in ToSet(A) /\ ToSet(Tail(A)) \subseteq ToSet(A) \ {Head(A)}
<1> DEFINE T == Tail(A)
<1>1. T \in Seq(S) /\ Len(T) = Len(A) - 1 /\ Len(A) \in Nat /\ Len(A) > 0
  <2>1. Len(A) \in Nat /\ Len(A) # 0
    BY EmptySeq
  <2> QED
    BY <2>1, HeadTailProperties
<1>2. DOMAIN T = 1 .. (Len(A) - 1) /\ DOMAIN A = 1 .. Len(A)
  <2> HIDE DEF T
  <2> QED
    BY <1>1
<1>3. Head(A) = A[1] /\ \A i \in DOMAIN T : T[i] = A[i + 1]
  BY <1>1, <1>2, HeadTailProperties
<1>4. \A i \in DOMAIN T : i + 1 \in DOMAIN A /\ i + 1 # 1 /\ i \in Int
  BY <1>1, <1>2
<1>5. 1 \in DOMAIN A
  BY <1>1, <1>2
<1> HIDE DEF T
<1>6. IsInjective(T)
  <2> SUFFICES ASSUME NEW i \in DOMAIN T, NEW j \in DOMAIN T, T[i] = T[j] PROVE i = j
    BY DEF IsInjective
  <2>1. i + 1 = j + 1
    BY <1>3, <1>4 DEF IsInjective
  <2> QED
    BY <1>4, <2>1
<1>7. Head(A) \in ToSet(A)
  BY <1>3, <1>5 DEF ToSet
<1>8. ASSUME NEW x \in ToSet(T) PROVE x \in ToSet(A) /\ x # Head(A)
  <2>1. PICK i \in DOMAIN T : x = T[i]
    BY DEF ToSet
  <2>2. x = A[i + 1] /\ i + 1 \in DOMAIN A /\ i + 1 # 1
    BY <1>3, <1>4, <2>1
  <2> QED
    BY <1>3, <1>5, <2>2 DEF ToSet, IsInjective
<1> QED
  BY <1>1, <1>6, <1>7, <1>8 DEF T

LEMMA AppendApart ==
    ASSUME NEW S, NEW A \in Seq(S), IsInjective(A), NEW r \in S, r \notin ToSet(A)
    PROVE  /\ IsInjective(Append(A, r)) /\ ToSet(Append(A, r)) = ToSet(A) \union {r}
           /\ Len(Append(A, r)) = Len(A) + 1 /\ Append(A, r) \in Seq(S)
<1> DEFINE B == Append(A, r)
<1>1. B \in Seq(S) /\ Len(B) = Len(A) + 1 /\ Len(A) \in Nat
  OBVIOUS
<1>2. /\ DOMAIN A = 1 .. Len(A) /\ DOMAIN B = 1 .. (Len(A) + 1)
      /\ B[Len(A) + 1] = r /\ \A i \in DOMAIN A : B[i] = A[i]
  OBVIOUS
<1> HIDE DEF B
<1>3. \A i \in DOMAIN B : i \in DOMAIN A \/ i = Len(A) + 1
  BY <1>1, <1>2
<1>4. \A i \in DOMAIN A : i \in DOMAIN B /\ A[i] # r
  BY <1>1, <1>2 DEF ToSet
<1>5. Len(A) + 1 \in DOMAIN B
  BY <1>1, <1>2
<1>6. IsInjective(B)
  BY <1>2, <1>3, <1>4 DEF IsInjective
<1>7. ToSet(B) = ToSet(A) \union {r}
  BY <1>2, <1>3, <1>4, <1>5 DEF ToSet
<1> QED
  BY <1>1, <1>6, <1>7 DEF B

\* Nothing but the window differs.
WindowOnly(p, q) ==
    /\ q.notes = p.notes /\ q.v7 = p.v7 /\ q.epoch = p.epoch /\ q.v1_closed = p.v1_closed
    /\ q.archive = p.archive /\ q.nullifiers = p.nullifiers /\ q.value_locked = p.value_locked

LEMMA WindowMovesNothing ==
    ASSUME NEW p, Ready(p), NEW q, WindowOnly(p, q), Sound(q), WindowKnown(q),
           Len(q.anchors) <= AnchorWindow
    PROVE  /\ Ready(q) /\ Trees(q) = Trees(p) /\ SameLocked(p, q)
           /\ \A g \in Generation : Moved(p, q, g, {}, {})
<1>1. Trees(q) = Trees(p) /\ Held(q) = Held(p)
  BY DEF WindowOnly, Trees, Held, v7_active
<1>2. Ready(q)
  BY <1>1 DEF WindowOnly, Ready, MarksReal, Sizes, OfNet, v7_active
<1>3. \A g : OpenIn(q, g) = OpenIn(p, g)
  BY <1>1 DEF OpenIn, WindowOnly
<1>4. \A g \in Generation : Moved(p, q, g, {}, {})
  BY <1>1, <1>3 DEF Moved
<1> QED
  BY <1>1, <1>2, <1>4 DEF SameLocked, WindowOnly

LEMMA PushAnchorReady ==
    ASSUME NEW p, Ready(p), NEW g \in Generation, NEW ns \in Seq(Commitment), NEW e,
           Tree(g, e, ns) \in Trees(p)
    PROVE  LET q == push_anchor_for(p, <<g, ns>>, e)
           IN Ready(q) /\ WindowOnly(p, q) /\ <<g, ns>> \in ToSet(q.anchors)
<1> DEFINE r == <<g, ns>>
           q == push_anchor_for(p, r, e)
           full == Len(p.anchors) >= AnchorWindow
           first == Head(p.anchors)
           rest == IF full THEN Tail(p.anchors) ELSE p.anchors
           known == Remap(p, r, e)
           sealed == \E a \in ToSet(p.archive) : SealedRoot(a) = first
<1> SUFFICES ASSUME r \notin ToSet(p.anchors)
             PROVE  Ready(q) /\ WindowOnly(p, q) /\ r \in ToSet(q.anchors)
  BY DEF push_anchor_for, WindowOnly
<1>1. /\ Sound(p) /\ DOMAIN p = Fields /\ p.anchors \in Seq(Root) /\ r \in Root
      /\ IsInjective(p.anchors) /\ ToSet(p.anchors) \subseteq DOMAIN p.anchor_epoch
      /\ Len(p.anchors) <= AnchorWindow /\ AnchorWindow \in Nat \ {0} /\ Len(p.anchors) \in Nat
  BY ReadySizes DEF Ready, Sound, IsPool, Root, WindowKnown, Sizes
<1>2. Sound(q)
  BY <1>1, PushAnchorSound
<1>3. q = [p EXCEPT !.anchors = Append(rest, r),
                    !.anchor_epoch = IF full /\ ~sealed
                                     THEN [x \in DOMAIN known \ {first} |-> known[x]] ELSE known]
  BY DEF push_anchor_for
<1>4. /\ WindowOnly(p, q) /\ q.anchors = Append(rest, r)
      /\ DOMAIN q.anchor_epoch = IF full /\ ~sealed THEN DOMAIN known \ {first} ELSE DOMAIN known
  <2> HIDE DEF r, q, known, sealed, rest, full, first
  <2> QED
    BY <1>1, <1>3 DEF WindowOnly, Fields
<1>5. DOMAIN known = DOMAIN p.anchor_epoch \union {r}
  BY DEF Remap
<1> HIDE DEF q, known, sealed, r
<1>6. /\ rest \in Seq(Root) /\ IsInjective(rest) /\ ToSet(rest) \subseteq ToSet(p.anchors)
      /\ Len(rest) + 1 <= AnchorWindow /\ (full => first \notin ToSet(rest) /\ first # r)
  <2>1. CASE full
    <3>1. p.anchors # <<>>
      <4>1. Len(<<>>) = 0
        BY ReadySizes
      <4> QED
        BY <1>1, <2>1, <4>1
    <3>2. /\ Tail(p.anchors) \in Seq(Root) /\ Len(Tail(p.anchors)) = Len(p.anchors) - 1
          /\ IsInjective(Tail(p.anchors)) /\ first \in ToSet(p.anchors)
          /\ ToSet(Tail(p.anchors)) \subseteq ToSet(p.anchors) \ {first}
      BY <1>1, <3>1, TailApart
    <3>3. rest = Tail(p.anchors)
      BY <2>1
    <3>4. Len(rest) + 1 <= AnchorWindow
      BY <1>1, <3>2, <3>3
    <3> QED
      BY <3>2, <3>3, <3>4
  <2>2. CASE ~full
    <3>1. rest = p.anchors /\ Len(p.anchors) + 1 <= AnchorWindow
      BY <1>1, <2>2
    <3> QED
      BY <1>1, <2>2, <3>1
  <2> QED
    BY <2>1, <2>2
<1> HIDE DEF rest, full, first
<1>7. /\ IsInjective(q.anchors) /\ ToSet(q.anchors) = ToSet(rest) \union {r}
      /\ Len(q.anchors) = Len(rest) + 1
  <2>1. r \notin ToSet(rest)
    BY <1>6
  <2> QED
    BY <1>1, <1>4, <1>6, <2>1, AppendApart
<1>8. ToSet(q.anchors) \subseteq DOMAIN q.anchor_epoch
  BY <1>1, <1>4, <1>5, <1>6, <1>7
<1>9. WindowKnown(q) /\ Len(q.anchors) <= AnchorWindow
  BY <1>6, <1>7, <1>8 DEF WindowKnown
<1>10. Ready(q)
  BY <1>2, <1>4, <1>9, WindowMovesNothing
<1> QED
  BY <1>4, <1>7, <1>10

\* The live tree of a build is in the window unless there is something to
\* publish; of two live trees only the newer one surely is.
Published(p) ==
    p.anchors_dirty = TRUE
    \/ /\ p.anchors_dirty = FALSE
       /\ v7_active(p) /\ p.v7.notes # <<>> => RootV7(p) \in ToSet(p.anchors)
       /\ net # "r1" /\ ~p.v1_closed /\ p.notes # <<>> => RootV1(p) \in ToSet(p.anchors)

LEMMA RefreshReady ==
    ASSUME net \in Networks, NEW p, Ready(p)
    PROVE  LET q == refresh_anchor(p)
           IN /\ Ready(q) /\ (Booked(p) => Booked(q) /\ value_locked(q) = value_locked(p))
              /\ Passed(p, q, {}, {}) /\ Published(q) /\ q.anchors_dirty = FALSE
<1> DEFINE one == IF p.v1_closed THEN p ELSE push_anchor_for(p, RootV1(p), p.epoch)
           two == IF v7_active(p) THEN push_anchor_for(one, RootV7(p), p.v7.epoch) ELSE one
           q == [two EXCEPT !.anchors_dirty = FALSE]
<1>1. /\ Sound(p) /\ p.notes \in Seq(Commitment) /\ p.v7.notes \in Seq(Commitment)
      /\ "V1" \in Generation /\ "V7" \in Generation
  BY DEF Ready, Sound, IsPool, Generation
<1>2. /\ Ready(one) /\ WindowOnly(p, one)
      /\ ~p.v1_closed => RootV1(p) \in ToSet(one.anchors)
  <2>1. CASE ~p.v1_closed
    <3>1. Tree("V1", p.epoch, p.notes) \in Trees(p)
      BY <1>1, <2>1, TreesAre
    <3> QED
      BY <1>1, <2>1, <3>1, PushAnchorReady DEF RootV1
  <2>2. CASE p.v1_closed
    BY <2>2 DEF WindowOnly
  <2> QED
    BY <2>1, <2>2
<1> HIDE DEF one
<1>3. /\ Ready(two) /\ WindowOnly(one, two)
      /\ v7_active(p) => RootV7(p) \in ToSet(two.anchors)
      /\ ~v7_active(p) => two = one
  <2>1. CASE v7_active(p)
    <3>1. v7_active(one) /\ one.v7 = p.v7
      BY <1>2, <2>1 DEF WindowOnly, v7_active
    <3>2. Tree("V7", p.v7.epoch, p.v7.notes) \in Trees(one)
      BY <1>2, <3>1, TreesAre
    <3> QED
      BY <1>1, <1>2, <2>1, <3>2, PushAnchorReady DEF RootV7
  <2>2. CASE ~v7_active(p)
    BY <1>2, <2>2 DEF WindowOnly
  <2> QED
    BY <2>1, <2>2
<1> HIDE DEF two
<1>4. Sound(two) /\ DOMAIN two = Fields /\ WindowOnly(p, two)
  BY <1>2, <1>3 DEF Ready, Sound, IsPool, WindowOnly
<1>5. /\ WindowOnly(two, q) /\ q.anchors = two.anchors /\ q.anchor_epoch = two.anchor_epoch
      /\ q.indexed = two.indexed /\ q.seen = two.seen /\ q.anchors_dirty = FALSE
      /\ DOMAIN q = Fields
  BY <1>4 DEF WindowOnly, Fields
<1>6. q = refresh_anchor(p)
  BY DEF refresh_anchor, two, one
<1> HIDE DEF q
<1>7. Sound(q)
  <2>1. NamesTrees(two, q)
    BY <1>5, SameNames
  <2> QED
    BY <1>4, <1>5, <2>1, BooksAside DEF Sound, IsPool, SeenIsHeld, WindowOnly
<1>8. WindowOnly(p, q)
  BY <1>4, <1>5 DEF WindowOnly
<1>9. WindowKnown(q) /\ Len(q.anchors) <= AnchorWindow
  BY <1>3, <1>5 DEF Ready, WindowKnown, Sizes
<1>10. /\ Ready(q) /\ SameLocked(p, q) /\ \A g \in Generation : Moved(p, q, g, {}, {})
  BY <1>7, <1>8, <1>9, WindowMovesNothing
<1>11. Passed(p, q, {}, {})
  BY <1>1, <1>10, MovedPassed
<1>12. Booked(p) => Booked(q) /\ value_locked(q) = value_locked(p)
  <2>1. \A g \in Generation : OpenIn(q, g) = OpenIn(p, g)
    BY <1>10 DEF Moved
  <2> QED
    BY <1>10, <2>1, LockedAlike DEF Booked, SameLocked, value_locked
<1>13. Published(q)
  <2>1. v7_active(q) => RootV7(q) \in ToSet(q.anchors)
    BY <1>3, <1>5, <1>8 DEF WindowOnly, v7_active, RootV7
  <2>2. ASSUME net # "r1", ~q.v1_closed PROVE RootV1(q) \in ToSet(q.anchors)
    <3>1. ~p.v1_closed
      BY <1>8, <2>2 DEF WindowOnly
    <3>2. ~v7_active(p)
      BY <2>2, <3>1, LedgerAssumption DEF Ready, OfNet
    <3> QED
      BY <1>2, <1>3, <1>5, <1>8, <3>1, <3>2 DEF WindowOnly, RootV1
  <2> QED
    BY <1>5, <2>1, <2>2 DEF Published
<1> QED
  BY <1>5, <1>6, <1>10, <1>11, <1>12, <1>13

\* The pool of t is that of s with its notes and its value where they were, and
\* there is no other difference.
Aside(s, t) ==
    /\ Passed(s.pool, t.pool, {}, {}) /\ value_locked(t.pool) = value_locked(s.pool)
    /\ t.bal = s.bal /\ t.native_supply = s.native_supply /\ t.master = s.master
    /\ t.minted = s.minted /\ t.burned = s.burned

LEMMA PoolAside ==
    ASSUME NEW s, Solid(s), NEW q, Ready(q), Booked(q), Passed(s.pool, q, {}, {}),
           value_locked(q) = value_locked(s.pool)
    PROVE  Solid(InPool(s, q)) /\ Aside(s, InPool(s, q)) /\ InPool(s, q).pool = q
<1> DEFINE t == InPool(s, q)
<1>1. SoundState(s) /\ Money(s) /\ Sound(q)
  BY DEF Solid, Ready
<1>2. /\ SoundState(t) /\ Money(t) /\ t.pool = q /\ t.bal = s.bal
      /\ t.minted = s.minted /\ t.burned = s.burned
      /\ t.master = s.master /\ t.native_supply = s.native_supply
  BY <1>1, PooledMoney
<1> HIDE DEF t
<1>3. Aside(s, t)
  BY <1>2 DEF Aside
<1>4. Solid(t)
  BY <1>2 DEF Solid
<1> QED
  BY <1>2, <1>3, <1>4 DEF t

LEMMA PassedNothing ==
    ASSUME NEW p
    PROVE  Passed(p, p, {}, {})
  BY DEF Passed

LEMMA PublishBooks ==
    ASSUME net \in Networks, NEW s, Solid(s), Published(s.pool)
    PROVE  LET t == Publish(s)
           IN /\ Solid(t) /\ Aside(s, t) /\ Published(t.pool) /\ t.pool.anchors_dirty = FALSE
<1>1. CASE s.pool.anchors_dirty = TRUE
  <2> DEFINE q == refresh_anchor(s.pool)
  <2>1. Ready(s.pool) /\ Booked(s.pool)
    BY DEF Solid
  <2>2. /\ Ready(q) /\ Booked(q) /\ value_locked(q) = value_locked(s.pool)
        /\ Passed(s.pool, q, {}, {}) /\ Published(q) /\ q.anchors_dirty = FALSE
    BY <2>1, RefreshReady
  <2>3. Publish(s) = InPool(s, q)
    BY <1>1 DEF Publish
  <2> HIDE DEF q
  <2> QED
    BY <2>2, <2>3, PoolAside
<1>2. CASE s.pool.anchors_dirty = FALSE
  <2>1. Publish(s) = s
    BY <1>2 DEF Publish
  <2> QED
    BY <1>2, <2>1, PassedNothing DEF Aside
<1> QED
  BY <1>1, <1>2 DEF Published

LEMMA OpenBooks ==
    ASSUME net \in Networks, NEW s, Solid(s), NEW h
    PROVE  LET t == OpenGeneration(s, h)
           IN /\ Solid(t) /\ Aside(s, t)
              /\ t.pool = s.pool \/ t.pool.anchors_dirty = TRUE
<1> DEFINE p == s.pool
           q == IF net = "g3" THEN activate_v7_only(p) ELSE activate_v7(p)
<1>1. CASE ~(v7_pool_active(h) /\ ~v7_active(p))
  <2>1. OpenGeneration(s, h) = s
    BY <1>1 DEF OpenGeneration
  <2> QED
    BY <2>1, PassedNothing DEF Aside
<1>2. CASE v7_pool_active(h) /\ ~v7_active(p)
  <2>1. OpenGeneration(s, h) = InPool(s, q)
    BY <1>2 DEF OpenGeneration
  <2>2. Ready(p) /\ Booked(p) /\ Sound(p)
    BY DEF Solid, Ready
  <2>3. OpenedAs(p, q) /\ (net = "g3" => q.v1_closed)
    BY <1>2, <2>2, ActivateSound
  <2> HIDE DEF q
  <2>4. Sound(q) /\ MoreTrees(p, q) /\ SameBooks(p, q) /\ q.anchors_dirty = TRUE
    BY <2>3 DEF OpenedAs
  <2>5. Sizes(q)
    <3>1. /\ Capacity \in Nat \ {0} /\ Len(<<>>) = 0
          /\ Len(p.notes) <= Capacity /\ Len(p.v7.notes) <= Capacity
          /\ Len(p.anchors) <= AnchorWindow
      BY <2>2, ReadySizes DEF Ready, Sizes
    <3>2. Len(<<>>) <= Capacity
      BY <3>1
    <3>3. (q.notes = p.notes \/ q.notes = <<>>) /\ q.v7.notes = p.v7.notes /\ q.anchors = p.anchors
      BY <2>3 DEF OpenedAs, SameBooks
    <3> QED
      BY <3>1, <3>2, <3>3 DEF Sizes
  <2>6. OfNet(q)
    BY <1>2, <2>3 DEF OfNet, v7_pool_active
  <2>7. Ready(q) /\ SameLocked(p, q) /\ \A g \in Generation : Moved(p, q, g, {}, {})
    BY <2>2, <2>4, <2>5, <2>6, MovedNothing
  <2>8. Passed(p, q, {}, {})
    <3>1. "V1" \in Generation
      BY DEF Generation
    <3> QED
      BY <2>2, <2>7, <3>1, MovedPassed
  <2>9. Booked(q) /\ value_locked(q) = value_locked(p)
    <3>1. \A g \in Generation : OpenIn(q, g) = OpenIn(p, g)
      BY <2>7 DEF Moved
    <3> QED
      BY <2>2, <2>7, <3>1, LockedAlike DEF Booked, SameLocked, value_locked
  <2> HIDE DEF p
  <2>10. Solid(InPool(s, q)) /\ Aside(s, InPool(s, q)) /\ InPool(s, q).pool = q
    BY <2>7, <2>8, <2>9, PoolAside DEF p
  <2> QED
    BY <2>1, <2>4, <2>10 DEF p
<1> QED
  BY <1>1, <1>2

\* A pool read back from a snapshot.
LEMMA ReloadedBooks ==
    ASSUME NEW s, Solid(s), Published(s.pool), s.pool.anchors_dirty = FALSE
    PROVE  LET t == InPool(s, Reloaded(s.pool))
           IN /\ Solid(t) /\ Aside(s, t) /\ Published(t.pool) /\ t.pool.anchors_dirty = FALSE
              /\ Trees(t.pool) = Trees(s.pool) /\ Held(t.pool) = Held(s.pool)
<1> DEFINE p == s.pool
           q == Reloaded(p)
<1>1. Ready(p) /\ Booked(p) /\ Sound(p) /\ DOMAIN p = Fields /\ Sound(q)
  BY BooksSound DEF Solid, Ready, Sound, IsPool
<1>2. /\ WindowOnly(p, q) /\ q.anchors = p.anchors /\ q.anchor_epoch = p.anchor_epoch
      /\ q.anchors_dirty = FALSE
  BY <1>1 DEF Reloaded, WindowOnly, Fields
<1> HIDE DEF q
<1>3. WindowKnown(q) /\ Len(q.anchors) <= AnchorWindow
  BY <1>1, <1>2 DEF Ready, WindowKnown, Sizes
<1>4. /\ Ready(q) /\ Trees(q) = Trees(p) /\ SameLocked(p, q)
      /\ \A g \in Generation : Moved(p, q, g, {}, {})
  BY <1>1, <1>2, <1>3, WindowMovesNothing
<1>5. "V1" \in Generation
  BY DEF Generation
<1>6. Passed(p, q, {}, {}) /\ Held(q) = Held(p)
  BY <1>1, <1>4, <1>5, MovedPassed DEF Moved
<1>7. Booked(q) /\ value_locked(q) = value_locked(p)
  <2>1. \A g \in Generation : OpenIn(q, g) = OpenIn(p, g)
    BY <1>4 DEF Moved
  <2> QED
    BY <1>1, <1>4, <2>1, LockedAlike DEF Booked, SameLocked, value_locked
<1>8. Published(q)
  BY <1>2 DEF Published, WindowOnly, v7_active, RootV1, RootV7
<1> HIDE DEF p
<1>9. Solid(InPool(s, q)) /\ Aside(s, InPool(s, q)) /\ InPool(s, q).pool = q
  BY <1>4, <1>6, <1>7, PoolAside DEF p
<1> QED
  BY <1>2, <1>4, <1>6, <1>8, <1>9 DEF p, q

-----------------------------------------------------------------------------
(* A block on the follower's copy.                                          *)

\* From state s to its copy t: notes kept or spent, new ones, coin issued.
Since(s, t) ==
    /\ Held(s.pool) \subseteq Held(t.pool)
    /\ Opens(t.pool) \intersect Held(s.pool) \subseteq Opens(s.pool)
    /\ Held(t.pool) \ Held(s.pool) \subseteq Opens(t.pool)
    /\ s.minted <= t.minted /\ t.minted <= s.minted + Reward /\ s.burned <= t.burned

\* What a mutation of a body says, against the settled state s: a coinbase
\* credits what it mints, a payment spends notes that were settled.
Fair(s, m) ==
    /\ m.op = "SetBalance" => /\ m.bal \in [Wallet -> Nat] /\ m.minted \in 0 .. Reward
                              /\ Sum(m.bal) = Sum(s.bal) + m.minted
    /\ m.op \in PoolOp => /\ IsOffer(m)
                          /\ m.op # "Shield" => ToSet(m.pay.ins) \subseteq Held(s.pool)

\* The coinbase finds the balances as they were settled.
Fresh(s, t) == t.bal = s.bal /\ t.minted = s.minted

LEMMA SinceAside ==
    ASSUME NEW s, NEW t, Since(s, t), NEW u, Aside(t, u)
    PROVE  Since(s, u) /\ (Fresh(s, t) => Fresh(s, u))
  BY DEF Since, Aside, Passed, Fresh

LEMMA SincePaid ==
    ASSUME NEW s, NEW t, Since(s, t), NEW u, NEW m, Paid(t, u, m), Solid(t), Solid(s),
           m.op # "Shield" => ToSet(m.pay.ins) \subseteq Held(s.pool)
    PROVE  Since(s, u)
<1>1. PICK I : /\ I = {} \/ I = ToSet(m.pay.ins)
               /\ Passed(t.pool, u.pool, I, ToSet(m.pay.outs))
               /\ m.op = "Shield" => I = {}
  BY DEF Paid
<1>2. I \subseteq Held(s.pool)
  BY <1>1
<1> DEFINE N == ToSet(m.pay.outs)
<1>3. /\ N \intersect Held(t.pool) = {} /\ Held(u.pool) = Held(t.pool) \union N
      /\ Opens(u.pool) = (Opens(t.pool) \ I) \union N
  BY <1>1 DEF Passed
<1> HIDE DEF N
<1>4. /\ Held(s.pool) \subseteq Held(u.pool)
      /\ Opens(u.pool) \intersect Held(s.pool) \subseteq Opens(s.pool)
      /\ Held(u.pool) \ Held(s.pool) \subseteq Opens(u.pool)
  BY <1>2, <1>3 DEF Since
<1>5. u.minted = t.minted /\ t.burned <= u.burned
  BY DEF Paid
<1>6. s.burned \in Nat /\ t.burned \in Nat /\ u.burned \in Nat
  BY DEF Paid, Solid, Money
<1> QED
  BY <1>4, <1>5, <1>6 DEF Since

LEMMA SetBalancesBooks ==
    ASSUME NEW s, Solid(s), NEW t, Solid(t), Since(s, t), Fresh(s, t),
           NEW m, Fair(s, m), m.op = "SetBalance"
    PROVE  LET u == SetBalances(t, m).state
           IN Solid(u) /\ Since(s, u) /\ u.pool = t.pool
<1> DEFINE u == SetBalances(t, m).state
<1>1. /\ m.bal \in [Wallet -> Nat] /\ m.minted \in 0 .. Reward
      /\ Sum(m.bal) = Sum(s.bal) + m.minted /\ Reward \in Nat
  BY LedgerAssumption DEF Fair
<1>2. /\ SoundState(t) /\ Money(t) /\ Money(s) /\ t.native_supply = Sum(t.bal)
      /\ t.minted = Sum(t.bal) + value_locked(t.pool) + t.burned
      /\ t.minted \in Nat /\ t.burned \in Nat /\ Sum(t.bal) \in Nat
      /\ value_locked(t.pool) \in Nat /\ t.bal = s.bal /\ t.minted = s.minted
  BY MoneyNat, BookedNat DEF Solid, Money, Fresh
<1>3. SoundState(u)
  BY <1>2, BalancesAside
<1>4. /\ u.bal = m.bal /\ u.native_supply = t.native_supply + Sum(m.bal) - Sum(t.bal)
      /\ u.pool = t.pool /\ u.master = t.master /\ u.burned = t.burned
      /\ u.minted = t.minted + m.minted
  BY <1>2 DEF SetBalances, Result, SoundState
<1> HIDE DEF u
<1>5. /\ u.native_supply = Sum(u.bal) /\ u.minted \in Nat
      /\ s.minted <= u.minted /\ u.minted <= s.minted + Reward
      /\ u.minted = Sum(u.bal) + value_locked(u.pool) + u.burned
  BY <1>1, <1>2, <1>4
<1>6. Money(u)
  BY <1>1, <1>2, <1>4, <1>5 DEF Money
<1>7. Solid(u)
  BY <1>3, <1>4, <1>5, <1>6 DEF Solid
<1>8. Since(s, u)
  BY <1>4, <1>5 DEF Since
<1> QED
  BY <1>4, <1>7, <1>8 DEF u

LEMMA RotateBooks ==
    ASSUME NEW s, Solid(s), NEW m, NEW h, RotateMasterWallet(s, m, h).ok
    PROVE  LET t == RotateMasterWallet(s, m, h).state
           IN /\ Solid(t) /\ t.pool = s.pool /\ t.bal = s.bal /\ t.minted = s.minted
              /\ t.burned = s.burned /\ t.native_supply = s.native_supply
<1> DEFINE t == RotateMasterWallet(s, m, h).state
<1>1. SoundState(s) /\ Money(s) /\ SoundState(t)
  BY BalancesAside DEF Solid
<1>2. m.wallet \in Wallet /\ t = [s EXCEPT !.master = m.wallet]
  BY LedgerAssumption DEF RotateMasterWallet, Result
<1>3. /\ t.pool = s.pool /\ t.bal = s.bal /\ t.minted = s.minted /\ t.burned = s.burned
      /\ t.native_supply = s.native_supply /\ t.master = m.wallet
  BY <1>1, <1>2 DEF SoundState
<1> HIDE DEF t
<1>4. Money(t)
  BY <1>1, <1>2, <1>3 DEF Money
<1> QED
  BY <1>1, <1>3, <1>4 DEF Solid, t

\* Each mutation of a block that is taken.
LEMMA MutateBooks ==
    ASSUME net \in Networks, NEW s, Solid(s), NEW t, Solid(t), Since(s, t), NEW m, WellFormed(m),
           Fair(s, m), m.op = "SetBalance" => Fresh(s, t), NEW h, Mutate(t, m, h).ok
    PROVE  LET u == Mutate(t, m, h).state
           IN /\ Solid(u) /\ Since(s, u)
              /\ u.pool = t.pool \/ u.pool.anchors_dirty = TRUE
              /\ m.op = "RotateMasterWallet" /\ Fresh(s, t) => Fresh(s, u)
<1> DEFINE Good(u) == /\ Solid(u) /\ Since(s, u)
                      /\ u.pool = t.pool \/ u.pool.anchors_dirty = TRUE
                      /\ m.op = "RotateMasterWallet" /\ Fresh(s, t) => Fresh(s, u)
<1>1. CASE m.op = "SetBalance"
  <2>1. Mutate(t, m, h) = SetBalances(t, m)
    BY <1>1 DEF Mutate
  <2> QED
    BY <1>1, <2>1, SetBalancesBooks
<1>2. CASE m.op = "RotateMasterWallet"
  <2> DEFINE u == RotateMasterWallet(t, m, h).state
  <2>1. Mutate(t, m, h) = RotateMasterWallet(t, m, h)
    BY <1>2 DEF Mutate
  <2>2. /\ Solid(u) /\ u.pool = t.pool /\ u.bal = t.bal /\ u.minted = t.minted
        /\ u.burned = t.burned
    BY <2>1, RotateBooks
  <2> HIDE DEF u
  <2>3. Since(s, u) /\ (Fresh(s, t) => Fresh(s, u))
    BY <2>2 DEF Since, Fresh
  <2> QED
    BY <2>1, <2>2, <2>3 DEF u
<1>3. CASE m.op \in PoolOp
  <2>1. ASSUME NEW u, Paid(t, u, m) PROVE Good(u)
    <3>1. Since(s, u)
      BY <1>3, <2>1, SincePaid DEF Fair
    <3> QED
      BY <1>3, <2>1, <3>1 DEF Paid, PoolOp
  <2>2. IsOffer(m)
    BY <1>3 DEF Fair
  <2> HIDE DEF Good
  <2>3. CASE m.op = "Shield"
    <3>1. Mutate(t, m, h) = Shield(t, m)
      BY <2>3 DEF Mutate
    <3> QED
      BY <2>1, <2>2, <2>3, <3>1, ShieldBooks DEF Good
  <2>4. CASE m.op = "Unshield"
    <3>1. Mutate(t, m, h) = Unshield(t, m)
      BY <2>4 DEF Mutate
    <3> QED
      BY <2>1, <2>2, <2>4, <3>1, UnshieldBooks DEF Good
  <2>5. CASE m.op = "ShieldedSend"
    <3> DEFINE r == ShieldedSpend(t, m)
               v == r.state
               u == [v EXCEPT !.events = Append(@, m)]
    <3>1. Mutate(t, m, h) = IF r.ok THEN Result(TRUE, u) ELSE r
      BY <2>5 DEF Mutate, WithEvent
    <3>2. r.ok /\ Mutate(t, m, h).state = u
      <4> HIDE DEF r, u
      <4> QED
        BY <3>1 DEF Result
    <3>3. Paid(t, v, m)
      BY <2>2, <2>5, <3>2, SpendBooks
    <3> HIDE DEF r, v
    <3>4. SoundState(v) /\ SoundState(u)
      BY <3>3, BalancesAside DEF Paid, Solid
    <3>5. /\ u.bal = v.bal /\ u.native_supply = v.native_supply /\ u.master = v.master
          /\ u.pool = v.pool /\ u.minted = v.minted /\ u.burned = v.burned
      BY <3>4 DEF SoundState
    <3> HIDE DEF u
    <3>6. Solid(u)
      BY <3>3, <3>4, <3>5 DEF Paid, Solid, Money
    <3>7. Paid(t, u, m)
      BY <3>3, <3>5, <3>6 DEF Paid
    <3> QED
      BY <2>1, <3>2, <3>7 DEF Good
  <2> QED
    BY <1>3, <2>3, <2>4, <2>5 DEF PoolOp
<1> QED
  BY <1>1, <1>2, <1>3 DEF WellFormed

-----------------------------------------------------------------------------
(* The coinbase.                                                            *)

LEMMA SinceSelf ==
    ASSUME NEW s, Solid(s)
    PROVE  Since(s, s) /\ Fresh(s, s)
<1>1. s.minted \in Nat /\ s.burned \in Nat /\ Reward \in Nat
  BY LedgerAssumption DEF Solid, Money
<1> QED
  BY <1>1 DEF Since, Fresh

LEMMA ClearedBooks ==
    ASSUME NEW s, Solid(s)
    PROVE  LET t == ClearEvents(s)
           IN Solid(t) /\ t.pool = s.pool /\ Aside(s, t) /\ t.events = <<>>
<1> DEFINE t == ClearEvents(s)
<1>1. SoundState(s) /\ SoundState(t)
  BY BalancesAside DEF Solid
<1>2. /\ t.pool = s.pool /\ t.bal = s.bal /\ t.minted = s.minted /\ t.burned = s.burned
      /\ t.native_supply = s.native_supply /\ t.master = s.master /\ t.events = <<>>
  BY <1>1 DEF SoundState, ClearEvents
<1> HIDE DEF t
<1>3. Solid(t)
  BY <1>1, <1>2 DEF Solid, Money
<1> QED
  BY <1>2, <1>3, PassedNothing DEF Aside, t

\* The end of a commit, taken or refused.
LEMMA ClosedBooks ==
    ASSUME net \in Networks, NEW r, Solid(r.state), Published(r.state.pool), r.ok \in BOOLEAN
    PROVE  LET c == Closed(r)
           IN /\ Solid(c.state) /\ Published(c.state.pool) /\ Aside(r.state, c.state)
              /\ c.ok \in BOOLEAN
              /\ c.ok <=> r.ok /\ Sum(r.state.bal) + value_locked(r.state.pool) <= MaxSupply
<1> DEFINE s == r.state
           p == Publish(s)
           t == ClearEvents(p)
<1>1. Solid(p) /\ Aside(s, p) /\ Published(p.pool)
  BY PublishBooks
<1>2. WithinCap(s) <=> Sum(s.bal) + value_locked(s.pool) <= MaxSupply
  BY DEF WithinCap, total_issued, Solid, Money
<1> HIDE DEF p
<1>3. Solid(t) /\ t.pool = p.pool /\ Aside(p, t)
  BY <1>1, ClearedBooks
<1>4. Closed(r) = IF r.ok /\ WithinCap(s) THEN Result(TRUE, t) ELSE Result(FALSE, s)
  BY DEF Closed, p
<1> HIDE DEF t
<1>5. Aside(s, t)
  BY <1>1, <1>3 DEF Aside, Passed
<1>6. Aside(s, s)
  BY PassedNothing DEF Aside
<1> QED
  BY <1>1, <1>2, <1>3, <1>4, <1>5, <1>6 DEF Result

LEMMA CommitBalances ==
    ASSUME net \in Networks, NEW s, Solid(s), Published(s.pool), NEW b \in [Wallet -> Nat],
           NEW v \in 0 .. Reward, Sum(b) = Sum(s.bal) + v, NEW h
    PROVE  LET r == Commit(s, [op |-> "SetBalance", bal |-> b, minted |-> v], h)
           IN /\ Solid(r.state) /\ Published(r.state.pool) /\ r.state.bal = b
              /\ value_locked(r.state.pool) = value_locked(s.pool) /\ r.ok \in BOOLEAN
              /\ r.ok <=> Sum(b) + value_locked(s.pool) <= MaxSupply
<1> DEFINE m == [op |-> "SetBalance", bal |-> b, minted |-> v]
           o == OpenGeneration(s, h)
           w == SetBalances(o, m)
           r == Commit(s, m, h)
<1>1. Solid(o) /\ Aside(s, o) /\ (o.pool = s.pool \/ o.pool.anchors_dirty = TRUE)
  BY OpenBooks
<1>2. r = Closed(Mutate(o, m, h)) /\ Mutate(o, m, h) = w
  BY DEF Commit, Mutate
<1> HIDE DEF o
<1>3. Since(o, o) /\ Fresh(o, o)
  BY <1>1, SinceSelf
<1>4. Fair(o, m) /\ m.op = "SetBalance" /\ m.bal = b
  BY <1>1 DEF Fair, Aside, PoolOp
<1> HIDE DEF m
<1>5. Solid(w.state) /\ w.state.pool = o.pool
  BY <1>1, <1>3, <1>4, SetBalancesBooks
<1>6. w.state.bal = b /\ w.ok = TRUE
  BY <1>1, <1>4 DEF SetBalances, Result, Solid, SoundState
<1> HIDE DEF w
<1>7. Published(w.state.pool)
  BY <1>1, <1>5 DEF Published
<1>8. value_locked(w.state.pool) = value_locked(s.pool)
  BY <1>1, <1>5 DEF Aside
<1> DEFINE c == Closed(w)
<1>9. /\ Solid(c.state) /\ Published(c.state.pool) /\ Aside(w.state, c.state) /\ c.ok \in BOOLEAN
      /\ c.ok <=> w.ok /\ Sum(w.state.bal) + value_locked(w.state.pool) <= MaxSupply
  BY <1>5, <1>6, <1>7, ClosedBooks
<1>10. r = c
  BY <1>2
<1> HIDE DEF c, r
<1> QED
  BY <1>6, <1>8, <1>9, <1>10 DEF Aside, r, m

LEMMA CommitTurn ==
    ASSUME net \in Networks, NEW s, Solid(s), Published(s.pool), NEW h, Scheduled(h) # <<>>
    PROVE  LET t == Commit(s, Scheduled(h)[1], h).state
           IN /\ Solid(t) /\ Published(t.pool) /\ t.bal = s.bal
              /\ value_locked(t.pool) = value_locked(s.pool)
<1> DEFINE m == [op |-> "RotateMasterWallet", wallet |-> Rotation[h]]
           o == OpenGeneration(s, h)
           w == RotateMasterWallet(o, m, h)
           c == Closed(w)
<1>1. Scheduled(h)[1] = m /\ h \in DOMAIN Rotation
  BY DEF Scheduled
<1>2. Solid(o) /\ Aside(s, o) /\ (o.pool = s.pool \/ o.pool.anchors_dirty = TRUE)
  BY OpenBooks
<1>3. Commit(s, m, h) = Closed(Mutate(o, m, h)) /\ Mutate(o, m, h) = w
  BY DEF Commit, Mutate
<1> HIDE DEF o
<1>4. w.ok = TRUE
  BY <1>1 DEF RotateMasterWallet, Result
<1>5. Solid(w.state) /\ w.state.pool = o.pool /\ w.state.bal = o.bal
  BY <1>2, <1>4, RotateBooks
<1> HIDE DEF w, m
<1>6. Published(w.state.pool)
  BY <1>2, <1>5 DEF Published
<1>7. Solid(c.state) /\ Published(c.state.pool) /\ Aside(w.state, c.state)
  BY <1>4, <1>5, <1>6, ClosedBooks
<1> HIDE DEF c
<1>8. c.state.bal = s.bal /\ value_locked(c.state.pool) = value_locked(s.pool)
  BY <1>2, <1>5, <1>7 DEF Aside
<1> QED
  BY <1>1, <1>3, <1>7, <1>8 DEF c

\* The writes of one cut mint no more than it: the whole of it when they are for
\* different wallets.
LEMMA CutWritesMint ==
    ASSUME NEW b \in [Wallet -> Nat], NEW to \in Wallet, NEW master \in Wallet \union {NoMaster},
           NEW share \in Nat, NEW fee \in Nat, NEW cut \in Nat, share + fee <= cut,
           master \in {NoMaster, to} => fee = 0
    PROVE  LET c == CutWrites(b, to, master, share, fee, cut)
           IN c \in [Wallet -> Nat] /\ Grown(b, c) \in 0 .. cut
<1> DEFINE x == cut - share - fee
           f == credit_mutation(b, b, to, x)
           g == credit_mutation(f, b, master, fee)
           k == credit_mutation(g, b, Commons, share)
<1>1. x \in Nat /\ Commons \in Wallet /\ NoMaster \notin Wallet /\ IsFiniteSet(Wallet)
  <2>1. x \in Nat
    OBVIOUS
  <2> HIDE DEF x
  <2> QED
    BY <2>1, LedgerAssumption
<1>2. x + share + fee = cut
  OBVIOUS
<1>3. CutWrites(b, to, master, share, fee, cut) = k
  BY DEF CutWrites
<1> HIDE DEF x
<1>4. Sum(b) \in Nat /\ \A w \in Wallet : b[w] \in Nat
  BY <1>1, SumNat
<1>5. f \in [Wallet -> Nat] /\ Sum(f) = Sum(b) + x
  <2>1. CASE x = 0
    <3>1. f = b
      BY <2>1 DEF credit_mutation
    <3> HIDE DEF f
    <3> QED
      BY <1>4, <2>1, <3>1
  <2>2. CASE x # 0
    <3> DEFINE u == [b EXCEPT ![to] = b[to] + x]
    <3>1. f = u
      BY <2>2 DEF credit_mutation
    <3>2. b[to] \in Nat /\ b[to] + x \in Nat
      BY <1>1, <1>4
    <3>3. u \in [Wallet -> Nat] /\ Sum(u) = Sum(b) + (b[to] + x) - b[to]
      BY <1>1, <3>2, SumWritten
    <3> HIDE DEF f, u
    <3> QED
      BY <1>1, <1>4, <3>1, <3>2, <3>3
  <2> QED
    BY <2>1, <2>2
<1>6. \A w \in Wallet : f[w] = b[w] \/ (w = to /\ f[w] = b[w] + x)
  BY <1>1 DEF credit_mutation
<1> HIDE DEF f
<1>7. g \in [Wallet -> Nat] /\ Sum(g) = Sum(b) + x + fee
  <2>1. CASE fee = 0
    <3>1. g = f
      BY <2>1 DEF credit_mutation
    <3> HIDE DEF g
    <3> QED
      BY <1>1, <1>4, <1>5, <2>1, <3>1
  <2>2. CASE fee # 0
    <3> DEFINE v == b[master] + fee
               u == [f EXCEPT ![master] = v]
    <3>1. g = u /\ master \in Wallet /\ master # to
      BY <2>2 DEF credit_mutation
    <3>2. v \in Nat /\ v = b[master] + fee /\ f[master] = b[master] /\ b[master] \in Nat
      BY <1>4, <1>6, <3>1
    <3> HIDE DEF g, v
    <3>3. f \in [Wallet -> Nat] /\ IsFiniteSet(Wallet) /\ v \in Nat /\ master \in Wallet
      BY <1>1, <1>5, <3>1, <3>2
    <3>4. u \in [Wallet -> Nat] /\ Sum(u) = Sum(f) + v - f[master]
      BY <3>3, SumWritten
    <3> HIDE DEF u
    <3> QED
      BY <1>1, <1>4, <1>5, <3>1, <3>2, <3>4
  <2> QED
    BY <2>1, <2>2
<1>8. \A w \in Wallet :
          \/ g[w] = b[w] \/ (w = to /\ g[w] = b[w] + x)
          \/ (w = master /\ w # to /\ g[w] = b[w] + fee)
  BY <1>5, <1>6 DEF credit_mutation
<1> HIDE DEF g
<1>9. k \in [Wallet -> Nat] /\ Grown(b, k) \in 0 .. cut
  <2>1. CASE share = 0
    <3>1. k = g
      BY <2>1 DEF credit_mutation
    <3> HIDE DEF k
    <3> QED
      BY <1>1, <1>2, <1>4, <1>7, <2>1, <3>1 DEF Grown
  <2>2. CASE share # 0
    <3> DEFINE v == b[Commons] + share
               u == [g EXCEPT ![Commons] = v]
    <3>1. k = u
      BY <2>2 DEF credit_mutation
    <3>2. /\ v \in Nat /\ v = b[Commons] + share /\ b[Commons] \in Nat
          /\ g[Commons] \in {b[Commons], b[Commons] + x, b[Commons] + fee}
      BY <1>1, <1>4, <1>8
    <3> HIDE DEF k, v
    <3>3. g \in [Wallet -> Nat] /\ IsFiniteSet(Wallet) /\ v \in Nat /\ Commons \in Wallet
      BY <1>1, <1>7, <3>2
    <3>4. u \in [Wallet -> Nat] /\ Sum(u) = Sum(g) + v - g[Commons]
      BY <3>3, SumWritten
    <3> HIDE DEF u
    <3> QED
      BY <1>1, <1>2, <1>4, <1>7, <3>1, <3>2, <3>4 DEF Grown
  <2> QED
    BY <2>1, <2>2
<1> QED
  BY <1>3, <1>9

\* A cut is credited, or skipped; it is skipped only for being too small or over
\* the cap, and then its writes stay in the copy.
CutOn(s, r, cut) ==
    /\ Solid(r.state) /\ Published(r.state.pool) /\ r.ok \in BOOLEAN
    /\ value_locked(r.state.pool) = value_locked(s.pool)
    /\ \/ r.ok = FALSE /\ r.state = s
       \/ /\ Grown(s.bal, r.state.bal) \in 0 .. cut
          /\ r.ok <=> Sum(r.state.bal) + value_locked(s.pool) <= MaxSupply

LEMMA CreditOne ==
    ASSUME net \in Networks, NEW s, Solid(s), Published(s.pool), NEW to \in Wallet,
           NEW cut \in 0 .. Reward, NEW h
    PROVE  CutOn(s, credit_one(s, to, cut, h), cut)
<1> DEFINE share == IF s.master = NoMaster THEN 0 ELSE Tithe
           fee == IF s.master \in {NoMaster, to} THEN 0 ELSE DevFee
           step == CutWrites(s.bal, to, s.master, share, fee, cut)
           v == Grown(s.bal, step)
           r == Commit(s, [op |-> "SetBalance", bal |-> step, minted |-> v], h)
<1>1. credit_one(s, to, cut, h) = IF cut < share + fee THEN Result(FALSE, s) ELSE r
  BY DEF credit_one
<1>2. /\ share \in Nat /\ fee \in Nat /\ cut \in Nat /\ (s.master \in {NoMaster, to} => fee = 0)
      /\ s.bal \in [Wallet -> Nat] /\ s.master \in Wallet \union {NoMaster} /\ Reward \in Nat
  <2>1. DevFee \in Nat /\ Tithe \in Nat /\ cut \in Nat /\ Reward \in Nat
    BY LedgerAssumption
  <2> QED
    BY <2>1 DEF Solid, Money
<1> HIDE DEF share, fee
<1>3. CASE cut < share + fee
  <2> HIDE DEF r
  <2> QED
    BY <1>1, <1>3 DEF CutOn, Result
<1>4. CASE ~(cut < share + fee)
  <2>1. share + fee <= cut
    BY <1>2, <1>4
  <2>2. step \in [Wallet -> Nat] /\ v \in 0 .. cut
    <3> DEFINE b == s.bal
               master == s.master
    <3>1. /\ b \in [Wallet -> Nat] /\ master \in Wallet \union {NoMaster}
          /\ (master \in {NoMaster, to} => fee = 0) /\ to \in Wallet
          /\ share \in Nat /\ fee \in Nat /\ cut \in Nat /\ share + fee <= cut
      BY <1>2, <2>1
    <3> HIDE DEF b, master
    <3>2. /\ CutWrites(b, to, master, share, fee, cut) \in [Wallet -> Nat]
          /\ Grown(b, CutWrites(b, to, master, share, fee, cut)) \in 0 .. cut
      BY <3>1, CutWritesMint
    <3> QED
      BY <3>2 DEF b, master
  <2> HIDE DEF step
  <2>3. v \in 0 .. Reward /\ Sum(step) = Sum(s.bal) + v
    <3>1. Sum(step) \in Nat /\ Sum(s.bal) \in Nat
      BY <1>2, <2>2, LedgerAssumption, SumNat
    <3> QED
      BY <1>2, <2>2, <3>1 DEF Grown
  <2> HIDE DEF v
  <2>4. /\ Solid(r.state) /\ Published(r.state.pool) /\ r.state.bal = step
        /\ value_locked(r.state.pool) = value_locked(s.pool) /\ r.ok \in BOOLEAN
        /\ r.ok <=> Sum(step) + value_locked(s.pool) <= MaxSupply
    BY <2>2, <2>3, CommitBalances
  <2> HIDE DEF r
  <2> QED
    BY <1>1, <1>4, <2>2, <2>4 DEF CutOn, v
<1> QED
  BY <1>3, <1>4

\* The coinbase mints what it credits, whichever of the two cuts fit.
LEMMA CoinbaseFair ==
    ASSUME net \in Networks, NEW s, Solid(s), Published(s.pool), NEW h
    PROVE  LET m == split_coinbase(s, h)
           IN /\ m.op = "SetBalance" /\ m.bal \in [Wallet -> Nat] /\ m.minted \in 0 .. Reward
              /\ Sum(m.bal) = Sum(s.bal) + m.minted
<1> DEFINE one == credit_one(s, Sharer, SharerCut, h)
           rest == Reward - SharerCut
           two == credit_one(one.state, Winner, rest, h)
           m == split_coinbase(s, h)
           first == Grown(s.bal, one.state.bal)
           second == Grown(one.state.bal, two.state.bal)
<1>1. /\ SharerCut \in 0 .. Reward /\ rest \in 0 .. Reward /\ Reward = SharerCut + rest
      /\ Sharer \in Wallet /\ Winner \in Wallet /\ Reward \in Nat /\ SharerCut \in Nat
      /\ MaxSupply \in Nat
  BY LedgerAssumption
<1>2. m = [op |-> "SetBalance",
           bal |-> IF two.ok THEN two.state.bal ELSE IF one.ok THEN one.state.bal ELSE s.bal,
           minted |-> (IF one.ok THEN first ELSE 0) + (IF two.ok THEN second ELSE 0)]
  BY DEF split_coinbase, Coinbase
<1>3. CutOn(s, one, SharerCut)
  BY <1>1, CreditOne
<1> HIDE DEF one
<1>4. CutOn(one.state, two, rest)
  BY <1>1, <1>3, CreditOne DEF CutOn
<1> HIDE DEF two, rest
<1>5. /\ Sum(s.bal) \in Nat /\ value_locked(s.pool) \in Nat
      /\ s.bal \in [Wallet -> Nat] /\ one.state.bal \in [Wallet -> Nat]
      /\ two.state.bal \in [Wallet -> Nat]
      /\ Sum(one.state.bal) \in Nat /\ Sum(two.state.bal) \in Nat
  BY <1>3, <1>4, MoneyNat, BookedNat DEF CutOn, Solid, Money
<1>6. /\ Sum(one.state.bal) = Sum(s.bal) + first
      /\ Sum(two.state.bal) = Sum(one.state.bal) + second
  BY <1>5 DEF Grown
<1>7. one.ok => first \in 0 .. SharerCut
  BY <1>3 DEF CutOn
<1>8. two.ok => second \in 0 .. rest
  BY <1>4 DEF CutOn
<1>9. two.ok /\ ~one.ok => Sum(one.state.bal) = Sum(s.bal)
  <2>1. SUFFICES ASSUME two.ok, ~one.ok, one.state # s
                 PROVE  FALSE
    OBVIOUS
  <2>2. Sum(one.state.bal) + value_locked(s.pool) > MaxSupply
    BY <1>1, <1>3, <1>5, <2>1 DEF CutOn
  <2>3. Sum(two.state.bal) + value_locked(s.pool) <= MaxSupply /\ second >= 0
    BY <1>3, <1>4, <1>8, <2>1 DEF CutOn
  <2> HIDE DEF second
  <2> QED
    BY <1>1, <1>5, <1>6, <1>8, <2>1, <2>2, <2>3
<1>10. m.op = "SetBalance" /\ m.bal \in [Wallet -> Nat]
  BY <1>2, <1>5
<1> HIDE DEF first, second
<1>11. m.minted \in 0 .. Reward
  <2>1. m.minted = (IF one.ok THEN first ELSE 0) + (IF two.ok THEN second ELSE 0)
    BY <1>2
  <2> HIDE DEF m
  <2> QED
    BY <1>1, <1>7, <1>8, <2>1
<1>12. Sum(m.bal) = Sum(s.bal) + m.minted
  <2>1. CASE two.ok
    <3>1. m.bal = two.state.bal /\ m.minted = (IF one.ok THEN first ELSE 0) + second
      BY <1>2, <2>1
    <3> HIDE DEF m
    <3> QED
      BY <1>1, <1>5, <1>6, <1>7, <1>8, <1>9, <2>1, <3>1
  <2>2. CASE ~two.ok /\ one.ok
    <3>1. m.bal = one.state.bal /\ m.minted = first + 0
      BY <1>2, <2>2
    <3> HIDE DEF m
    <3> QED
      BY <1>1, <1>5, <1>6, <1>7, <2>2, <3>1
  <2>3. CASE ~two.ok /\ ~one.ok
    <3>1. m.bal = s.bal /\ m.minted = 0 + 0
      BY <1>2, <2>3
    <3> HIDE DEF m
    <3> QED
      BY <1>1, <1>5, <3>1
  <2> QED
    BY <2>1, <2>2, <2>3
<1> QED
  BY <1>10, <1>11, <1>12

-----------------------------------------------------------------------------
(* The inductive invariant.                                                 *)

\* The settled state: its coin is accounted for, within the cap, its roots are
\* published and nothing of a block is left over.
Accounted ==
    /\ Solid(state) /\ Published(state.pool) /\ state.pool.anchors_dirty = FALSE
    /\ state.events = <<>> /\ Sum(state.bal) + value_locked(state.pool) <= MaxSupply

\* The follower's copy, at any point of a block.
Following == Solid(next) /\ Published(next.pool) /\ Since(state, next)

\* A coinbase comes before every payment.
FairBody(s, t, b) ==
    \A k \in DOMAIN b :
        /\ Fair(s, b[k])
        /\ b[k].op = "SetBalance" =>
             Fresh(s, t) /\ \A j \in DOMAIN b : j < k => b[j].op = "RotateMasterWallet"

Control ==
    /\ height \in 0 .. MaxHeight /\ room \in 0 .. MaxOffers
    /\ phase \in {"idle", "building", "applying"}
    /\ phase # "idle" => height < MaxHeight
    /\ phase = "building" => next = state
    /\ phase = "idle" => work = state /\ next = state /\ body = <<>>

BooksInv == IndInv /\ Accounted /\ Following /\ FairBody(state, next, body) /\ Control

\* The build does not change.
LEMMA NetKept ==
    ASSUME net' = net
    PROVE  /\ Solid(state') => Solid(state)'
           /\ Solid(next') => Solid(next)'
           /\ Published(state'.pool) => Published(state.pool)'
           /\ Published(next'.pool) => Published(next.pool)'
           /\ FairBody(state', next', body') => FairBody(state, next, body)'
<1>1. Solid(state') => Solid(state)'
  BY DEF Solid, Ready, OfNet
<1>2. Solid(next') => Solid(next)'
  BY DEF Solid, Ready, OfNet
<1>3. Published(state'.pool) => Published(state.pool)'
  BY DEF Published
<1>4. Published(next'.pool) => Published(next.pool)'
  BY DEF Published
<1>5. FairBody(state', next', body') => FairBody(state, next, body)'
  BY DEF FairBody, Fair, IsOffer
<1> QED
  BY <1>1, <1>2, <1>3, <1>4, <1>5

\* What is to be shown of a step.
LEMMA StepBooks ==
    ASSUME net' = net, IndInv', Control',
           Solid(state'), Published(state'.pool), state'.pool.anchors_dirty = FALSE,
           state'.events = <<>>, Sum(state'.bal) + value_locked(state'.pool) <= MaxSupply,
           Solid(next'), Published(next'.pool), Since(state', next'),
           FairBody(state', next', body')
    PROVE  BooksInv'
<1>1. Accounted'
  BY NetKept DEF Accounted
<1>2. Following'
  BY NetKept DEF Following
<1>3. FairBody(state, next, body)'
  BY NetKept
<1> QED
  BY <1>1, <1>2, <1>3 DEF BooksInv

LEMMA NothingToApply ==
    ASSUME NEW s, NEW t
    PROVE  FairBody(s, t, <<>>)
<1>1. DOMAIN <<>> = {}
  OBVIOUS
<1> QED
  BY <1>1 DEF FairBody

LEMMA EmptyReady == Ready(EmptyPool) /\ Booked(EmptyPool) /\ Published(EmptyPool)
<1> DEFINE p == EmptyPool
<1>1. /\ p.notes = <<>> /\ p.v7 = Unopened /\ p.epoch = 0 /\ p.v1_closed = FALSE
      /\ p.archive = <<>> /\ p.anchors = <<>> /\ p.anchor_epoch = <<>> /\ p.nullifiers = {}
      /\ p.value_locked = 0 /\ p.anchors_dirty = FALSE
  BY DEF EmptyPool
<1>2. /\ Unopened.epoch = 0 /\ Unopened.notes = <<>> /\ Unopened.value_locked = 0
      /\ DOMAIN <<>> = {} /\ Len(<<>>) = 0
  BY DEF Unopened
<1>3. Sound(p)
  BY EmptySound
<1> HIDE DEF p
<1>4. ~v7_active(p)
  BY <1>1, <1>2 DEF v7_active
<1>5. \A t \in Trees(p) : DOMAIN t.notes = {}
  BY <1>1, <1>2, <1>4, TreesAre DEF Tree
<1>6. MarksReal(p)
  BY <1>1 DEF MarksReal
<1>7. WindowKnown(p)
  BY <1>1, <1>2 DEF WindowKnown, IsInjective, ToSet
<1>8. Sizes(p)
  <2>1. Capacity \in Nat /\ AnchorWindow \in Nat
    BY PoolAssumption
  <2>2. Len(p.notes) = 0 /\ Len(p.v7.notes) = 0 /\ Len(p.anchors) = 0
    BY <1>1, <1>2
  <2> QED
    BY <2>1, <2>2 DEF Sizes
<1>9. OfNet(p)
  BY <1>4 DEF OfNet
<1>10. Booked(p)
  <2>1. \A g : OpenIn(p, g) = {}
    BY <1>5 DEF OpenIn
  <2>2. {} \in SUBSET Commitment
    OBVIOUS
  <2>3. Worth({}) = 0
    BY <2>2, WorthAdds
  <2>4. \A g : value_locked_in(p, g) = 0
    BY <1>1, <1>2 DEF value_locked_in
  <2> QED
    BY <2>1, <2>3, <2>4 DEF Booked
<1>11. Published(p)
  BY <1>1, <1>2, <1>4 DEF Published
<1> QED
  BY <1>3, <1>6, <1>7, <1>8, <1>9, <1>10, <1>11 DEF Ready, p

LEMMA InitBooks == Init => BooksInv
<1> SUFFICES ASSUME Init PROVE BooksInv
  OBVIOUS
<1>1. PICK master \in GenesisMaster : state = Genesis(master)
  BY DEF Init
<1>2. /\ state.bal = Premine /\ state.native_supply = Sum(Premine) /\ state.master = master
      /\ state.pool = EmptyPool /\ state.events = <<>> /\ state.minted = Sum(Premine)
      /\ state.burned = 0
  BY <1>1 DEF Genesis
<1>3. /\ Premine \in [Wallet -> Nat] /\ master \in Wallet \union {NoMaster}
      /\ Sum(Premine) \in Nat /\ Sum(Premine) <= MaxSupply
  BY LedgerAssumption, SumNat
<1>4. IndInv
  BY InitInd
<1>5. value_locked(state.pool) = 0 /\ state.pool.anchors_dirty = FALSE
  BY <1>2 DEF value_locked, EmptyPool, Unopened
<1>6. Money(state)
  BY <1>2, <1>3 DEF Money
<1>7. Solid(state)
  <2>1. state.minted = Sum(state.bal) + value_locked(state.pool) + state.burned
    BY <1>2, <1>3, <1>5
  <2> QED
    BY <1>2, <1>4, <1>6, <2>1, EmptyReady DEF Solid, IndInv
<1>8. Accounted
  BY <1>2, <1>3, <1>5, <1>7, EmptyReady DEF Accounted
<1>9. next = state /\ body = <<>>
  BY DEF Init
<1>10. Following
  BY <1>7, <1>8, <1>9, SinceSelf DEF Following, Accounted
<1>11. Control
  BY LedgerAssumption DEF Control, Init
<1> QED
  BY <1>4, <1>8, <1>9, <1>10, <1>11, NothingToApply DEF BooksInv

\* A mutation at the end of the body, and the body without its first.
LEMMA FairLonger ==
    ASSUME NEW s, NEW t, NEW b, IsBody(b), FairBody(s, t, b), NEW m, Fair(s, m),
           m.op = "SetBalance" =>
              Fresh(s, t) /\ \A j \in DOMAIN b : b[j].op = "RotateMasterWallet"
    PROVE  FairBody(s, t, Append(b, m))
<1>1. PICK U : BodyOver(b, U)
  BY DEF IsBody
<1>2. b \in Seq(U)
  BY <1>1 DEF BodyOver
<1> DEFINE c == Append(b, m)
<1>3. /\ DOMAIN b = 1 .. Len(b) /\ DOMAIN c = 1 .. (Len(b) + 1) /\ Len(b) \in Nat
      /\ c[Len(b) + 1] = m /\ \A i \in DOMAIN b : c[i] = b[i]
  BY <1>2
<1> HIDE DEF c
<1>4. /\ \A i \in DOMAIN c : i \in DOMAIN b \/ i = Len(b) + 1
      /\ \A i \in DOMAIN b : \A j \in DOMAIN c : j < i => j \in DOMAIN b
      /\ \A j \in DOMAIN c : j < Len(b) + 1 => j \in DOMAIN b
  BY <1>3
<1> SUFFICES ASSUME NEW k \in DOMAIN c
             PROVE  /\ Fair(s, c[k])
                    /\ c[k].op = "SetBalance" =>
                         Fresh(s, t) /\ \A j \in DOMAIN c : j < k => c[j].op = "RotateMasterWallet"
  BY DEF FairBody, c
<1>5. CASE k \in DOMAIN b
  BY <1>3, <1>4, <1>5 DEF FairBody
<1>6. CASE k = Len(b) + 1
  BY <1>3, <1>4, <1>6
<1> QED
  BY <1>4, <1>5, <1>6

LEMMA FairShorter ==
    ASSUME NEW s, NEW t, NEW u, NEW b, IsBody(b), b # <<>>, FairBody(s, t, b),
           Head(b).op = "RotateMasterWallet" /\ Fresh(s, t) => Fresh(s, u)
    PROVE  /\ Fair(s, Head(b)) /\ (Head(b).op = "SetBalance" => Fresh(s, t))
           /\ FairBody(s, u, Tail(b))
<1>1. PICK U : BodyOver(b, U)
  BY DEF IsBody
<1>2. b \in Seq(U)
  BY <1>1 DEF BodyOver
<1> DEFINE c == Tail(b)
<1>3. Len(b) \in Nat /\ Len(b) > 0
  <2>1. Len(b) \in Nat /\ Len(b) # 0
    BY <1>2, EmptySeq
  <2> QED
    BY <2>1
<1>4. c \in Seq(U) /\ Len(c) = Len(b) - 1 /\ Head(b) = b[1]
  BY <1>2, HeadTailProperties
<1>5. \A i \in 1 .. Len(c) : c[i] = b[i + 1]
  BY <1>2, <1>4, HeadTailProperties
<1> HIDE DEF c
<1>6. /\ DOMAIN b = 1 .. Len(b) /\ DOMAIN c = 1 .. (Len(b) - 1) /\ 1 \in DOMAIN b
      /\ \A i \in DOMAIN c : c[i] = b[i + 1]
  BY <1>2, <1>3, <1>4, <1>5
<1>7. \A i \in DOMAIN c : i + 1 \in DOMAIN b /\ 1 < i + 1 /\ i \in Int
  BY <1>3, <1>6
<1>8. Fair(s, Head(b)) /\ (Head(b).op = "SetBalance" => Fresh(s, t))
  BY <1>4, <1>6 DEF FairBody
<1>9. ASSUME NEW k \in DOMAIN c
      PROVE  /\ Fair(s, c[k])
             /\ c[k].op = "SetBalance" =>
                  Fresh(s, u) /\ \A j \in DOMAIN c : j < k => c[j].op = "RotateMasterWallet"
  <2>1. c[k] = b[k + 1] /\ k + 1 \in DOMAIN b
    BY <1>6, <1>7
  <2>2. ASSUME c[k].op = "SetBalance"
        PROVE  Fresh(s, u) /\ \A j \in DOMAIN c : j < k => c[j].op = "RotateMasterWallet"
    <3>1. /\ Fresh(s, t)
          /\ \A j \in DOMAIN b : j < k + 1 => b[j].op = "RotateMasterWallet"
      BY <2>1, <2>2 DEF FairBody
    <3>2. Fresh(s, u)
      BY <1>4, <1>6, <1>7, <3>1
    <3>3. ASSUME NEW j \in DOMAIN c, j < k PROVE c[j].op = "RotateMasterWallet"
      <4>1. j + 1 < k + 1 /\ j + 1 \in DOMAIN b /\ c[j] = b[j + 1]
        BY <1>6, <1>7, <3>3
      <4> QED
        BY <3>1, <4>1
    <3> QED
      BY <3>2, <3>3
  <2> QED
    BY <2>1, <2>2 DEF FairBody
<1>10. FairBody(s, u, c)
  BY <1>9 DEF FairBody
<1> QED
  BY <1>8, <1>10 DEF c

LEMMA ProposeBooks == BooksInv /\ Propose => BooksInv'
<1> SUFFICES ASSUME BooksInv, Propose PROVE BooksInv'
  OBVIOUS
<1> DEFINE turned == IF Scheduled(height) = <<>> THEN state
                     ELSE Commit(state, Scheduled(height)[1], height).state
           coins == split_coinbase(turned, height)
           first == Scheduled(height)
<1>1. /\ net' = net /\ height' = height /\ state' = state /\ next' = next
      /\ phase' = "building" /\ room' = MaxOffers /\ phase = "idle" /\ height < MaxHeight
  BY DEF Propose
<1>2. body' = first \/ body' = Append(first, coins)
  BY DEF Propose
<1>3. IndInv'
  BY ProposeInd DEF BooksInv
<1>4. /\ net \in Networks /\ Solid(state) /\ Published(state.pool) /\ next = state
      /\ state.pool.anchors_dirty = FALSE /\ state.events = <<>>
      /\ Sum(state.bal) + value_locked(state.pool) <= MaxSupply /\ Since(state, next)
  BY <1>1 DEF BooksInv, IndInv, Accounted, Following, Control
<1>5. Solid(turned) /\ Published(turned.pool) /\ turned.bal = state.bal
  BY <1>4, CommitTurn
<1>6. Fresh(state, next)
  BY <1>4 DEF Fresh
<1> HIDE DEF turned
<1>7. /\ coins.op = "SetBalance" /\ coins.bal \in [Wallet -> Nat] /\ coins.minted \in 0 .. Reward
      /\ Sum(coins.bal) = Sum(state.bal) + coins.minted
  BY <1>4, <1>5, CoinbaseFair
<1> HIDE DEF coins
<1>8. Fair(state, coins)
  BY <1>7 DEF Fair, PoolOp
<1>9. IsBody(first)
  BY ScheduledBody
<1>10. \A j \in DOMAIN first : first[j].op = "RotateMasterWallet"
  BY DEF Scheduled
<1> HIDE DEF first
<1>11. FairBody(state, next, first)
  BY <1>10 DEF FairBody, Fair, PoolOp
<1>12. FairBody(state, next, Append(first, coins))
  BY <1>6, <1>8, <1>9, <1>10, <1>11, FairLonger
<1>13. FairBody(state', next', body')
  BY <1>1, <1>2, <1>11, <1>12
<1>14. Control'
  BY <1>1, <1>4, LedgerAssumption DEF Control, BooksInv
<1> QED
  BY <1>1, <1>3, <1>4, <1>13, <1>14, StepBooks

\* The roots a wallet can know are of notes that are held.
LEMMA AnchorsHeld ==
    ASSUME Ready(state.pool), NEW r \in Anchors
    PROVE  ToSet(r[2]) \subseteq Held(state.pool)
<1> DEFINE p == state.pool
<1>1. Sound(p) /\ WindowKnown(p)
  BY DEF Ready
<1> SUFFICES ASSUME NEW cm \in ToSet(r[2]) PROVE cm \in Held(p)
  OBVIOUS
<1>2. \A t : t \in Trees(p) => ToSet(t.notes) \subseteq Held(p)
  BY <1>1, HeldInTrees DEF Sound
<1>3. CASE r \in ToSet(p.anchors)
  <2>1. r \in DOMAIN p.anchor_epoch /\ r \in Root
    BY <1>1, <1>3 DEF WindowKnown, Sound, IsPool
  <2>2. PICK i \in DOMAIN r[2] : cm = r[2][i]
    BY DEF ToSet
  <2>3. Len(r[2]) > 0
    <3>1. r[2] \in Seq(Commitment)
      BY <2>1 DEF Root
    <3> DEFINE n == r[2]
    <3>2. n \in Seq(Commitment) /\ i \in DOMAIN n
      BY <2>2, <3>1
    <3> HIDE DEF n
    <3>3. Len(n) > 0
      BY <3>2
    <3> QED
      BY <3>3 DEF n
  <2>4. PICK t \in Trees(p) : \A k \in DOMAIN r[2] : k \in DOMAIN t.notes /\ t.notes[k] = r[2][k]
    BY <1>1, <2>1, <2>3 DEF Sound, EpochsNamed
  <2>5. cm \in ToSet(t.notes)
    BY <2>2, <2>4 DEF ToSet
  <2> QED
    BY <1>2, <2>4, <2>5
<1>4. CASE \E a \in ToSet(p.archive) : r = SealedRoot(a)
  <2>1. PICK a \in ToSet(p.archive) : r = SealedRoot(a)
    BY <1>4
  <2>2. cm \in ToSet(a.notes)
    BY <2>1 DEF SealedRoot
  <2> QED
    BY <2>1, <2>2 DEF Held
<1> QED
  BY <1>3, <1>4 DEF Anchors

LEMMA IncludeBooks ==
    ASSUME BooksInv, NEW tx \in Offers, Honest(tx), Include(tx)
    PROVE  BooksInv'
<1>1. /\ net' = net /\ height' = height /\ state' = state /\ next' = next
      /\ phase' = phase /\ phase = "building" /\ room' = room - 1 /\ room > 0
      /\ body' = body \/ body' = Append(body, tx)
  BY DEF Include
<1>2. IndInv'
  BY IncludeInd DEF BooksInv
<1>3. /\ net \in Networks /\ Solid(state) /\ Published(state.pool) /\ IsBody(body)
      /\ state.pool.anchors_dirty = FALSE /\ state.events = <<>>
      /\ Sum(state.bal) + value_locked(state.pool) <= MaxSupply /\ Since(state, next)
      /\ Solid(next) /\ Published(next.pool) /\ FairBody(state, next, body)
  BY DEF BooksInv, IndInv, Accounted, Following
<1>4. PICK t \in Payments[net], r \in Anchors \union {NoAnchor} :
             tx = [op |-> t.op, pay |-> t, anchor |-> r]
  BY DEF Offers
<1>5. t.op \in PoolOp
  BY <1>3, LedgerAssumption DEF PoolOp
<1>6. tx.op = t.op /\ tx.pay = t /\ tx.anchor = r
  BY <1>4
<1>7. IsOffer(tx) /\ tx.op # "SetBalance"
  BY <1>5, <1>6 DEF IsOffer, PoolOp
<1>8. tx.op # "Shield" => ToSet(tx.pay.ins) \subseteq Held(state.pool)
  <2> SUFFICES ASSUME tx.op # "Shield" PROVE ToSet(tx.pay.ins) \subseteq Held(state.pool)
    OBVIOUS
  <2>1. r \in Anchors /\ ToSet(tx.pay.ins) \subseteq ToSet(r[2])
    BY <1>4, <1>6 DEF Honest, Proves
  <2>2. ToSet(r[2]) \subseteq Held(state.pool)
    BY <1>3, <2>1, AnchorsHeld DEF Solid
  <2> QED
    BY <2>1, <2>2
<1>9. Fair(state, tx)
  BY <1>7, <1>8 DEF Fair
<1>10. FairBody(state, next, Append(body, tx))
  BY <1>3, <1>7, <1>9, FairLonger
<1>11. FairBody(state', next', body')
  BY <1>1, <1>3, <1>10
<1>12. Control'
  BY <1>1, LedgerAssumption DEF Control, BooksInv
<1> QED
  BY <1>1, <1>2, <1>3, <1>11, <1>12, StepBooks

LEMMA DiscardBooks == BooksInv /\ Discard => BooksInv'
<1> SUFFICES ASSUME BooksInv, Discard PROVE BooksInv'
  OBVIOUS
<1>1. /\ net' = net /\ height' = height /\ state' = state /\ next' = state /\ work' = state
      /\ body' = <<>> /\ phase' = "idle" /\ room' = 0
  BY DEF Discard
<1>2. IndInv'
  BY DiscardInd DEF BooksInv
<1>3. /\ Solid(state) /\ Published(state.pool)
      /\ state.pool.anchors_dirty = FALSE /\ state.events = <<>>
      /\ Sum(state.bal) + value_locked(state.pool) <= MaxSupply /\ Since(state, state)
  BY SinceSelf DEF BooksInv, Accounted
<1>4. Control'
  BY <1>1, LedgerAssumption DEF Control, BooksInv
<1> QED
  BY <1>1, <1>2, <1>3, <1>4, NothingToApply, StepBooks

LEMMA SealBodyBooks == BooksInv /\ Seal_Body => BooksInv'
<1> SUFFICES ASSUME BooksInv, Seal_Body, ~Discard PROVE BooksInv'
  BY DiscardBooks
<1> DEFINE t == OpenGeneration(state, height)
<1>1. /\ net' = net /\ height' = height /\ state' = state /\ next' = t /\ body' = body
      /\ phase' = "applying" /\ room' = 0 /\ phase = "building"
  BY DEF Seal_Body
<1>2. IndInv'
  BY SealBodyInd DEF BooksInv
<1>3. /\ net \in Networks /\ Solid(state) /\ Published(state.pool) /\ next = state
      /\ state.pool.anchors_dirty = FALSE /\ state.events = <<>>
      /\ Sum(state.bal) + value_locked(state.pool) <= MaxSupply /\ Since(state, state)
      /\ Fresh(state, state) /\ FairBody(state, next, body)
  BY <1>1, SinceSelf DEF BooksInv, IndInv, Accounted, Control
<1>4. Solid(t) /\ Aside(state, t) /\ (t.pool = state.pool \/ t.pool.anchors_dirty = TRUE)
  BY <1>3, OpenBooks
<1> HIDE DEF t
<1>5. Published(t.pool)
  BY <1>3, <1>4 DEF Published
<1>6. Since(state, t) /\ Fresh(state, t)
  BY <1>3, <1>4, SinceAside
<1>7. FairBody(state, t, body)
  BY <1>3, <1>6 DEF FairBody
<1>8. Control'
  BY <1>1, LedgerAssumption DEF Control, BooksInv
<1> QED
  BY <1>1, <1>2, <1>3, <1>4, <1>5, <1>6, <1>7, <1>8, StepBooks

LEMMA ApplyMutationBooks == BooksInv /\ ApplyMutation => BooksInv'
<1> SUFFICES ASSUME BooksInv, ApplyMutation, ~Discard PROVE BooksInv'
  BY DiscardBooks
<1> DEFINE m == Head(body)
           r == Mutate(next, m, height)
           u == r.state
<1>1. /\ r.ok /\ next' = u /\ body' = Tail(body) /\ body # <<>> /\ phase = "applying"
      /\ UNCHANGED <<net, height, state, phase, work, room>>
  BY DEF ApplyMutation
<1>2. IndInv'
  BY ApplyMutationInd DEF BooksInv
<1>3. /\ net \in Networks /\ Solid(state) /\ Published(state.pool) /\ IsBody(body)
      /\ state.pool.anchors_dirty = FALSE /\ state.events = <<>>
      /\ Sum(state.bal) + value_locked(state.pool) <= MaxSupply /\ Since(state, next)
      /\ Solid(next) /\ Published(next.pool) /\ FairBody(state, next, body)
  BY DEF BooksInv, IndInv, Accounted, Following
<1>4. Fair(state, m) /\ (m.op = "SetBalance" => Fresh(state, next)) /\ WellFormed(m)
  BY <1>1, <1>3, FairShorter, ShorterBody
<1>5. /\ Solid(u) /\ Since(state, u) /\ (u.pool = next.pool \/ u.pool.anchors_dirty = TRUE)
      /\ m.op = "RotateMasterWallet" /\ Fresh(state, next) => Fresh(state, u)
  BY <1>1, <1>3, <1>4, MutateBooks
<1> HIDE DEF r
<1>6. FairBody(state, u, Tail(body))
  BY <1>1, <1>3, <1>5, FairShorter
<1>7. Published(u.pool)
  BY <1>3, <1>5 DEF Published
<1>8. Control'
  BY <1>1 DEF Control, BooksInv
<1> QED
  BY <1>1, <1>2, <1>3, <1>5, <1>6, <1>7, <1>8, StepBooks

\* What is settled is the follower's copy with its roots published.
LEMMA Settled ==
    ASSUME BooksInv, Settle, ~Discard
    PROVE  /\ state' = ClearEvents(Publish(next)) /\ work' = state' /\ next' = state'
           /\ body = <<>> /\ phase' = "idle" /\ height' = height + 1 /\ height < MaxHeight
           /\ UNCHANGED <<net, body, room>>
           /\ Solid(state') /\ Aside(next, state') /\ Published(state'.pool)
           /\ state'.pool.anchors_dirty = FALSE /\ state'.events = <<>>
           /\ Sum(state'.bal) + value_locked(state'.pool) <= MaxSupply
<1> DEFINE done == Publish(next)
           t == ClearEvents(done)
<1>1. /\ state' = t /\ work' = state' /\ next' = state' /\ body = <<>> /\ phase' = "idle"
      /\ height' = height + 1 /\ UNCHANGED <<net, body, room>> /\ WithinCap(next)
      /\ phase = "applying"
  BY DEF Settle
<1>2. net \in Networks /\ Solid(next) /\ Published(next.pool) /\ height < MaxHeight
  BY <1>1 DEF BooksInv, IndInv, Following, Control
<1>3. Solid(done) /\ Aside(next, done) /\ Published(done.pool) /\ done.pool.anchors_dirty = FALSE
  BY <1>2, PublishBooks
<1> HIDE DEF done
<1>4. Solid(t) /\ t.pool = done.pool /\ Aside(done, t) /\ t.events = <<>>
  BY <1>3, ClearedBooks
<1> HIDE DEF t
<1>5. Aside(next, t)
  BY <1>3, <1>4 DEF Aside, Passed
<1>6. Sum(t.bal) + value_locked(t.pool) <= MaxSupply
  BY <1>1, <1>2, <1>5 DEF WithinCap, total_issued, Solid, Money, Aside
<1> QED
  BY <1>1, <1>2, <1>3, <1>4, <1>5, <1>6 DEF t, done

LEMMA SettleBooks == BooksInv /\ Settle => BooksInv'
<1> SUFFICES ASSUME BooksInv, Settle, ~Discard PROVE BooksInv'
  BY DiscardBooks
<1>1. /\ work' = state' /\ next' = state' /\ body = <<>> /\ phase' = "idle"
      /\ height' = height + 1 /\ height < MaxHeight /\ UNCHANGED <<net, body, room>>
      /\ Solid(state') /\ Published(state'.pool)
      /\ state'.pool.anchors_dirty = FALSE /\ state'.events = <<>>
      /\ Sum(state'.bal) + value_locked(state'.pool) <= MaxSupply
  BY Settled
<1>2. IndInv'
  BY SettleInd DEF BooksInv
<1>3. Since(state', next')
  BY <1>1, SinceSelf
<1>4. Control'
  <2>1. height \in 0 .. MaxHeight /\ MaxHeight \in Nat /\ room' = room /\ body' = <<>>
        /\ room \in 0 .. MaxOffers
    BY <1>1, LedgerAssumption DEF BooksInv, Control
  <2>2. height + 1 \in 0 .. MaxHeight
    BY <1>1, <2>1
  <2> QED
    BY <1>1, <2>1, <2>2 DEF Control
<1> QED
  BY <1>1, <1>2, <1>3, <1>4, NothingToApply, StepBooks

LEMMA Restarted ==
    ASSUME BooksInv, Restart
    PROVE  /\ work' = state' /\ next' = state' /\ body = <<>>
           /\ UNCHANGED <<net, height, phase, body, room>>
           /\ Solid(state') /\ Aside(state, state') /\ Published(state'.pool)
           /\ state'.pool.anchors_dirty = FALSE /\ state'.events = <<>>
<1> DEFINE t == InPool(state, Reloaded(state.pool))
<1>1. /\ state' = t /\ work' = state' /\ next' = state' /\ phase = "idle"
      /\ UNCHANGED <<net, height, phase, body, room>>
  BY DEF Restart
<1>2. /\ Solid(state) /\ Published(state.pool) /\ state.pool.anchors_dirty = FALSE
      /\ state.events = <<>> /\ body = <<>>
  BY <1>1 DEF BooksInv, Accounted, Control
<1>3. Solid(t) /\ Aside(state, t) /\ Published(t.pool) /\ t.pool.anchors_dirty = FALSE
  BY <1>2, ReloadedBooks
<1>4. t.events = state.events
  BY <1>2 DEF InPool, Solid, SoundState
<1> HIDE DEF t
<1> QED
  BY <1>1, <1>2, <1>3, <1>4

LEMMA RestartBooks == BooksInv /\ Restart => BooksInv'
<1> SUFFICES ASSUME BooksInv, Restart PROVE BooksInv'
  OBVIOUS
<1>1. /\ work' = state' /\ next' = state' /\ body = <<>>
      /\ UNCHANGED <<net, height, phase, body, room>>
      /\ Solid(state') /\ Aside(state, state') /\ Published(state'.pool)
      /\ state'.pool.anchors_dirty = FALSE /\ state'.events = <<>>
  BY Restarted
<1>2. IndInv'
  BY RestartInd DEF BooksInv
<1>3. Since(state', next')
  BY <1>1, SinceSelf
<1>4. Sum(state'.bal) + value_locked(state'.pool) <= MaxSupply
  BY <1>1 DEF Aside, BooksInv, Accounted
<1>5. Control'
  BY <1>1 DEF Control, BooksInv
<1> QED
  BY <1>1, <1>2, <1>3, <1>4, <1>5, NothingToApply, StepBooks

LEMMA NextBooks == BooksInv /\ [Next]_vars => BooksInv'
<1> SUFFICES ASSUME BooksInv, [Next]_vars PROVE BooksInv'
  OBVIOUS
<1>1. CASE UNCHANGED vars
  <2>1. /\ net' = net /\ height' = height /\ state' = state /\ phase' = phase /\ work' = work
        /\ body' = body /\ next' = next /\ room' = room
    BY <1>1 DEF vars
  <2>2. IndInv'
    BY <1>1, NextInd DEF BooksInv
  <2>3. Control'
    BY <2>1 DEF BooksInv, Control
  <2> QED
    BY <2>1, <2>2, <2>3, StepBooks DEF BooksInv, Accounted, Following
<1>2. CASE \E tx \in Offers : Honest(tx) /\ Include(tx)
  BY <1>2, IncludeBooks
<1> QED
  BY <1>1, <1>2, ProposeBooks, SealBodyBooks, ApplyMutationBooks, SettleBooks, RestartBooks DEF Next

-----------------------------------------------------------------------------
(* What follows between blocks.                                             *)

LEMMA BooksTypes == BooksInv => TypeOK
<1> SUFFICES ASSUME BooksInv PROVE TypeOK
  OBVIOUS
<1>1. Accounted /\ Control /\ net \in Networks
  BY DEF BooksInv, IndInv
<1>2. /\ Money(state) /\ Ready(state.pool) /\ Sound(state.pool) /\ Booked(state.pool)
      /\ state.native_supply \in Nat
  BY <1>1, MoneyNat DEF Accounted, Solid, Ready
<1>3. SettledState(state)
  BY <1>1, <1>2, BookedNat
     DEF SettledState, Money, Accounted, Ready, Sound, IsPool, Sizes, WindowKnown
<1> QED
  BY <1>1, <1>3 DEF TypeOK, Control

LEMMA BooksBacked == BooksInv => ValueBacked /\ CapHolds
<1> SUFFICES ASSUME BooksInv PROVE ValueBacked /\ CapHolds
  OBVIOUS
<1> DEFINE p == state.pool
<1>1. /\ Sound(p) /\ Booked(p) /\ state.native_supply = Sum(state.bal)
      /\ Sum(state.bal) + value_locked(p) <= MaxSupply
  BY DEF BooksInv, Accounted, Solid, Money, Ready
<1>2. \A g : Commitments({n \in Unspent(p) : n.tree.generation = g}) = OpenIn(p, g)
  BY <1>1, UnspentOpen
<1>3. Commitments(Unspent(p)) = Opens(p)
  BY <1>1, UnspentOpen DEF Opens
<1>4. Worth(Opens(p)) = value_locked(p)
  BY <1>1, OpensWorth
<1>5. CapHolds
  BY <1>1, <1>3, <1>4 DEF CapHolds
<1>6. ValueBacked
  BY <1>1, <1>2 DEF ValueBacked, Booked
<1> QED
  BY <1>5, <1>6

\* A known root of a tree has the epoch and the generation of that tree.
LEMMA KnownRoot ==
    ASSUME NEW p, Ready(p), NEW t \in Trees(p), NEW i \in DOMAIN t.notes,
           \/ TreeRoot(t) \in ToSet(p.anchors)
           \/ \E a \in ToSet(p.archive) : TreeRoot(t) = SealedRoot(a)
    PROVE  /\ epoch_of_anchor(p, TreeRoot(t)) = t.epoch
           /\ generation_of_anchor(p, TreeRoot(t)) = t.generation
<1> DEFINE r == TreeRoot(t)
           e == epoch_of_anchor(p, r)
           sealed == {k \in DOMAIN p.archive : SealedRoot(p.archive[k]) = r}
           least == CHOOSE k \in sealed : \A j \in sealed : k <= j
<1>1. Sound(p) /\ WindowKnown(p) /\ IsPool(p) /\ Numbered(p)
  BY DEF Ready, Sound
<1>2. r[1] = t.generation /\ r[2] = t.notes
  BY DEF TreeRoot
<1>3. DOMAIN p.archive = 1 .. Len(p.archive) /\ Len(p.archive) \in Nat
  BY <1>1 DEF IsPool
<1>4. t.epoch \in Nat
  <2>1. p.epoch \in Nat /\ p.v7.epoch \in Nat
    BY <1>1 DEF IsPool
  <2>2. \A k \in DOMAIN p.archive : k - 1 \in Nat
    BY <1>3
  <2> QED
    BY <2>1, <2>2, TreesAre DEF Tree
<1>5. ASSUME NEW u \in Trees(p), \A k \in DOMAIN r[2] : k \in DOMAIN u.notes /\ u.notes[k] = r[2][k]
      PROVE  u = t
  <2>1. i \in DOMAIN u.notes /\ u.notes[i] = t.notes[i]
    BY <1>2, <1>5
  <2> QED
    BY <1>1, <2>1, OnePlace
<1>6. e # NoEpoch
  <2>1. CASE r \in DOMAIN p.anchor_epoch
    <3>1. Len(r[2]) > 0
      <4> DEFINE ns == t.notes
      <4>1. ns \in Seq(Commitment) /\ i \in DOMAIN ns
        BY <1>1, TreeType
      <4> HIDE DEF ns
      <4>2. Len(ns) > 0
        BY <4>1
      <4> QED
        BY <1>2, <4>2 DEF ns
    <3>2. PICK u \in Trees(p) :
                 /\ u.epoch = p.anchor_epoch[r]
                 /\ \A k \in DOMAIN r[2] : k \in DOMAIN u.notes /\ u.notes[k] = r[2][k]
      BY <1>1, <2>1, <3>1 DEF Sound, EpochsNamed
    <3>3. e = t.epoch
      BY <1>5, <2>1, <3>2 DEF epoch_of_anchor
    <3> QED
      BY <1>4, <3>3 DEF NoEpoch
  <2>2. CASE r \notin DOMAIN p.anchor_epoch
    <3>1. r \notin ToSet(p.anchors)
      BY <1>1, <2>2 DEF WindowKnown
    <3>2. sealed # {}
      <4>1. PICK a \in ToSet(p.archive) : r = SealedRoot(a)
        BY <3>1
      <4> QED
        BY <4>1 DEF ToSet
    <3>3. e = least - 1
      BY <2>2, <3>2 DEF epoch_of_anchor
    <3>4. sealed \in SUBSET Nat /\ \A k \in sealed : k >= 1
      BY <1>3
    <3> HIDE DEF sealed
    <3>5. least \in sealed
      <4>1. \E k \in sealed : \A j \in sealed : k <= j
        BY <3>2, <3>4, LeastNumber
      <4> QED
        BY <4>1
    <3> HIDE DEF least
    <3> QED
      BY <3>3, <3>4, <3>5 DEF NoEpoch
  <2> QED
    BY <2>1, <2>2
<1>7. e = t.epoch
  <2>1. i \in DOMAIN r[2]
    BY <1>2
  <2>2. PICK u \in Trees(p) :
               /\ u.epoch = e
               /\ \A k \in DOMAIN r[2] : k \in DOMAIN u.notes /\ u.notes[k] = r[2][k]
    BY <1>6, <2>1, RootTree
  <2> QED
    BY <1>5, <2>2
<1> HIDE DEF sealed, least, e
<1>8. CASE v7_active(p) /\ e = p.v7.epoch
  <2> DEFINE u == Tree("V7", p.v7.epoch, p.v7.notes)
  <2>1. u \in Trees(p) /\ u.epoch = t.epoch /\ u.generation = "V7"
    BY <1>7, <1>8, TreesAre DEF Tree
  <2>2. u = t
    BY <1>1, <2>1, TreesNumbered
  <2> QED
    BY <1>7, <1>8, <2>1, <2>2 DEF generation_of_anchor, e
<1>9. CASE ~(v7_active(p) /\ e = p.v7.epoch) /\ e = p.epoch /\ ~p.v1_closed
  <2> DEFINE u == Tree("V1", p.epoch, p.notes)
  <2>1. u \in Trees(p) /\ u.epoch = t.epoch /\ u.generation = "V1"
    BY <1>7, <1>9, TreesAre DEF Tree
  <2>2. u = t
    BY <1>1, <2>1, TreesNumbered
  <2> QED
    BY <1>7, <1>9, <2>1, <2>2 DEF generation_of_anchor, e
<1>10. CASE ~(v7_active(p) /\ e = p.v7.epoch) /\ ~(e = p.epoch /\ ~p.v1_closed)
  <2>1. PICK k \in DOMAIN p.archive :
               t = Tree(p.archive[k].generation, k - 1, p.archive[k].notes)
    BY <1>7, <1>10, TreesAre DEF Tree
  <2>2. t.epoch = k - 1 /\ t.generation = p.archive[k].generation
    BY <2>1 DEF Tree
  <2>3. e + 1 = k
    BY <1>3, <1>7, <2>2
  <2>4. generation_of_anchor(p, r) = p.archive[e + 1].generation
    BY <1>10, <2>3 DEF generation_of_anchor, e
  <2> QED
    BY <1>7, <2>2, <2>3, <2>4 DEF e
<1> QED
  BY <1>8, <1>9, <1>10

LEMMA RootReaches ==
    ASSUME NEW p, Ready(p), NEW n \in Unspent(p),
           \/ TreeRoot(n.tree) \in ToSet(p.anchors)
           \/ \E a \in ToSet(p.archive) : TreeRoot(n.tree) = SealedRoot(a)
    PROVE  Reachable(p, n)
<1> DEFINE t == n.tree
           r == TreeRoot(t)
<1>1. Sound(p) /\ n \in Notes(p) /\ <<t.epoch, n.raw>> \notin p.nullifiers
  BY DEF Ready, Unspent
<1>2. PICK i \in DOMAIN t.notes :
             t \in Trees(p) /\ n.cm = t.notes[i] /\ n.raw = NullifierAt(r, n.cm)
  BY <1>1, NoteIs
<1>3. epoch_of_anchor(p, r) = t.epoch /\ generation_of_anchor(p, r) = t.generation
  BY <1>2, KnownRoot
<1>4. r[1] = t.generation /\ n.cm \in ToSet(r[2])
  BY <1>2 DEF TreeRoot, ToSet
<1>5. ~is_spent_in_epoch(p, t.epoch, NullifierAt(r, n.cm))
  BY <1>1, <1>2 DEF is_spent_in_epoch, scoped_nullifier
<1>6. r \in ToSet(p.anchors) \union {SealedRoot(a) : a \in ToSet(p.archive)}
  OBVIOUS
<1> HIDE DEF r
<1> QED
  BY <1>3, <1>4, <1>5, <1>6 DEF Reachable

LEMMA BooksReach == BooksInv => NotesStayReachable
<1> DEFINE p == state.pool
<1> SUFFICES ASSUME BooksInv, NEW n \in Unspent(p),
                    ~(net = "r1" /\ n.tree.generation = "V1" /\ ~p.v1_closed)
             PROVE  Reachable(p, n)
  BY DEF NotesStayReachable
<1> DEFINE t == n.tree
<1>1. /\ Ready(p) /\ Sound(p) /\ Published(p) /\ p.anchors_dirty = FALSE /\ n \in Notes(p)
  BY DEF BooksInv, Accounted, Solid, Ready, Unspent
<1>2. PICK i \in DOMAIN t.notes : t \in Trees(p)
  BY <1>1, NoteIs
<1>3. t.notes # <<>>
  BY <1>2
<1> HIDE DEF p, t
<1>4. CASE \E k \in DOMAIN p.archive : t = Tree(p.archive[k].generation, k - 1, p.archive[k].notes)
  <2>1. PICK k \in DOMAIN p.archive :
               t = Tree(p.archive[k].generation, k - 1, p.archive[k].notes)
    BY <1>4
  <2>2. TreeRoot(t) = SealedRoot(p.archive[k]) /\ p.archive[k] \in ToSet(p.archive)
    BY <2>1 DEF TreeRoot, SealedRoot, Tree, ToSet
  <2> QED
    BY <1>1, <2>2, RootReaches DEF t, p
<1>5. CASE v7_active(p) /\ t = Tree("V7", p.v7.epoch, p.v7.notes)
  <2>1. TreeRoot(t) = RootV7(p) /\ p.v7.notes # <<>>
    BY <1>3, <1>5 DEF TreeRoot, RootV7, Tree
  <2>2. TreeRoot(t) \in ToSet(p.anchors)
    BY <1>1, <1>5, <2>1 DEF Published
  <2> QED
    BY <1>1, <2>2, RootReaches DEF t, p
<1>6. CASE ~p.v1_closed /\ t = Tree("V1", p.epoch, p.notes)
  <2>1. TreeRoot(t) = RootV1(p) /\ p.notes # <<>> /\ t.generation = "V1"
    BY <1>3, <1>6 DEF TreeRoot, RootV1, Tree
  <2>2. net # "r1"
    BY <1>6, <2>1 DEF t, p
  <2>3. TreeRoot(t) \in ToSet(p.anchors)
    BY <1>1, <1>6, <2>1, <2>2 DEF Published
  <2> QED
    BY <1>1, <2>3, RootReaches DEF t, p
<1> QED
  BY <1>2, <1>4, <1>5, <1>6, TreesAre

-----------------------------------------------------------------------------
(* The abstract bank.                                                       *)

\* The notes of a settled pool as the bank counts them.
LEMMA BankNotes ==
    ASSUME NEW s, Solid(s)
    PROVE  /\ Commitments(Unspent(s.pool)) = Opens(s.pool)
           /\ Opens(s.pool) \subseteq Held(s.pool) /\ Opens(s.pool) \subseteq Commitment
           /\ s.minted = Sum(s.bal) + Worth(Opens(s.pool)) + s.burned
           /\ Worth(Opens(s.pool)) = value_locked(s.pool)
           /\ Sum(s.bal) \in Nat /\ Worth(Opens(s.pool)) \in Nat
           /\ s.minted \in Nat /\ s.burned \in Nat
<1>1. Sound(s.pool) /\ Booked(s.pool) /\ Money(s)
  BY DEF Solid, Ready
<1>2. Commitments(Unspent(s.pool)) = Opens(s.pool)
  BY <1>1, UnspentOpen DEF Opens
<1>3. /\ Worth(Opens(s.pool)) = value_locked(s.pool) /\ Opens(s.pool) \subseteq Held(s.pool)
      /\ Opens(s.pool) \subseteq Commitment /\ value_locked(s.pool) \in Nat
  BY <1>1, OpensWorth, BookedNat
<1> QED
  BY <1>1, <1>2, <1>3, MoneyNat DEF Solid, Money

LEMMA BankInit == Init => Bank!Init
<1> SUFFICES ASSUME Init PROVE Bank!Init
  OBVIOUS
<1>1. PICK master \in GenesisMaster : state = Genesis(master)
  BY DEF Init
<1>2. /\ state.bal = Premine /\ state.pool = EmptyPool /\ state.minted = Sum(Premine)
      /\ state.burned = 0
  BY <1>1 DEF Genesis
<1>3. Commitments(Unspent(EmptyPool)) = {}
  <2>1. \A t \in Trees(EmptyPool) : t.notes = <<>>
    BY DEF Trees, EmptyPool, Unopened, v7_active
  <2>2. ToSet(<<>>) = {}
    BY DEF ToSet
  <2>3. Notes(EmptyPool) = {}
    BY <2>1, <2>2 DEF Notes
  <2> QED
    BY <2>3 DEF Unspent, Commitments
<1>4. Held(EmptyPool) = {}
  BY DEF Held, EmptyPool, Unopened, ToSet
<1> QED
  BY <1>2, <1>3, <1>4 DEF Bank!Init

\* A block of the ledger is a block of the bank.
LEMMA BankBlock ==
    ASSUME NEW s, Solid(s), NEW t, Solid(t), Since(s, t),
           Sum(t.bal) + value_locked(t.pool) <= MaxSupply,
           s = state, t = state'
    PROVE  Bank!Block
<1> DEFINE open(u) == Commitments(Unspent(u.pool))
           left(u) == Held(u.pool) \ open(u)
<1>1. /\ open(s) = Opens(s.pool) /\ open(t) = Opens(t.pool)
      /\ Opens(s.pool) \subseteq Held(s.pool) /\ Opens(t.pool) \subseteq Held(t.pool)
      /\ Opens(t.pool) \subseteq Commitment
  BY BankNotes
<1>2. t.minted = Sum(t.bal) + Worth(open(t)) + t.burned
  BY BankNotes
<1>3. Worth(open(t)) = value_locked(t.pool)
  BY BankNotes
<1>4. Sum(t.bal) \in Nat /\ Worth(open(t)) \in Nat /\ t.minted \in Nat /\ t.burned \in Nat
  <2>1. Worth(Opens(t.pool)) \in Nat
    BY BankNotes
  <2>2. Sum(t.bal) \in Nat /\ t.minted \in Nat /\ t.burned \in Nat
    BY BankNotes
  <2> QED
    BY <1>1, <2>1, <2>2
<1> HIDE DEF open
<1>5. left(t) \subseteq left(s) \union open(s)
  BY <1>1 DEF Since
<1>6. left(s) \subseteq left(t)
  BY <1>1 DEF Since
<1>7. open(s) \subseteq open(t) \union left(t)
  BY <1>1 DEF Since
<1>8. open(t) \intersect left(t) = {}
  OBVIOUS
<1>9. s.minted <= t.minted /\ t.minted <= s.minted + Reward /\ s.burned <= t.burned
  BY DEF Since
<1>10. t.minted - t.burned <= MaxSupply
  <2>1. MaxSupply \in Nat
    BY LedgerAssumption
  <2> QED
    BY <1>2, <1>3, <1>4, <2>1
<1>11. Sum(t.bal) + Worth(open(t)) + t.burned = t.minted
  BY <1>2
<1>12. open(t) \subseteq Commitment
  BY <1>1
<1> QED
  BY <1>5, <1>6, <1>7, <1>8, <1>9, <1>10, <1>11, <1>12 DEF Bank!Block, Bank!Balanced, open

LEMMA BankStep == BooksInv /\ [Next]_vars => [Bank!Block]_(Bank!vars)
<1> SUFFICES ASSUME BooksInv, [Next]_vars PROVE [Bank!Block]_(Bank!vars)
  OBVIOUS
<1>1. Solid(state) /\ Since(state, next)
  BY DEF BooksInv, Accounted, Following
<1>2. ASSUME state' = state PROVE UNCHANGED Bank!vars
  BY <1>2 DEF Bank!vars
<1>3. CASE Settle /\ ~Discard
  <2>1. /\ Solid(state') /\ Aside(next, state')
        /\ Sum(state'.bal) + value_locked(state'.pool) <= MaxSupply
    BY <1>3, Settled
  <2>2. Since(state, state')
    BY <1>1, <2>1, SinceAside
  <2> QED
    BY <1>1, <2>1, <2>2, BankBlock
<1>4. CASE Restart
  <2>1. Solid(state') /\ Aside(state, state')
    BY <1>4, Restarted
  <2>2. /\ Opens(state'.pool) = Opens(state.pool) /\ Held(state'.pool) = Held(state.pool)
        /\ state'.bal = state.bal /\ state'.minted = state.minted
        /\ state'.burned = state.burned
    BY <2>1 DEF Aside, Passed
  <2>3. Commitments(Unspent(state'.pool)) = Commitments(Unspent(state.pool))
    BY <1>1, <2>1, <2>2, BankNotes
  <2> QED
    BY <2>2, <2>3 DEF Bank!vars
<1>5. CASE Discard
  BY <1>2, <1>5 DEF Discard
<1>6. CASE Propose
  BY <1>2, <1>6 DEF Propose
<1>7. CASE Seal_Body
  BY <1>2, <1>5, <1>7 DEF Seal_Body
<1>8. CASE ApplyMutation
  BY <1>2, <1>5, <1>8 DEF ApplyMutation
<1>9. CASE \E tx \in Offers : Honest(tx) /\ Include(tx)
  BY <1>2, <1>9 DEF Include
<1>10. CASE UNCHANGED vars
  BY <1>2, <1>10 DEF vars
<1> QED
  BY <1>3, <1>4, <1>5, <1>6, <1>7, <1>8, <1>9, <1>10 DEF Next

-----------------------------------------------------------------------------
(* The theorems.                                                            *)

LEMMA SpecBooks == Spec => []BooksInv
<1> QED
  BY InitBooks, NextBooks, PTL DEF Spec

\* Between blocks the settled state has its types, no tree and no window is over
\* its size, and no refused or abandoned block leaves its events or an unpublished
\* root behind.
THEOREM LedgerTypes == Spec => []TypeOK
<1> QED
  BY SpecBooks, BooksTypes, PTL

\* The value counted into a generation of the pool is what its unspent notes are
\* worth, whatever is spent, deposited, rotated, refused or reloaded.
THEOREM ValueStaysBacked == Spec => []ValueBacked
<1> QED
  BY SpecBooks, BooksBacked, PTL

\* The supply counter is the sum of the balances, and with the value of the notes
\* it never passes MAX_SUPPLY.
THEOREM CapStaysHeld == Spec => []CapHolds
<1> QED
  BY SpecBooks, BooksBacked, PTL

\* The chokepoint always knows a root that proves an unspent note, in the note's
\* own epoch and generation: no rotation, window or restart strands it.
THEOREM NotesAlwaysReachable == Spec => []NotesStayReachable
<1> QED
  BY SpecBooks, BooksReach, PTL

\* The two-step commit of the node, with its refusals, rotations and restarts,
\* implements the bank of notes: a note opens once, coin is issued by the
\* coinbase only and within the cap, and it leaves only as a burned fee.
THEOREM LedgerRefinesBank == Spec => LedgerIsABank
<1>1. Init => Bank!Init
  BY BankInit
<1>2. BooksInv /\ [Next]_vars => [Bank!Block]_(Bank!vars)
  BY BankStep
<1> QED
  BY <1>1, <1>2, SpecBooks, PTL DEF Spec, LedgerIsABank, Bank!Spec
=============================================================================
