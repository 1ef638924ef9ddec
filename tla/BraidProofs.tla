----------------------------- MODULE BraidProofs -----------------------------
(***************************************************************************)
(* Proofs about Braid for every block DAG, window, pool and configuration.  *)
(* The loops of braid.rs are recursive functions here: first that they      *)
(* exist, then what each operation keeps, then the invariants.              *)
(***************************************************************************)
EXTENDS Braid, SequenceTheorems, CommitteeProofs

-----------------------------------------------------------------------------
(* Recursion.                                                               *)

\* f lists x and the n values that follow it under G.
Iteration(T, G, x, n, f) ==
    /\ f \in [0 .. n -> T]
    /\ f[0] = x
    /\ \A i \in 1 .. n : f[i] = G[f[i - 1]] /\ f[i - 1] \in T

\* A step can be repeated any number of times, by least counterexample.
LEMMA Iterated ==
    ASSUME NEW T, NEW G \in [T -> T], NEW x \in T, NEW n \in Nat
    PROVE  \E f : Iteration(T, G, x, n, f)
<1> DEFINE Iterates(f, k) ==
              f \in [0 .. k -> T] /\ \A i \in 0 .. k : f[i] = IF i = 0 THEN x ELSE G[f[i - 1]]
           None == {k \in Nat : ~\E f : Iterates(f, k)}
<1>1. None = {}
  <2> SUFFICES ASSUME None # {} PROVE FALSE
    OBVIOUS
  <2>1. PICK k \in None : \A j \in None : k <= j
    BY LeastNatural
  <2>2. CASE k = 0
    <3> DEFINE f == [i \in 0 .. 0 |-> x]
    <3>1. Iterates(f, 0)
      OBVIOUS
    <3> QED
      BY <2>1, <2>2, <3>1
  <2>3. CASE k # 0
    <3>1. k - 1 \in Nat /\ ~(k <= k - 1)
      BY <2>3
    <3>2. PICK g : Iterates(g, k - 1)
      BY <2>1, <3>1
    <3> DEFINE f == [i \in 0 .. k |-> IF i = k THEN G[g[k - 1]] ELSE g[i]]
    <3>3. f \in [0 .. k -> T]
      <4>1. g[k - 1] \in T /\ \A i \in 0 .. k : i # k => i \in 0 .. (k - 1)
        BY <3>1, <3>2
      <4> QED
        BY <3>2, <4>1
    <3>4. ASSUME NEW i \in 0 .. k
          PROVE  f[i] = IF i = 0 THEN x ELSE G[f[i - 1]]
      <4>1. CASE i = k
        <5>1. i - 1 \in 0 .. k /\ i - 1 # k /\ i - 1 = k - 1
          BY <2>3, <4>1
        <5>2. f[i - 1] = g[k - 1] /\ f[i] = G[g[k - 1]]
          BY <4>1, <5>1
        <5> QED
          BY <2>3, <4>1, <5>2
      <4>2. CASE i # k /\ i # 0
        <5>1. i \in 0 .. (k - 1) /\ i - 1 \in 0 .. k /\ i - 1 # k
          BY <4>2
        <5>2. f[i] = g[i] /\ f[i - 1] = g[i - 1]
          BY <4>2, <5>1
        <5> HIDE DEF f
        <5> QED
          BY <3>2, <4>2, <5>1, <5>2
      <4>3. CASE i # k /\ i = 0
        <5>1. i \in 0 .. (k - 1) /\ f[i] = g[i]
          BY <2>3, <3>1, <4>3
        <5> HIDE DEF f
        <5> QED
          BY <3>2, <4>3, <5>1
      <4> QED
        BY <4>1, <4>2, <4>3
    <3>5. Iterates(f, k)
      BY <3>3, <3>4
    <3> HIDE DEF f, Iterates
    <3> QED
      BY <2>1, <3>5
  <2> QED
    BY <2>2, <2>3
<1>2. PICK f : Iterates(f, n)
  <2> HIDE DEF Iterates
  <2> QED
    BY <1>1
<1>3. Iteration(T, G, x, n, f)
  <2>1. 0 \in 0 .. n /\ \A i \in 1 .. n : i \in 0 .. n /\ i # 0 /\ i - 1 \in 0 .. n
    OBVIOUS
  <2>2. f[0] = x
    BY <1>2, <2>1
  <2>3. ASSUME NEW i \in 1 .. n PROVE f[i] = G[f[i - 1]] /\ f[i - 1] \in T
    BY <1>2, <2>1
  <2> QED
    BY <1>2, <2>2, <2>3 DEF Iteration
<1> QED
  BY <1>3

\* What holds of the first value and is kept by every step holds of the last.
LEMMA LastOf ==
    ASSUME NEW n \in Nat, NEW f, NEW P, f[0] \in P,
           \A i \in 1 .. n : f[i - 1] \in P => f[i] \in P
    PROVE  f[n] \in P
<1> DEFINE Bad == {i \in Nat : i \in 0 .. n /\ f[i] \notin P}
<1> SUFFICES ASSUME f[n] \notin P PROVE FALSE
  OBVIOUS
<1>1. n \in Bad
  OBVIOUS
<1>2. PICK i \in Bad : \A j \in Bad : i <= j
  BY <1>1, LeastNatural
<1>3. i # 0 /\ i \in 1 .. n
  BY <1>2
<1>4. i - 1 \in Nat /\ i - 1 \in 0 .. n /\ ~(i <= i - 1)
  BY <1>3
<1>5. f[i - 1] \in P
  BY <1>2, <1>4
<1> QED
  BY <1>2, <1>3, <1>5

LEMMA AppendIs ==
    ASSUME NEW S, NEW a \in Seq(S), NEW x \in S
    PROVE  /\ Append(a, x) \in Seq(S) /\ Len(Append(a, x)) = Len(a) + 1
           /\ ToSet(Append(a, x)) = ToSet(a) \union {x}
<1> DEFINE c == Append(a, x)
<1>1. /\ c \in Seq(S) /\ Len(c) = Len(a) + 1 /\ Len(a) \in Nat
      /\ DOMAIN c = 1 .. (Len(a) + 1) /\ DOMAIN a = 1 .. Len(a)
      /\ \A i \in 1 .. Len(a) : c[i] = a[i]
      /\ c[Len(a) + 1] = x
  OBVIOUS
<1> HIDE DEF c
<1>2. \A i : i \in DOMAIN c <=> i \in DOMAIN a \/ i = Len(a) + 1
  BY <1>1
<1>3. ToSet(c) = ToSet(a) \union {x}
  BY <1>1, <1>2 DEF ToSet
<1> QED
  BY <1>1, <1>3 DEF c

\* Vec::retain keeps the elements of keep, in order.
LEMMA RetainIs ==
    ASSUME NEW s \in Seq(Block), NEW keep
    PROVE  /\ Retain(s, keep) \in Seq(Block)
           /\ Len(Retain(s, keep)) <= Len(s)
           /\ ToSet(Retain(s, keep)) = ToSet(s) \intersect keep
           /\ (\E v \in ToSet(s) : v \notin keep) => Len(Retain(s, keep)) < Len(s)
<1> DEFINE n == Len(s)
           Eq(f) == f = [i \in 0 .. n |->
                       IF i = 0 THEN <<>>
                       ELSE IF s[i] \in keep THEN Append(f[i - 1], s[i]) ELSE f[i - 1]]
           F == CHOOSE f : Eq(f)
           T == Seq(Block) \X (0 .. n)
           G == [p \in T |-> IF p[2] + 1 \in 1 .. n
                             THEN <<IF s[p[2] + 1] \in keep THEN Append(p[1], s[p[2] + 1])
                                                            ELSE p[1], p[2] + 1>>
                             ELSE p]
<1>1. n \in Nat /\ \A i \in 1 .. n : s[i] \in Block
  OBVIOUS
<1>2. G \in [T -> T]
  <2> SUFFICES ASSUME NEW p \in T PROVE G[p] \in T
    BY DEF G
  <2>1. p[1] \in Seq(Block) /\ p[2] \in 0 .. n /\ p = <<p[1], p[2]>>
    OBVIOUS
  <2>2. CASE p[2] + 1 \in 1 .. n
    <3>1. s[p[2] + 1] \in Block /\ p[2] + 1 \in 0 .. n
      BY <1>1, <2>2
    <3>2. Append(p[1], s[p[2] + 1]) \in Seq(Block)
      BY <2>1, <3>1
    <3> HIDE DEF n
    <3> QED
      BY <2>1, <2>2, <3>1, <3>2
  <2>3. CASE p[2] + 1 \notin 1 .. n
    BY <2>3
  <2> QED
    BY <2>2, <2>3
<1> DEFINE q == <<<<>>, 0>>
<1>3. q \in T
  <2>1. <<>> \in Seq(Block) /\ 0 \in 0 .. n
    BY <1>1
  <2> HIDE DEF n
  <2> QED
    BY <2>1
<1> HIDE DEF T, G, n, q
<1>4. PICK f : Iteration(T, G, q, n, f)
  BY <1>1, <1>2, <1>3, Iterated, Zenon
<1>5. f[0] = q /\ \A i \in 1 .. n : f[i] = G[f[i - 1]] /\ f[i - 1] \in T
  BY <1>4 DEF Iteration
<1>6. \A i \in 0 .. n : f[i] \in T /\ f[i][2] = i
  <2> DEFINE Bad == {i \in Nat : i \in 0 .. n /\ f[i][2] # i}
  <2>1. \A i \in 0 .. n : f[i] \in T
    BY <1>4 DEF Iteration
  <2>2. Bad = {}
    <3> SUFFICES ASSUME Bad # {} PROVE FALSE
      OBVIOUS
    <3>1. PICK i \in Bad : \A j \in Bad : i <= j
      BY LeastNatural
    <3>2. i # 0
      BY <1>5, <3>1 DEF q
    <3>3. i \in 1 .. n /\ i - 1 \in Nat /\ i - 1 \in 0 .. n /\ ~(i <= i - 1) /\ (i - 1) + 1 = i
      BY <1>1, <3>1, <3>2
    <3>4. f[i - 1][2] = i - 1
      BY <3>1, <3>3
    <3>5. f[i] = G[f[i - 1]] /\ f[i - 1] \in T
      BY <1>5, <3>3
    <3>6. f[i][2] = i
      BY <3>3, <3>4, <3>5 DEF G
    <3> QED
      BY <3>1, <3>6
  <2>3. ASSUME NEW i \in 0 .. n PROVE f[i][2] = i
    BY <1>1, <2>2
  <2> QED
    BY <2>1, <2>3
<1> DEFINE g == [i \in 0 .. n |-> f[i][1]]
<1>7. \A i \in 1 .. n : g[i] = IF s[i] \in keep THEN Append(g[i - 1], s[i]) ELSE g[i - 1]
  <2> TAKE i \in 1 .. n
  <2>1. i \in 0 .. n /\ i - 1 \in 0 .. n /\ (i - 1) + 1 = i
    BY <1>1
  <2>2. f[i] = G[f[i - 1]] /\ f[i - 1] \in T /\ f[i - 1][2] = i - 1
    BY <1>5, <1>6, <2>1
  <2>3. f[i][1] = IF s[i] \in keep THEN Append(f[i - 1][1], s[i]) ELSE f[i - 1][1]
    BY <2>1, <2>2 DEF G
  <2> QED
    BY <2>1, <2>3
<1>8. g[0] = <<>> /\ DOMAIN g = 0 .. n
  <2>1. 0 \in 0 .. n
    BY <1>1
  <2> QED
    BY <1>5, <2>1 DEF q
<1>9. Eq(g)
  <2> HIDE DEF g
  <2>1. \A i \in 0 .. n : i = 0 \/ i \in 1 .. n
    BY <1>1
  <2>2. g = [i \in 0 .. n |-> g[i]]
    BY <1>8 DEF g
  <2>3. \A i \in 0 .. n : g[i] = IF i = 0 THEN <<>>
                       ELSE IF s[i] \in keep THEN Append(g[i - 1], s[i]) ELSE g[i - 1]
    BY <1>7, <1>8, <2>1
  <2> QED
    BY <2>2, <2>3
<1>10. Eq(F)
  BY <1>9
<1>11. F[0] = <<>> /\ \A i \in 1 .. n :
          F[i] = IF s[i] \in keep THEN Append(F[i - 1], s[i]) ELSE F[i - 1]
  <2> HIDE DEF F
  <2>1. 0 \in 0 .. n /\ \A i \in 1 .. n : i \in 0 .. n /\ i # 0
    BY <1>1
  <2> QED
    BY <1>10, <2>1
<1>12. Retain(s, keep) = F[n]
  BY DEF Retain, n
<1> HIDE DEF F, Eq
<1> DEFINE upTo(i) == {s[j] : j \in 1 .. i}
           Fine == {i \in 0 .. n :
                      /\ F[i] \in Seq(Block) /\ Len(F[i]) <= i
                      /\ ToSet(F[i]) = upTo(i) \intersect keep
                      /\ (\E v \in upTo(i) : v \notin keep) => Len(F[i]) < i}
<1>13. 0 \in Fine
  <2>1. 0 \in 0 .. n /\ upTo(0) = {}
    BY <1>1
  <2>2. <<>> \in Seq(Block) /\ Len(<<>>) = 0 /\ ToSet(<<>>) = {}
    BY DEF ToSet
  <2>3. F[0] = <<>>
    BY <1>11
  <2>4. ~\E v \in upTo(0) : v \notin keep
    BY <2>1
  <2>5. F[0] \in Seq(Block) /\ Len(F[0]) <= 0 /\ ToSet(F[0]) = {}
    BY <2>2, <2>3
  <2>6. ToSet(F[0]) = upTo(0) \intersect keep
    BY <2>1, <2>5
  <2> HIDE DEF upTo
  <2> QED
    BY <2>1, <2>4, <2>5, <2>6
<1>14. ASSUME NEW i \in 1 .. n, i - 1 \in Fine PROVE i \in Fine
  <2>1. i \in 0 .. n /\ i - 1 \in Nat /\ i \in Nat /\ s[i] \in Block
    BY <1>1
  <2>2. upTo(i) = upTo(i - 1) \union {s[i]}
    <3>1. \A j : j \in 1 .. i <=> j \in 1 .. (i - 1) \/ j = i
      BY <2>1
    <3> QED
      BY <3>1
  <2> HIDE DEF upTo
  <2>3. /\ F[i - 1] \in Seq(Block) /\ Len(F[i - 1]) <= i - 1
        /\ ToSet(F[i - 1]) = upTo(i - 1) \intersect keep
        /\ (\E v \in upTo(i - 1) : v \notin keep) => Len(F[i - 1]) < i - 1
    BY <1>14
  <2>4. Len(F[i - 1]) \in Nat
    BY <2>3
  <2>5. CASE s[i] \notin keep
    <3>1. F[i] = F[i - 1]
      BY <1>11, <2>5
    <3> QED
      BY <2>1, <2>2, <2>3, <2>4, <2>5, <3>1
  <2>6. CASE s[i] \in keep
    <3> DEFINE a == F[i - 1]
    <3>1. F[i] = Append(a, s[i])
      BY <1>11, <2>6
    <3> HIDE DEF a
    <3>2. /\ Append(a, s[i]) \in Seq(Block) /\ Len(Append(a, s[i])) = Len(a) + 1
          /\ ToSet(Append(a, s[i])) = ToSet(a) \union {s[i]}
      <4>1. a \in Seq(Block) /\ s[i] \in Block
        BY <2>1, <2>3 DEF a
      <4> QED
        BY <4>1, AppendIs
    <3>3. ToSet(F[i]) = upTo(i) \intersect keep
      BY <2>2, <2>3, <2>6, <3>1, <3>2 DEF a
    <3>4. Len(F[i]) <= i
      BY <2>1, <2>3, <2>4, <3>1, <3>2 DEF a
    <3>5. (\E v \in upTo(i) : v \notin keep) => Len(F[i]) < i
      BY <2>1, <2>2, <2>3, <2>4, <2>6, <3>1, <3>2 DEF a
    <3> QED
      BY <2>1, <3>1, <3>2, <3>3, <3>4, <3>5
  <2> QED
    BY <2>5, <2>6
<1>15. n \in Fine
  <2> DEFINE id == [i \in 0 .. n |-> i]
  <2>1. id[0] = 0 /\ id[n] = n /\ \A i \in 1 .. n : id[i] = i /\ id[i - 1] = i - 1
    BY <1>1
  <2> HIDE DEF id, Fine
  <2>2. id[0] \in Fine /\ \A i \in 1 .. n : id[i - 1] \in Fine => id[i] \in Fine
    BY <1>13, <1>14, <2>1
  <2>3. id[n] \in Fine
    BY <1>1, <2>2, LastOf, Zenon
  <2> QED
    BY <2>1, <2>3
<1>16. upTo(n) = ToSet(s)
  BY DEF ToSet, n
<1> QED
  BY <1>12, <1>15, <1>16 DEF n

-----------------------------------------------------------------------------
(* Loops that end.                                                          *)

\* Outside stop, G makes the first measure less, or keeps it and makes the
\* second less.
Descends(D, stop, G, m, k) ==
    /\ G \in [D -> D] /\ m \in [D -> Nat] /\ k \in [D -> Nat]
    /\ \A s \in D \ stop : \/ m[G[s]] < m[s]
                           \/ m[G[s]] = m[s] /\ k[G[s]] < k[s]

\* r is the value of the loop: out where it stops, else what the next turn gives.
LoopValue(D, stop, G, out, r) ==
    \A s \in D : r[s] = IF s \in stop THEN out[s] ELSE r[G[s]]

\* No turn leaves P, and where it stops out is in Q.
LoopStays(stop, G, out, P, Q) ==
    \A s \in P : IF s \in stop THEN out[s] \in Q ELSE G[s] \in P

\* A non-empty set has an element whose successor is outside it, or is in stop.
LEMMA LeastState ==
    ASSUME NEW D, NEW stop, NEW G, NEW m, NEW k, Descends(D, stop, G, m, k),
           NEW S \in SUBSET D, S # {}
    PROVE  \E s \in S : s \in stop \/ G[s] \notin S
<1>1. /\ \A s \in D : G[s] \in D /\ m[s] \in Nat /\ k[s] \in Nat
      /\ \A s \in D \ stop : m[G[s]] < m[s] \/ (m[G[s]] = m[s] /\ k[G[s]] < k[s])
  BY DEF Descends
<1> DEFINE M == {m[s] : s \in S}
<1>2. M \subseteq Nat /\ M # {}
  BY <1>1
<1>3. PICK x \in M : \A y \in M : x <= y
  <2> HIDE DEF M
  <2> QED
    BY <1>2, LeastNatural
<1> DEFINE K == {k[s] : s \in {t \in S : m[t] = x}}
<1>4. K \subseteq Nat /\ K # {}
  BY <1>1, <1>3
<1>5. PICK z \in K : \A y \in K : z <= y
  <2> HIDE DEF K
  <2> QED
    BY <1>4, LeastNatural
<1>6. PICK s \in S : m[s] = x /\ k[s] = z
  BY <1>5
<1>7. ASSUME s \notin stop, G[s] \in S PROVE FALSE
  <2>1. x <= m[G[s]] /\ (m[G[s]] = x => z <= k[G[s]])
    BY <1>3, <1>5, <1>7
  <2>2. m[G[s]] < m[s] \/ (m[G[s]] = m[s] /\ k[G[s]] < k[s])
    BY <1>1, <1>7
  <2>3. m[G[s]] \in Nat /\ k[G[s]] \in Nat /\ x \in Nat /\ z \in Nat
    BY <1>1, <1>2, <1>4
  <2> HIDE DEF M, K
  <2> QED
    BY <1>6, <2>1, <2>2, <2>3
<1> QED
  BY <1>6, <1>7

\* Then the loop has a value everywhere: the least relation closed under its
\* two rules gives every state exactly one.
LEMMA LoopHasValue ==
    ASSUME NEW D, NEW B, NEW stop, NEW G, NEW m, NEW k, Descends(D, stop, G, m, k),
           NEW out \in [D -> B]
    PROVE  \E r : r \in [D -> B] /\ LoopValue(D, stop, G, out, r)
<1> DEFINE Rules(R) == /\ \A s \in D : s \in stop => <<s, out[s]>> \in R
                       /\ \A s \in D, b \in B :
                             s \notin stop /\ <<G[s], b>> \in R => <<s, b>> \in R
           L == {p \in D \X B : \A R \in SUBSET (D \X B) : Rules(R) => p \in R}
           One(s) == \E b \in B : <<s, b>> \in L /\ \A c \in B : <<s, c>> \in L => c = b
           Bad == {s \in D : ~One(s)}
<1>1. \A s \in D : G[s] \in D /\ out[s] \in B
  BY DEF Descends
<1>2. L \in SUBSET (D \X B)
  OBVIOUS
<1>3. \A s \in D : s \in stop => <<s, out[s]>> \in L
  BY <1>1
<1>4. ASSUME NEW s \in D, NEW b \in B, s \notin stop, <<G[s], b>> \in L
      PROVE  <<s, b>> \in L
  <2>1. ASSUME NEW R \in SUBSET (D \X B), Rules(R) PROVE <<s, b>> \in R
    <3>1. <<G[s], b>> \in R
      BY <1>4, <2>1
    <3> QED
      BY <1>4, <2>1, <3>1
  <2> HIDE DEF Rules
  <2> QED
    BY <2>1
\* A rule-closed subset of L is L.
<1>5. ASSUME NEW R \in SUBSET L, Rules(R) PROVE L = R
  BY <1>5
<1>6. ASSUME NEW s \in D, NEW b \in B,
             s \in stop => b = out[s],
             s \notin stop => \A c \in B : <<G[s], c>> \in L => c = b,
             NEW c \in B, <<s, c>> \in L
      PROVE  c = b
  <2> DEFINE R == L \ {p \in D \X B : p[1] = s /\ p[2] # b}
  <2>1. \A t \in D : t \in stop => <<t, out[t]>> \in R
    BY <1>1, <1>3, <1>6
  <2>2. ASSUME NEW t \in D, NEW d \in B, t \notin stop, <<G[t], d>> \in R
        PROVE  <<t, d>> \in R
    <3>1. <<G[t], d>> \in L
      BY <2>2
    <3>2. <<t, d>> \in L
      <4> HIDE DEF L
      <4> QED
        BY <1>4, <2>2, <3>1
    <3>3. t = s => d = b
      BY <1>6, <2>2, <3>1
    <3> HIDE DEF L
    <3> QED
      BY <3>2, <3>3
  <2>3. Rules(R) /\ R \in SUBSET L
    <3> HIDE DEF L
    <3>1. R \in SUBSET L
      OBVIOUS
    <3> HIDE DEF R
    <3> QED
      BY <2>1, <2>2, <3>1
  <2>4. L = R
    <3> HIDE DEF L, R, Rules
    <3> QED
      BY <1>5, <2>3
  <2> HIDE DEF L
  <2> QED
    BY <1>6, <2>4
<1> HIDE DEF L
<1>7. Bad = {}
  <2> SUFFICES ASSUME Bad # {} PROVE FALSE
    OBVIOUS
  <2>1. PICK s \in Bad : s \in stop \/ G[s] \notin Bad
    <3>1. Bad \in SUBSET D
      OBVIOUS
    <3> HIDE DEF Bad
    <3> QED
      BY <3>1, LeastState
  <2>2. CASE s \in stop
    <3>1. s \in D /\ out[s] \in B /\ <<s, out[s]>> \in L
      BY <1>1, <1>3, <2>2
    <3>2. \A c \in B : <<s, c>> \in L => c = out[s]
      BY <1>6, <2>2, <3>1
    <3> QED
      BY <2>1, <3>1, <3>2
  <2>3. CASE s \notin stop
    <3>1. s \in D /\ G[s] \in D /\ One(G[s])
      BY <1>1, <2>1, <2>3
    <3>2. PICK b \in B : <<G[s], b>> \in L /\ \A c \in B : <<G[s], c>> \in L => c = b
      BY <3>1
    <3>3. <<s, b>> \in L
      BY <1>4, <2>3, <3>1, <3>2
    <3>4. \A c \in B : <<s, c>> \in L => c = b
      BY <1>6, <2>3, <3>1, <3>2
    <3> QED
      BY <2>1, <3>3, <3>4
  <2> QED
    BY <2>2, <2>3
<1> DEFINE value(s) == CHOOSE b \in B : <<s, b>> \in L
           r == [s \in D |-> value(s)]
<1>8. \A s \in D : One(s)
  BY <1>7
<1>9. \A s \in D : r[s] \in B /\ <<s, r[s]>> \in L /\ \A c \in B : <<s, c>> \in L => c = r[s]
  <2> TAKE s \in D
  <2>1. PICK b \in B : <<s, b>> \in L /\ \A c \in B : <<s, c>> \in L => c = b
    BY <1>8
  <2>2. r[s] = CHOOSE d \in B : <<s, d>> \in L
    OBVIOUS
  <2>3. r[s] \in B /\ <<s, r[s]>> \in L
    BY <2>1, <2>2
  <2> QED
    BY <2>1, <2>3
<1>10. r \in [D -> B]
  <2>1. \A s \in D : value(s) \in B
    BY <1>9
  <2> HIDE DEF value
  <2> QED
    BY <2>1
<1> HIDE DEF r, value, Bad, One
<1>11. ASSUME NEW s \in D PROVE r[s] = IF s \in stop THEN out[s] ELSE r[G[s]]
  BY <1>1, <1>3, <1>4, <1>9
<1> QED
  BY <1>10, <1>11 DEF LoopValue

\* What every turn keeps, and the end turns into Q, holds of the loop's value.
LEMMA LoopKeeps ==
    ASSUME NEW D, NEW stop, NEW G, NEW m, NEW k, Descends(D, stop, G, m, k),
           NEW out, NEW r, LoopValue(D, stop, G, out, r),
           NEW P \in SUBSET D, NEW Q,
           LoopStays(stop, G, out, P, Q),
           NEW s \in P
    PROVE  r[s] \in Q
<1> DEFINE Bad == {t \in P : r[t] \notin Q}
<1> SUFFICES ASSUME Bad # {} PROVE FALSE
  OBVIOUS
<1>1. Bad \in SUBSET D
  OBVIOUS
<1>2. PICK t \in Bad : t \in stop \/ G[t] \notin Bad
  <2> HIDE DEF Bad
  <2> QED
    BY <1>1, LeastState
<1>3. t \in P /\ t \in D /\ r[t] \notin Q
  BY <1>2
<1>4. CASE t \in stop
  BY <1>3, <1>4 DEF LoopValue, LoopStays
<1>5. CASE t \notin stop
  <2>1. G[t] \in P /\ r[t] = r[G[t]]
    BY <1>3, <1>5 DEF LoopValue, LoopStays
  <2> QED
    BY <1>2, <1>3, <1>5, <2>1
<1> QED
  BY <1>4, <1>5

-----------------------------------------------------------------------------
(* Heights, keys and the blocks that come first.                            *)

LEMMA BlockFacts ==
    /\ IsFiniteSet(Block)
    /\ \A v \in Block : v \in Nat /\ v # NoBlock /\ v \in Hash
    /\ \A v \in Block : View[v].height \in Nat /\ View[v].producer \in Nat
    /\ NoBlock \notin Block /\ NoBlock \in Nat /\ Unknown \in Int
BY BraidAssumption DEF Hash, NoBlock, Unknown

LEMMA MaxOfTwo ==
    ASSUME NEW x \in Int, NEW y \in Int
    PROVE  /\ Max({x, y}) = IF x >= y THEN x ELSE y
           /\ Min({x, y}) = IF x <= y THEN x ELSE y
<1>1. PICK z \in {x, y} : \A w \in {x, y} : z >= w
  OBVIOUS
<1>2. PICK u \in {x, y} : \A w \in {x, y} : u <= w
  OBVIOUS
<1>3. Max({x, y}) \in {x, y} /\ \A w \in {x, y} : Max({x, y}) >= w
  BY <1>1 DEF Max
<1>4. Min({x, y}) \in {x, y} /\ \A w \in {x, y} : Min({x, y}) <= w
  BY <1>2 DEF Min
<1> QED
  BY <1>3, <1>4

LEMMA LeastOfSome ==
    ASSUME NEW S \in SUBSET Nat, S # {}
    PROVE  Min(S) \in S /\ \A x \in S : Min(S) <= x
<1>1. \E x \in S : \A y \in S : x <= y
  BY LeastNatural
<1> QED
  BY <1>1 DEF Min

LEMMA GreatestUpTo ==
    ASSUME NEW n \in Nat, NEW S \in SUBSET (0 .. n), S # {}
    PROVE  Max(S) \in S /\ \A x \in S : Max(S) >= x
<1> DEFINE R == {n - x : x \in S}
<1>1. R \in SUBSET Nat /\ R # {}
  <2>1. \A x \in S : x \in Int /\ x <= n /\ n - x \in Nat
    OBVIOUS
  <2> QED
    BY <2>1
<1>2. PICK r \in R : \A q \in R : r <= q
  <2> HIDE DEF R
  <2> QED
    BY <1>1, LeastNatural
<1>3. PICK x \in S : r = n - x
  BY <1>2
<1>4. \A y \in S : x >= y
  <2> TAKE y \in S
  <2>1. n - x <= n - y
    BY <1>2, <1>3
  <2> QED
    BY <2>1
<1>5. \E z \in S : \A y \in S : z >= y
  BY <1>4
<1> QED
  BY <1>5 DEF Max

LEMMA Saturating ==
    ASSUME NEW x \in Int, NEW y \in Int
    PROVE  /\ saturating_sub(x, y) \in Nat
           /\ \/ saturating_sub(x, y) = x - y
              \/ saturating_sub(x, y) = 0 /\ x <= y
           /\ saturating_sub(x, y) >= x - y
BY DEF saturating_sub

\* A total and transitive order has a first element in every finite set.
LEMMA FiniteFirst ==
    ASSUME NEW S, IsFiniteSet(S), S # {}, NEW R,
           \A x \in S, y \in S : <<x, y>> \in R \/ <<y, x>> \in R,
           \A x \in S, y \in S, z \in S : <<x, y>> \in R /\ <<y, z>> \in R => <<x, z>> \in R
    PROVE  \E x \in S : \A y \in S : <<x, y>> \in R
<1> DEFINE First(T) == \E x \in T : \A y \in T : <<x, y>> \in R
           Sizes == {Cardinality(T) : T \in {U \in SUBSET S : U # {} /\ ~First(U)}}
<1> SUFFICES ASSUME ~First(S) PROVE FALSE
  OBVIOUS
<1>1. Sizes \in SUBSET Nat /\ Sizes # {}
  <2>1. \A T \in SUBSET S : Cardinality(T) \in Nat
    BY FS_Subset, FS_CardinalityType
  <2> QED
    BY <2>1
<1>2. PICK n \in Sizes : \A k \in Sizes : n <= k
  <2> HIDE DEF Sizes
  <2> QED
    BY <1>1, LeastNatural
<1>3. PICK T \in SUBSET S : T # {} /\ ~First(T) /\ Cardinality(T) = n
  BY <1>2
<1>4. PICK t \in T : TRUE
  BY <1>3
<1>5. IsFiniteSet(T) /\ Cardinality(T \ {t}) = n - 1 /\ n \in Nat
  <2>1. IsFiniteSet(T) /\ Cardinality(T) \in Nat
    BY FS_Subset, FS_CardinalityType
  <2> QED
    BY <1>3, <1>4, <2>1, FS_RemoveElement
<1>6. First(T \ {t}) \/ T \ {t} = {}
  <2> SUFFICES ASSUME ~First(T \ {t}), T \ {t} # {} PROVE FALSE
    OBVIOUS
  <2>1. T \ {t} \in SUBSET S
    OBVIOUS
  <2>2. Cardinality(T \ {t}) \in Sizes
    <3> HIDE DEF First
    <3> QED
      BY <2>1
  <2> HIDE DEF Sizes, First
  <2> QED
    BY <1>2, <1>5, <2>2
<1>7. <<t, t>> \in R
  OBVIOUS
<1>8. CASE T \ {t} = {}
  <2>1. \A y \in T : y = t
    BY <1>8
  <2> QED
    BY <1>3, <1>7, <2>1
<1>9. CASE First(T \ {t})
  <2>1. PICK x \in T \ {t} : \A y \in T \ {t} : <<x, y>> \in R
    BY <1>9
  <2>2. CASE <<x, t>> \in R
    <3>1. \A y \in T : <<x, y>> \in R
      BY <2>1, <2>2
    <3> QED
      BY <1>3, <3>1
  <2>3. CASE <<t, x>> \in R
    <3>1. \A y \in T : <<t, y>> \in R
      <4> TAKE y \in T
      <4>1. CASE y = t
        BY <1>7, <4>1
      <4>2. CASE y # t
        <5>1. <<x, y>> \in R
          BY <2>1, <4>2
        <5> QED
          BY <2>3, <5>1
      <4> QED
        BY <4>1, <4>2
    <3> QED
      BY <1>3, <3>1
  <2> QED
    BY <2>1, <2>2, <2>3
<1> QED
  BY <1>6, <1>8, <1>9

\* BetterTip is a total order on blocks.
LEMMA TipOrder ==
    /\ \A v \in Block, w \in Block : BetterTip(v, w) \/ BetterTip(w, v)
    /\ \A v \in Block, w \in Block, u \in Block :
          BetterTip(v, w) /\ BetterTip(w, u) => BetterTip(v, u)
    /\ \A v \in Block, w \in Block : BetterTip(v, w) /\ BetterTip(w, v) => v = w
    /\ \A v \in Block, w \in Block : BetterTip(v, w) => View[v].height >= View[w].height
BY BlockFacts DEF BetterTip

\* The block with the first key exists, is in the set and precedes the others.
LEMMA FirstKeyIs ==
    ASSUME NEW S \in SUBSET Block, S # {}
    PROVE  FirstKey(S) \in S /\ \A w \in S : Precedes(FirstKey(S), w)
<1> DEFINE R == {p \in Block \X Block : Precedes(p[1], p[2])}
<1>1. \A v \in S, w \in S : <<v, w>> \in R <=> Precedes(v, w)
  OBVIOUS
<1>2. \A v \in Block, w \in Block : Precedes(v, w) \/ Precedes(w, v)
  BY BlockFacts DEF Precedes
<1>3. \A v \in Block, w \in Block, u \in Block :
         Precedes(v, w) /\ Precedes(w, u) => Precedes(v, u)
  BY BlockFacts DEF Precedes
<1>4. IsFiniteSet(S)
  BY BlockFacts, FS_Subset
<1>5. \E v \in S : \A w \in S : <<v, w>> \in R
  <2>1. \A v \in S, w \in S : <<v, w>> \in R \/ <<w, v>> \in R
    BY <1>1, <1>2
  <2>2. \A v \in S, w \in S, u \in S : <<v, w>> \in R /\ <<w, u>> \in R => <<v, u>> \in R
    BY <1>1, <1>3
  <2> HIDE DEF R
  <2> QED
    BY <1>4, <2>1, <2>2, FiniteFirst
<1>6. \E v \in S : \A w \in S : Precedes(v, w)
  <2> HIDE DEF R
  <2> QED
    BY <1>1, <1>5
<1> QED
  BY <1>6 DEF FirstKey

\* The best tip of a non-empty set is the one block no other beats.
LEMMA BestTip ==
    ASSUME NEW S \in SUBSET Block, S # {}
    PROVE  LET best == CHOOSE v \in S : \A w \in S : BetterTip(v, w)
           IN /\ best \in S /\ \A w \in S : BetterTip(best, w)
              /\ \A v \in S : (\A w \in S : BetterTip(v, w)) => v = best
<1> DEFINE R == {p \in Block \X Block : BetterTip(p[1], p[2])}
<1>1. \A v \in S, w \in S : <<v, w>> \in R <=> BetterTip(v, w)
  OBVIOUS
<1>2. IsFiniteSet(S)
  BY BlockFacts, FS_Subset
<1>3. \E v \in S : \A w \in S : <<v, w>> \in R
  <2>1. \A v \in S, w \in S : <<v, w>> \in R \/ <<w, v>> \in R
    BY <1>1, TipOrder
  <2>2. \A v \in S, w \in S, u \in S : <<v, w>> \in R /\ <<w, u>> \in R => <<v, u>> \in R
    BY <1>1, TipOrder
  <2> HIDE DEF R
  <2> QED
    BY <1>2, <2>1, <2>2, FiniteFirst
<1>4. \E v \in S : \A w \in S : BetterTip(v, w)
  <2> HIDE DEF R
  <2> QED
    BY <1>1, <1>3
<1> DEFINE best == CHOOSE v \in S : \A w \in S : BetterTip(v, w)
<1>5. best \in S /\ \A w \in S : BetterTip(best, w)
  BY <1>4
<1> HIDE DEF best
<1>6. \A v \in S : (\A w \in S : BetterTip(v, w)) => v = best
  BY <1>5, TipOrder
<1> QED
  BY <1>5, <1>6 DEF best

-----------------------------------------------------------------------------
(* Fork choice.                                                             *)

\* What holds of a resident anchor and of a resident child of a block it holds of
\* holds of every candidate.
LEMMA AnchoredIn ==
    ASSUME NEW b, b.recs \in SUBSET Block, AnchorResident(b),
           NEW P \in SUBSET b.recs, fork_anchor(b) \in P,
           \A k \in b.recs : View[k].parent \in P /\ <<View[k].parent, k>> \in b.children
                               => k \in P
    PROVE  fork_anchor(b) \in anchored_candidates(b) /\ anchored_candidates(b) \subseteq P
<1> DEFINE a    == fork_anchor(b)
           base == View[a].height
           n    == Cardinality(b.recs)
           up(S) == S \union {k \in b.recs : /\ View[k].parent \in S
                                             /\ <<View[k].parent, k>> \in b.children}
           Eq(f) == f = [h \in base .. (base + n) |-> IF h = base THEN {a} ELSE up(f[h - 1])]
           F == CHOOSE f : Eq(f)
           G == [S \in SUBSET b.recs |-> up(S)]
           T == SUBSET b.recs
           x == {a}
<1>1. a \in b.recs /\ base \in Nat /\ n \in Nat
  <2>1. IsFiniteSet(b.recs)
    BY BlockFacts, FS_Subset
  <2> QED
    BY <2>1, BlockFacts, FS_CardinalityType DEF AnchorResident
<1>2. anchored_candidates(b) = F[base + n]
  BY DEF anchored_candidates
<1> HIDE DEF base, n, a
<1>3. G \in [T -> T] /\ x \in T
  BY <1>1
<1>4. PICK g : Iteration(T, G, x, n, g)
  <2> HIDE DEF G, T, x
  <2> QED
    BY <1>1, <1>3, Iterated, Zenon
<1>5. /\ g[0] = {a}
      /\ \A i \in 1 .. n : g[i] = up(g[i - 1])
  <2>1. \A S \in T : G[S] = up(S)
    OBVIOUS
  <2> HIDE DEF G, up, T
  <2> QED
    BY <1>4, <2>1 DEF Iteration
<1> HIDE DEF up
<1> DEFINE f == [h \in base .. (base + n) |-> g[h - base]]
<1>6. Eq(f)
  <2>1. ASSUME NEW h \in base .. (base + n)
        PROVE  f[h] = IF h = base THEN {a} ELSE up(f[h - 1])
    <3>1. CASE h = base
      BY <1>1, <1>5, <3>1
    <3>2. CASE h # base
      <4>1. h - base \in 1 .. n /\ h - 1 \in base .. (base + n) /\ (h - 1) - base = (h - base) - 1
        BY <1>1, <3>2
      <4>2. f[h - 1] = g[(h - base) - 1] /\ f[h] = g[h - base]
        BY <4>1
      <4> HIDE DEF f
      <4> QED
        BY <1>5, <3>2, <4>1, <4>2
    <3> QED
      BY <3>1, <3>2
  <2>2. f = [h \in base .. (base + n) |-> f[h]]
    OBVIOUS
  <2> HIDE DEF f
  <2> QED
    BY <2>1, <2>2
<1>7. Eq(F)
  <2> HIDE DEF f, Eq
  <2> QED
    BY <1>6
<1> HIDE DEF F
<1>8. /\ F[base] = {a}
      /\ \A i \in 1 .. n : F[base + i] = up(F[base + (i - 1)])
  <2>1. base \in base .. (base + n)
    BY <1>1
  <2>2. \A i \in 1 .. n : /\ base + i \in base .. (base + n) /\ base + i # base
                          /\ (base + i) - 1 = base + (i - 1)
    BY <1>1
  <2> QED
    BY <1>7, <2>1, <2>2
<1> DEFINE Fine == {S \in T : a \in S /\ S \subseteq P}
           e == [i \in 0 .. n |-> F[base + i]]
<1>9. e[0] \in Fine /\ \A i \in 1 .. n : e[i - 1] \in Fine => e[i] \in Fine
  <2>1. e[0] = F[base] /\ \A i \in 1 .. n : e[i] = F[base + i] /\ e[i - 1] = F[base + (i - 1)]
    BY <1>1
  <2>2. \A S \in Fine : up(S) \in Fine
    BY DEF up
  <2>3. {a} \in Fine
    BY <1>1 DEF a
  <2> HIDE DEF e, Fine
  <2> QED
    BY <1>8, <2>1, <2>2, <2>3
<1>10. e[n] \in Fine
  <2> HIDE DEF e, Fine
  <2> QED
    BY <1>1, <1>9, LastOf, Zenon
<1>11. e[n] = F[base + n]
  BY <1>1
<1> QED
  BY <1>2, <1>10, <1>11 DEF a

\* The parent walk up from a resident anchor stays resident.
LEMMA AnchoredIs ==
    ASSUME NEW b, b.recs \in SUBSET Block, AnchorResident(b)
    PROVE  fork_anchor(b) \in anchored_candidates(b) /\ anchored_candidates(b) \subseteq b.recs
BY AnchoredIn DEF AnchorResident

\* The blocks the selected tip is chosen from.
TipChoices(b) == IF AnchorResident(b) THEN anchored_candidates(b) ELSE b.recs

LEMMA ChoicesAre ==
    ASSUME NEW b, b.recs \in SUBSET Block
    PROVE  /\ TipChoices(b) \in SUBSET b.recs
           /\ TipChoices(b) = {} <=> b.recs = {}
           /\ AnchorResident(b) => fork_anchor(b) \in TipChoices(b)
           /\ ~AnchorResident(b) => TipChoices(b) = b.recs
<1>1. CASE AnchorResident(b)
  BY <1>1, AnchoredIs DEF TipChoices, AnchorResident
<1>2. CASE ~AnchorResident(b)
  BY <1>2 DEF TipChoices
<1> QED
  BY <1>1, <1>2

\* The selected tip is the best block of the choices.
LEMMA SelectedTip ==
    ASSUME NEW b, b.recs \in SUBSET Block
    PROVE  /\ b.recs = {} => selected_tip(b) = NoBlock
           /\ b.recs # {} => /\ selected_tip(b) \in TipChoices(b) /\ selected_tip(b) \in b.recs
                             /\ \A w \in TipChoices(b) : BetterTip(selected_tip(b), w)
           /\ \A v \in TipChoices(b) :
                 (\A w \in TipChoices(b) : BetterTip(v, w)) => selected_tip(b) = v
           /\ selected_tip(b) \in Block \union {NoBlock}
<1> DEFINE S == TipChoices(b)
           best == CHOOSE v \in S : \A w \in S : BetterTip(v, w)
<1>1. selected_tip(b) = IF S = {} THEN NoBlock ELSE best
  BY DEF selected_tip, TipChoices
<1>2. S \in SUBSET b.recs /\ (S = {} <=> b.recs = {})
  BY ChoicesAre
<1>3. S # {} => /\ best \in S /\ \A w \in S : BetterTip(best, w)
                /\ \A v \in S : (\A w \in S : BetterTip(v, w)) => v = best
  <2> HIDE DEF S
  <2> QED
    BY <1>2, BestTip
<1> HIDE DEF S, best
<1> QED
  BY <1>1, <1>2, <1>3 DEF S

\* It reads the window, the edges and the certificate, and nothing else.
LEMMA TipReads ==
    ASSUME NEW b, NEW c, b.recs = c.recs, b.children = c.children, b.certified = c.certified
    PROVE  /\ selected_tip(b) = selected_tip(c) /\ fork_anchor(b) = fork_anchor(c)
           /\ AnchorResident(b) <=> AnchorResident(c)
<1>1. fork_anchor(b) = fork_anchor(c) /\ (AnchorResident(b) <=> AnchorResident(c))
  BY DEF fork_anchor, AnchorResident
<1>2. anchored_candidates(b) = anchored_candidates(c)
  BY <1>1 DEF anchored_candidates
<1> DEFINE best(S) == IF S = {} THEN NoBlock ELSE CHOOSE v \in S : \A w \in S : BetterTip(v, w)
<1>3. TipChoices(b) = TipChoices(c)
  BY <1>1, <1>2 DEF TipChoices
<1>4. selected_tip(b) = best(TipChoices(b)) /\ selected_tip(c) = best(TipChoices(c))
  BY DEF selected_tip, TipChoices
<1> HIDE DEF best
<1> QED
  BY <1>1, <1>3, <1>4

\* Without fork choice by certificate every resident block may be the tip.
LEMMA NoAnchor ==
    ASSUME NEW b, b.recs \in SUBSET Block, ~CertForkChoice
    PROVE  ~AnchorResident(b) /\ TipChoices(b) = b.recs
BY BlockFacts DEF AnchorResident, fork_anchor, TipChoices

\* carry_tip_memo recounts exactly: the new block beats the old tip or not.
LEMMA CarryIsRecount ==
    ASSUME NEW b, NEW c, NEW v \in Block, b.recs \in SUBSET Block,
           c.recs = b.recs \union {v}, c.certified = b.certified
    PROVE  carry_tip_memo(c, selected_tip(b), v) = selected_tip(c)
<1> DEFINE old == selected_tip(b)
<1> SUFFICES ASSUME ~AnchorResident(c), old # NoBlock
             PROVE  (IF BetterTip(v, old) THEN v ELSE old) = selected_tip(c)
  BY DEF carry_tip_memo
<1>1. ~AnchorResident(b)
  BY DEF AnchorResident, fork_anchor
<1>2. c.recs \in SUBSET Block /\ TipChoices(c) = c.recs /\ TipChoices(b) = b.recs
  BY <1>1 DEF TipChoices
<1>3. old \in b.recs /\ old \in Block /\ \A w \in b.recs : BetterTip(old, w)
  BY <1>2, SelectedTip
<1> HIDE DEF old
<1>4. CASE BetterTip(v, old)
  <2>1. \A w \in c.recs : BetterTip(v, w)
    BY <1>2, <1>3, <1>4, TipOrder
  <2>2. selected_tip(c) = v
    BY <1>2, <2>1, SelectedTip
  <2> QED
    BY <1>4, <2>2
<1>5. CASE ~BetterTip(v, old)
  <2>1. BetterTip(old, v)
    BY <1>3, <1>5, TipOrder
  <2>2. \A w \in c.recs : BetterTip(old, w)
    BY <1>2, <1>3, <2>1
  <2>3. selected_tip(c) = old
    BY <1>2, <1>3, <2>2, SelectedTip
  <2> QED
    BY <1>5, <2>3
<1> QED
  BY <1>4, <1>5

-----------------------------------------------------------------------------
(* The finality line.                                                       *)

LEMMA Fields ==
    ASSUME NEW b \in BraidType
    PROVE  /\ b.recs \in SUBSET Block /\ b.emitted \in SUBSET Block
           /\ b.children \in SUBSET (Block \X Block) /\ b.pending \in Seq(Block)
           /\ b.parked_at \in [Block -> Nat \union {Unknown}]
           /\ b.waiters \in [Hash -> Seq(Block)]
           /\ b.emitted_at \in [Hash -> Nat \union {Unknown}]
           /\ b.certified \in Block \union {NoBlock} /\ b.sel_tip \in Block \union {NoBlock}
           /\ b.last_heavy \in Nat /\ b.frozen \in Seq(Block)
           /\ Parked(b) \in SUBSET Block
           /\ Len(b.pending) \in Nat
<1>1. b.pending \in Seq(Block) /\ Parked(b) = {b.pending[i] : i \in DOMAIN b.pending}
  BY DEF BraidType, Parked, ToSet
<1>2. Parked(b) \in SUBSET Block
  BY <1>1
<1> QED
  BY <1>2 DEF BraidType

LEMMA ConfigFacts ==
    /\ FinalDepth \in Nat /\ MaxWindow \in Nat /\ MaxPending \in Nat /\ SelfHealWindow \in Nat
    /\ CertGrace \in Nat /\ ParentReach \in Nat /\ FinalQuorum \in Nat /\ CleanupStride \in Nat
    /\ CertForkChoice \in BOOLEAN /\ DepthFinality \in BOOLEAN
BY BraidAssumption

LEMMA NothingParked ==
    ASSUME NEW b \in BraidType
    PROVE  Parked(b) = {} <=> b.pending = <<>>
<1>1. b.pending \in Seq(Block) /\ Parked(b) = {b.pending[i] : i \in DOMAIN b.pending}
  BY Fields DEF Parked, ToSet
<1>2. CASE b.pending = <<>>
  BY <1>1, <1>2
<1>3. CASE b.pending # <<>>
  <2>1. 1 \in DOMAIN b.pending
    BY <1>1, <1>3
  <2> QED
    BY <1>1, <1>3, <2>1
<1> QED
  BY <1>2, <1>3

LEMMA FloorIs ==
    ASSUME NEW b \in BraidType
    PROVE  /\ Parked(b) = {} => pending_floor(b) = Unknown
           /\ Parked(b) # {} => /\ pending_floor(b) \in Nat
                                /\ \E v \in Parked(b) : pending_floor(b) = View[v].height
           /\ \A v \in Parked(b) : pending_floor(b) <= View[v].height
           /\ pending_floor(b) \in Nat \union {Unknown}
<1> DEFINE S == {View[v].height : v \in Parked(b)}
<1>1. S \in SUBSET Nat
  BY Fields, BlockFacts
<1>2. S # {} => Min(S) \in S /\ \A x \in S : Min(S) <= x
  <2> HIDE DEF S
  <2> QED
    BY <1>1, LeastOfSome
<1>3. CASE Parked(b) = {}
  BY <1>3, NothingParked DEF pending_floor
<1>4. CASE Parked(b) # {}
  <2>1. pending_floor(b) = Min(S)
    BY <1>4, NothingParked DEF pending_floor
  <2>2. S # {}
    BY <1>4
  <2> QED
    BY <1>1, <1>2, <1>4, <2>1, <2>2
<1> QED
  BY <1>3, <1>4

LEMMA TipHeightIs ==
    ASSUME NEW b \in BraidType
    PROVE  /\ tip_height(b) \in Nat \union {Unknown} /\ tip_height(b) \in Int
           /\ tip_height(b) = Unknown <=> b.sel_tip = NoBlock
BY Fields, BlockFacts DEF tip_height, Unknown

LEMMA ClampIs ==
    ASSUME NEW b \in BraidType, NEW x \in Nat, \A v \in Parked(b) : View[v].height > x
    PROVE  pending_floor(b) = Unknown \/ PendingClamp(b) >= x
<1>1. pending_floor(b) \in Int /\ (pending_floor(b) # Unknown => pending_floor(b) > x)
  BY FloorIs DEF Unknown
<1> QED
  BY <1>1 DEF PendingClamp, saturating_sub

\* The depth rule stays FinalDepth below the tip, and reaches as far as the
\* blocks parked allow.
LEMMA DepthRule ==
    ASSUME NEW b \in BraidType
    PROVE  /\ depth_rule_final(b) \in Nat \union {Unknown}
           /\ depth_rule_final(b) # Unknown => depth_rule_final(b) <= tip_height(b) - FinalDepth
           /\ \A x \in Nat : /\ x <= tip_height(b) - FinalDepth
                             /\ \A v \in Parked(b) : View[v].height > x
                             => depth_rule_final(b) >= x
<1> DEFINE tip     == tip_height(b)
           line    == tip - FinalDepth
           clamped == Min({line, PendingClamp(b)})
           window  == IF Len(b.pending) >= MaxPending
                      THEN Min({MaxWindow, SelfHealWindow}) ELSE MaxWindow
           hard    == saturating_sub(tip, window)
           both    == Max({clamped, hard})
           final   == Min({both, line})
<1>1. depth_rule_final(b) = IF tip = Unknown \/ tip < FinalDepth THEN Unknown
                            ELSE IF pending_floor(b) = Unknown THEN line ELSE final
  BY DEF depth_rule_final
<1>2. tip \in Nat \union {Unknown} /\ line \in Int /\ FinalDepth \in Nat
  BY TipHeightIs, ConfigFacts DEF Unknown
<1>3. PendingClamp(b) \in Nat
  BY FloorIs DEF PendingClamp, saturating_sub, Unknown
<1>4. window \in Int
  <2>1. MaxWindow \in Int /\ SelfHealWindow \in Int
    BY ConfigFacts
  <2>2. Min({MaxWindow, SelfHealWindow}) \in Int
    BY <2>1, MaxOfTwo
  <2> QED
    BY <2>1, <2>2
<1>5. hard \in Nat
  <2> HIDE DEF tip, window
  <2> QED
    BY <1>2, <1>4, Saturating DEF Unknown
<1>6. clamped = (IF line <= PendingClamp(b) THEN line ELSE PendingClamp(b)) /\ clamped \in Int
  <2>1. line \in Int /\ PendingClamp(b) \in Int
    BY <1>2, <1>3
  <2> HIDE DEF line
  <2>2. Min({line, PendingClamp(b)}) = IF line <= PendingClamp(b) THEN line ELSE PendingClamp(b)
    BY <2>1, MaxOfTwo
  <2> QED
    BY <2>1, <2>2
<1>7. both = (IF clamped >= hard THEN clamped ELSE hard) /\ both \in Int
  <2> HIDE DEF clamped, hard
  <2> QED
    BY <1>5, <1>6, MaxOfTwo
<1>8. final = (IF both <= line THEN both ELSE line) /\ final \in Int
  <2> HIDE DEF both, line
  <2> QED
    BY <1>2, <1>7, MaxOfTwo
<1>9. ASSUME NEW x \in Nat, x <= line, \A v \in Parked(b) : View[v].height > x
      PROVE  depth_rule_final(b) >= x
  <2>1. pending_floor(b) = Unknown \/ PendingClamp(b) >= x
    BY <1>9, ClampIs
  <2> HIDE DEF clamped, both, final, window, hard
  <2> QED
    BY <1>1, <1>2, <1>3, <1>5, <1>6, <1>7, <1>8, <1>9, <2>1 DEF Unknown
<1>10. line >= 0 => final >= 0
  <2> HIDE DEF clamped, both, final, window, hard, line
  <2> QED
    BY <1>2, <1>3, <1>5, <1>6, <1>7, <1>8
<1> HIDE DEF clamped, both, final, window, hard
<1> QED
  BY <1>1, <1>2, <1>8, <1>9, <1>10 DEF Unknown

\* A certificate's line is a height, at most its own, and grows with it.
LEMMA HeldLine ==
    ASSUME NEW b \in BraidType, NEW h \in Nat
    PROVE  /\ cert_line_held(b, h) \in Nat
           /\ cert_line_held(b, h) <= h
           /\ CertGrace = 0 => cert_line_held(b, h) = h
<1> DEFINE floor == pending_floor(b)
           reach == saturating_sub(floor, 1 + ParentReach)
           low   == Min({h, reach})
           grace == saturating_sub(h, CertGrace)
<1>1. floor \in Int /\ CertGrace \in Nat /\ 1 + ParentReach \in Int
  BY FloorIs, ConfigFacts DEF Unknown
<1>2. cert_line_held(b, h) = IF CertGrace # 0 /\ floor # Unknown /\ reach <= h
                             THEN Max({low, grace}) ELSE h
  BY DEF cert_line_held
<1> HIDE DEF floor
<1>3. reach \in Nat /\ grace \in Nat /\ grace <= h
  BY <1>1 DEF saturating_sub
<1>4. low = (IF h <= reach THEN h ELSE reach) /\ low \in Nat
  <2> HIDE DEF reach
  <2> QED
    BY <1>3, MaxOfTwo
<1>5. Max({low, grace}) = IF low >= grace THEN low ELSE grace
  <2> HIDE DEF low, grace
  <2> QED
    BY <1>3, <1>4, MaxOfTwo
<1> HIDE DEF low, grace, reach
<1> QED
  BY <1>1, <1>2, <1>3, <1>4, <1>5

LEMMA QuorumLine ==
    ASSUME NEW b \in BraidType
    PROVE  /\ quorum_final(b) \in Nat \union {Unknown}
           /\ FinalQuorum <= 1 => quorum_final(b) = Unknown
<1> DEFINE above(h) == {View[spine_block_at(b, g)].producer : g \in (h + 1) .. tip_height(b)}
           final    == {h \in 0 .. tip_height(b) :
                           /\ spine_block_at(b, h) # NoBlock
                           /\ Cardinality(above(h)) >= FinalQuorum}
<1>1. quorum_final(b) = IF FinalQuorum <= 1 \/ tip_height(b) = Unknown \/ final = {}
                        THEN Unknown ELSE Max(final)
  BY DEF quorum_final
<1>2. ASSUME tip_height(b) # Unknown, final # {} PROVE Max(final) \in Nat
  <2>1. tip_height(b) \in Nat /\ final \in SUBSET (0 .. tip_height(b))
    BY <1>2, TipHeightIs
  <2>2. Max(final) \in final
    <3> HIDE DEF final
    <3> QED
      BY <1>2, <2>1, GreatestUpTo
  <2> QED
    BY <2>1, <2>2
<1> HIDE DEF final
<1> QED
  BY <1>1, <1>2

\* The certificate's part of the line.
CertLine(b) ==
    IF b.certified = NoBlock \/ View[b.certified].height > tip_height(b) THEN Unknown
    ELSE cert_line_held(b, View[b.certified].height)
DepthLine(b) == IF DepthFinality THEN depth_rule_final(b) ELSE Unknown

LEMMA LineParts ==
    ASSUME NEW b \in BraidType
    PROVE  /\ CertLine(b) \in Nat \union {Unknown} /\ DepthLine(b) \in Nat \union {Unknown}
           /\ quorum_final(b) \in Nat \union {Unknown}
           /\ computed_final(b) \in Nat \union {Unknown}
           /\ computed_final(b) >= CertLine(b) /\ computed_final(b) >= DepthLine(b)
           /\ computed_final(b) >= quorum_final(b)
           /\ computed_final(b) \in {CertLine(b), DepthLine(b), quorum_final(b)}
<1>1. DepthLine(b) \in Nat \union {Unknown} /\ quorum_final(b) \in Nat \union {Unknown}
  BY DepthRule, QuorumLine DEF DepthLine
<1>2. CertLine(b) \in Nat \union {Unknown}
  BY Fields, BlockFacts, HeldLine DEF CertLine
<1> DEFINE depth == DepthLine(b)
           held  == cert_line_held(b, View[b.certified].height)
           none  == b.certified = NoBlock \/ View[b.certified].height > tip_height(b)
           base  == IF none THEN depth ELSE Max({depth, held})
<1>3. computed_final(b) = Max({base, quorum_final(b)})
  BY DEF computed_final, DepthLine
<1>4. CertLine(b) = IF none THEN Unknown ELSE held
  BY DEF CertLine
<1>5. ~none => /\ Max({depth, held}) \in {depth, held}
               /\ Max({depth, held}) >= depth /\ Max({depth, held}) >= held
  <2>1. ~none => held \in Nat
    BY <1>2, <1>4, Fields, BlockFacts, HeldLine
  <2>2. depth \in Int
    BY <1>1 DEF Unknown
  <2> HIDE DEF held, none, depth
  <2> QED
    BY <2>1, <2>2, MaxOfTwo
<1>6. base \in {CertLine(b), depth} /\ base >= CertLine(b) /\ base >= depth
  <2> HIDE DEF held, none, depth
  <2> QED
    BY <1>1, <1>2, <1>4, <1>5 DEF Unknown, depth
<1>7. base \in Int /\ quorum_final(b) \in Int
  <2> HIDE DEF base
  <2> QED
    BY <1>1, <1>2, <1>6 DEF Unknown
<1>8. /\ Max({base, quorum_final(b)}) \in {base, quorum_final(b)}
      /\ Max({base, quorum_final(b)}) >= base
      /\ Max({base, quorum_final(b)}) >= quorum_final(b)
  <2> HIDE DEF base
  <2> QED
    BY <1>7, MaxOfTwo
<1> HIDE DEF base
<1> QED
  BY <1>1, <1>2, <1>3, <1>6, <1>7, <1>8 DEF Unknown

-----------------------------------------------------------------------------
(* Parking, waking and admitting.                                           *)

\* Everything but the pool of parked views.
SameWindow(b, c) ==
    /\ c.recs = b.recs /\ c.emitted = b.emitted /\ c.children = b.children
    /\ c.emitted_at = b.emitted_at /\ c.certified = b.certified
    /\ c.sel_tip = b.sel_tip /\ c.last_heavy = b.last_heavy /\ c.frozen = b.frozen

\* A window whose edges and memo are in order.
Sound(b) ==
    /\ b \in BraidType
    /\ b.emitted \subseteq b.recs
    /\ b.children \subseteq b.recs \X b.recs
    /\ b.sel_tip = selected_tip(b)

LEMMA SameWindowKeeps ==
    ASSUME NEW b, NEW c, SameWindow(b, c), c \in BraidType
    PROVE  /\ Sound(b) => Sound(c)
           /\ tip_height(c) = tip_height(b)
           /\ \A h \in Hash : known_height(c, h) = known_height(b, h)
           /\ \A v : MissingOf(c, v) = MissingOf(b, v)
<1>1. selected_tip(b) = selected_tip(c)
  BY TipReads DEF SameWindow
<1>2. \A h : known_height(c, h) = known_height(b, h)
  BY DEF known_height, SameWindow
<1>3. \A v : MissingOf(c, v) = MissingOf(b, v)
  BY <1>2 DEF MissingOf
<1>4. tip_height(c) = tip_height(b)
  BY DEF tip_height, SameWindow
<1> QED
  BY <1>1, <1>2, <1>3, <1>4 DEF Sound, SameWindow

LEMMA ParkOnIs ==
    ASSUME NEW b \in BraidType, NEW v \in Block, NEW missing
    PROVE  LET c == ParkOn(b, v, missing)
           IN /\ c \in BraidType /\ SameWindow(b, c)
              /\ Parked(c) = Parked(b) \union {v} /\ Len(c.pending) = Len(b.pending) + 1
              /\ \A h \in Hash : ToSet(c.waiters[h])
                    = ToSet(b.waiters[h]) \union (IF h \in missing THEN {v} ELSE {})
<1> DEFINE w == [h \in Hash |-> IF h \in missing THEN Append(b.waiters[h], v)
                                                ELSE b.waiters[h]]
           m == [b EXCEPT !.waiters = w]
           at == IF tip_height(m) = Unknown THEN View[v].height ELSE tip_height(m)
           p == Append(b.pending, v)
           c == [m EXCEPT !.pending = p, !.parked_at[v] = at]
<1>1. ParkOn(b, v, missing) = c
  BY DEF ParkOn, park
<1>2. /\ b.waiters \in [Hash -> Seq(Block)] /\ b.pending \in Seq(Block)
      /\ b.parked_at \in [Block -> Nat \union {Unknown}]
  BY Fields
<1>3. /\ w \in [Hash -> Seq(Block)]
      /\ \A h \in Hash : ToSet(w[h])
            = ToSet(b.waiters[h]) \union (IF h \in missing THEN {v} ELSE {})
  <2>1. \A h \in Hash : /\ Append(b.waiters[h], v) \in Seq(Block)
                        /\ ToSet(Append(b.waiters[h], v)) = ToSet(b.waiters[h]) \union {v}
    <3> TAKE h \in Hash
    <3>1. b.waiters[h] \in Seq(Block)
      BY <1>2
    <3> QED
      BY <3>1, AppendIs
  <2> QED
    BY <1>2, <2>1
<1>4. p \in Seq(Block) /\ Len(p) = Len(b.pending) + 1 /\ ToSet(p) = ToSet(b.pending) \union {v}
  BY <1>2, AppendIs
<1> HIDE DEF w, p
<1>5. m \in BraidType
  BY <1>3 DEF BraidType
<1>6. at \in Nat \union {Unknown}
  <2> HIDE DEF m
  <2> QED
    BY <1>5, TipHeightIs, BlockFacts
<1> HIDE DEF at
<1>7. /\ c.recs = b.recs /\ c.emitted = b.emitted /\ c.children = b.children
      /\ c.emitted_at = b.emitted_at /\ c.certified = b.certified
      /\ c.sel_tip = b.sel_tip /\ c.last_heavy = b.last_heavy /\ c.frozen = b.frozen
      /\ c.pending = p /\ c.waiters = w
      /\ c \in BraidType
  BY <1>3, <1>4, <1>5, <1>6 DEF BraidType
<1> HIDE DEF c, m
<1> QED
  BY <1>1, <1>3, <1>4, <1>7 DEF SameWindow, Parked

LEMMA UnparkIs ==
    ASSUME NEW b \in BraidType, NEW v \in Block
    PROVE  LET t == unpark_take(b, v)
           IN /\ t \in BraidType /\ SameWindow(b, t)
              /\ Parked(t) = Parked(b) \ {v} /\ t.waiters = b.waiters
              /\ Len(t.pending) <= Len(b.pending)
              /\ v \in Parked(b) => Len(t.pending) < Len(b.pending)
<1> DEFINE t == unpark_take(b, v)
           p == Retain(b.pending, Block \ {v})
<1>1. /\ p \in Seq(Block) /\ Len(p) <= Len(b.pending)
      /\ ToSet(p) = ToSet(b.pending) \intersect (Block \ {v})
      /\ (\E x \in ToSet(b.pending) : x \notin Block \ {v}) => Len(p) < Len(b.pending)
  BY Fields, RetainIs
<1> HIDE DEF p
<1>2. /\ t.recs = b.recs /\ t.emitted = b.emitted /\ t.children = b.children
      /\ t.emitted_at = b.emitted_at /\ t.certified = b.certified
      /\ t.sel_tip = b.sel_tip /\ t.last_heavy = b.last_heavy /\ t.frozen = b.frozen
      /\ t.pending = p /\ t.waiters = b.waiters
      /\ t \in BraidType
  BY <1>1 DEF BraidType, unpark_take, p
<1>3. ToSet(b.pending) \subseteq Block
  BY Fields DEF Parked
<1>4. SameWindow(b, t) /\ Parked(t) = Parked(b) \ {v}
  BY <1>1, <1>2, <1>3 DEF SameWindow, Parked
<1>5. v \in Parked(b) => Len(t.pending) < Len(b.pending)
  BY <1>1, <1>2 DEF Parked
<1> QED
  BY <1>1, <1>2, <1>4, <1>5

LEMMA RetainWaitersIs ==
    ASSUME NEW b \in BraidType, NEW keep
    PROVE  LET r == RetainWaiters(b, keep)
           IN /\ r \in BraidType /\ SameWindow(b, r)
              /\ r.pending = b.pending /\ Parked(r) = Parked(b)
              /\ \A h \in Hash : ToSet(r.waiters[h]) = ToSet(b.waiters[h]) \intersect keep
<1> DEFINE r == RetainWaiters(b, keep)
           w == [h \in Hash |-> Retain(b.waiters[h], keep)]
<1>1. \A h \in Hash : /\ Retain(b.waiters[h], keep) \in Seq(Block)
                      /\ ToSet(Retain(b.waiters[h], keep)) = ToSet(b.waiters[h]) \intersect keep
  BY Fields, RetainIs
<1>2. /\ w \in [Hash -> Seq(Block)]
      /\ \A h \in Hash : ToSet(w[h]) = ToSet(b.waiters[h]) \intersect keep
  BY <1>1
<1> HIDE DEF w
<1>3. /\ r.recs = b.recs /\ r.emitted = b.emitted /\ r.children = b.children
      /\ r.emitted_at = b.emitted_at /\ r.certified = b.certified
      /\ r.sel_tip = b.sel_tip /\ r.last_heavy = b.last_heavy /\ r.frozen = b.frozen
      /\ r.pending = b.pending /\ r.waiters = w
      /\ r \in BraidType
  BY <1>2 DEF BraidType, RetainWaiters, w
<1> QED
  BY <1>2, <1>3 DEF SameWindow, Parked

\* Admitting a block keeps the window in order.
LEMMA AcceptIs ==
    ASSUME NEW b \in BraidType, NEW v \in Block
    PROVE  LET a == Accept(b, v)
           IN /\ a \in BraidType
              /\ Sound(b) => Sound(a)
              /\ a.recs = b.recs \union {v} /\ a.emitted = b.emitted
              /\ a.pending = b.pending /\ Parked(a) = Parked(b) /\ a.waiters = b.waiters
              /\ a.emitted_at = b.emitted_at /\ a.certified = b.certified
              /\ a.parked_at = b.parked_at /\ a.frozen = b.frozen
              /\ a.children = b.children \union ((Parents(v) \intersect b.recs) \X {v})
<1> DEFINE e  == b.children \union ((Parents(v) \intersect b.recs) \X {v})
           in == [b EXCEPT !.recs = @ \union {v}, !.children = e]
           t  == carry_tip_memo(in, b.sel_tip, v)
           a  == [in EXCEPT !.sel_tip = t]
<1>1. Accept(b, v) = a
  BY DEF Accept
<1>2. /\ b.recs \in SUBSET Block /\ b.children \in SUBSET (Block \X Block)
      /\ b.sel_tip \in Block \union {NoBlock}
  BY Fields
<1>3. e \in SUBSET (Block \X Block) /\ b.recs \union {v} \in SUBSET Block
  BY <1>2
<1> HIDE DEF e
<1>4. /\ in.recs = b.recs \union {v} /\ in.children = e /\ in.emitted = b.emitted
      /\ in.pending = b.pending /\ in.waiters = b.waiters
      /\ in.emitted_at = b.emitted_at /\ in.certified = b.certified
      /\ in.parked_at = b.parked_at /\ in.frozen = b.frozen
      /\ in \in BraidType
  BY <1>3 DEF BraidType
<1> HIDE DEF in
<1>5. t \in Block \union {NoBlock}
  BY <1>2, <1>3, <1>4, SelectedTip DEF carry_tip_memo
<1>6. Sound(b) => t = selected_tip(in)
  BY <1>2, <1>4, CarryIsRecount DEF Sound
<1> HIDE DEF t
<1>7. /\ a.recs = b.recs \union {v} /\ a.children = e /\ a.emitted = b.emitted
      /\ a.pending = b.pending /\ a.waiters = b.waiters
      /\ a.emitted_at = b.emitted_at /\ a.certified = b.certified
      /\ a.parked_at = b.parked_at /\ a.sel_tip = t /\ a.frozen = b.frozen
      /\ a \in BraidType
  BY <1>4, <1>5 DEF BraidType
<1> HIDE DEF a
<1>8. Sound(b) => e \subseteq a.recs \X a.recs
  BY <1>7 DEF Sound, e
<1>9. selected_tip(a) = selected_tip(in)
  BY <1>4, <1>7, TipReads
<1>10. Sound(b) => Sound(a)
  BY <1>6, <1>7, <1>8, <1>9 DEF Sound
<1>11. Parked(a) = Parked(b)
  BY <1>7 DEF Parked
<1> QED
  BY <1>1, <1>7, <1>10, <1>11 DEF e

-----------------------------------------------------------------------------
(* cascade_unpark.                                                          *)

LEMMA TailIs ==
    ASSUME NEW S, NEW s \in Seq(S), s # <<>>
    PROVE  /\ Head(s) \in S /\ Tail(s) \in Seq(S) /\ Len(Tail(s)) < Len(s)
           /\ ToSet(s) = {Head(s)} \union ToSet(Tail(s))
<1> DEFINE t == Tail(s)
<1>1. /\ Len(s) \in Nat /\ Len(s) # 0 /\ Head(s) = s[1] /\ Head(s) \in S
      /\ t \in Seq(S) /\ Len(t) = Len(s) - 1
      /\ \A i \in 1 .. (Len(s) - 1) : t[i] = s[i + 1]
      /\ DOMAIN s = 1 .. Len(s) /\ DOMAIN t = 1 .. (Len(s) - 1)
  OBVIOUS
<1> HIDE DEF t
<1>2. \A i : i \in DOMAIN s <=> i = 1 \/ (i \in Int /\ i - 1 \in DOMAIN t)
  BY <1>1
<1>3. \A i \in DOMAIN t : i + 1 \in DOMAIN s /\ t[i] = s[i + 1]
  BY <1>1
<1>4. \A i \in DOMAIN s : i # 1 => i - 1 \in DOMAIN t /\ t[i - 1] = s[i]
  BY <1>1
<1>5. 1 \in DOMAIN s
  BY <1>1
<1>6. ToSet(s) = {s[1]} \union ToSet(t)
  <2>1. ASSUME NEW x \in ToSet(s) PROVE x \in {s[1]} \union ToSet(t)
    BY <1>4 DEF ToSet
  <2>2. ASSUME NEW x \in {s[1]} \union ToSet(t) PROVE x \in ToSet(s)
    BY <1>3, <1>5 DEF ToSet
  <2> QED
    BY <2>1, <2>2
<1> QED
  BY <1>1, <1>6 DEF t

LEMMA ConcatIs ==
    ASSUME NEW S, NEW s \in Seq(S), NEW t \in Seq(S)
    PROVE  s \o t \in Seq(S) /\ ToSet(s \o t) = ToSet(s) \union ToSet(t)
<1> DEFINE c == s \o t
           n == Len(s)
           k == Len(t)
<1>1. /\ n \in Nat /\ k \in Nat /\ c \in Seq(S) /\ DOMAIN c = 1 .. (n + k)
      /\ DOMAIN s = 1 .. n /\ DOMAIN t = 1 .. k
      /\ \A i \in 1 .. n : c[i] = s[i]
      /\ \A i \in 1 .. k : c[n + i] = t[i]
  OBVIOUS
<1> HIDE DEF c, n, k
<1>2. /\ \A i \in DOMAIN s : i \in DOMAIN c /\ c[i] = s[i]
      /\ \A i \in DOMAIN t : n + i \in DOMAIN c /\ c[n + i] = t[i]
  BY <1>1
<1>3. \A i \in DOMAIN c : \/ i \in DOMAIN s /\ c[i] = s[i]
                          \/ i - n \in DOMAIN t /\ c[i] = t[i - n]
  <2> TAKE i \in DOMAIN c
  <2>1. CASE i <= n
    BY <1>1, <2>1
  <2>2. CASE i > n
    <3>1. i - n \in 1 .. k /\ n + (i - n) = i
      BY <1>1, <2>2
    <3> QED
      BY <1>1, <3>1
  <2> QED
    BY <1>1, <2>1, <2>2
<1>4. ToSet(c) = ToSet(s) \union ToSet(t)
  <2>1. ASSUME NEW x \in ToSet(c) PROVE x \in ToSet(s) \union ToSet(t)
    BY <1>3 DEF ToSet
  <2>2. ASSUME NEW x \in ToSet(s) \union ToSet(t) PROVE x \in ToSet(c)
    BY <1>2 DEF ToSet
  <2> QED
    BY <2>1, <2>2
<1> QED
  BY <1>1, <1>4 DEF c

\* The states of the loop, those it ends in, and its turn as a function.
Cascades == [braid : BraidType, work : Seq(Block)]
Ended == {s \in Cascades : s.work = <<>>}
NextTurn == [s \in Cascades |-> IF s \in Ended THEN s ELSE UnparkNext(s)]

\* The four things a turn can do with the child at the head of the queue.
Woken(s, n) ==
    LET b     == s.braid
        child == Head(s.work)
        taken == unpark_take(b, child)
    IN /\ Admission(taken, child) = "Ok" /\ MissingOf(taken, child) = {}
       /\ ~(View[child].height <= IF CertGrace > 0 THEN computed_final(b)
                                                   ELSE computed_final(taken))
       /\ n = [braid |-> Accept([taken EXCEPT !.waiters[child] = <<>>], child),
               work  |-> Tail(s.work) \o b.waiters[child]]
Turned(s, n) ==
    LET b     == s.braid
        child == Head(s.work)
        taken == unpark_take(b, child)
    IN \/ child \notin Parked(b) /\ n = [braid |-> b, work |-> Tail(s.work)]
       \/ /\ child \in Parked(b)
          /\ \/ n = [braid |-> taken, work |-> Tail(s.work)]
             \/ Woken(s, n)
             \/ /\ MissingOf(taken, child) # {}
                /\ n = [braid |-> ParkOn(taken, child, MissingOf(taken, child)),
                        work  |-> Tail(s.work)]

LEMMA TurnIs ==
    ASSUME NEW s \in Cascades, s \notin Ended
    PROVE  /\ s.braid \in BraidType /\ s.work \in Seq(Block) /\ s.work # <<>>
           /\ Head(s.work) \in Block /\ Tail(s.work) \in Seq(Block)
           /\ Turned(s, NextTurn[s])
<1> DEFINE b     == s.braid
           child == Head(s.work)
           rest  == Tail(s.work)
           taken == unpark_take(b, child)
           line  == IF CertGrace > 0 THEN computed_final(b) ELSE computed_final(taken)
           wake  == [taken EXCEPT !.waiters[child] = <<>>]
           n     == NextTurn[s]
<1>1. b \in BraidType /\ s.work \in Seq(Block) /\ s.work # <<>>
  BY DEF Cascades, Ended
<1>2. child \in Block /\ rest \in Seq(Block)
  BY <1>1, TailIs
<1>3. n = UnparkNext(s)
  BY DEF NextTurn
<1>4. taken.waiters = b.waiters
  BY <1>1, <1>2, UnparkIs
<1> HIDE DEF n
<1>5. n = IF child \notin Parked(b) THEN [braid |-> b, work |-> rest]
          ELSE IF View[child].height <= line THEN [braid |-> taken, work |-> rest]
          ELSE CASE Admission(taken, child) = "Ok" ->
                      [braid |-> Accept(wake, child), work |-> rest \o taken.waiters[child]]
                 [] Admission(taken, child) = "Missing" ->
                      [braid |-> ParkOn(taken, child, MissingOf(taken, child)), work |-> rest]
                 [] OTHER -> [braid |-> taken, work |-> rest]
  BY <1>3 DEF UnparkNext
<1>9. line = IF CertGrace > 0 THEN computed_final(b) ELSE computed_final(taken)
  OBVIOUS
<1> HIDE DEF b, child, rest, line, taken
<1>6. /\ Admission(taken, child) = "Missing" => MissingOf(taken, child) # {}
      /\ Admission(taken, child) = "Ok" => MissingOf(taken, child) = {}
  BY DEF Admission
<1>7. \/ child \notin Parked(b) /\ n = [braid |-> b, work |-> rest]
      \/ /\ child \in Parked(b)
         /\ \/ n = [braid |-> taken, work |-> rest]
            \/ /\ Admission(taken, child) = "Ok" /\ MissingOf(taken, child) = {}
               /\ ~(View[child].height <= line)
               /\ n = [braid |-> Accept(wake, child), work |-> rest \o taken.waiters[child]]
            \/ /\ MissingOf(taken, child) # {}
               /\ n = [braid |-> ParkOn(taken, child, MissingOf(taken, child)), work |-> rest]
  <2> HIDE DEF wake
  <2>1. CASE Admission(taken, child) = "Ok"
    <3>1. Admission(taken, child) # "Missing"
      BY <2>1
    <3> QED
      BY <1>5, <1>6, <2>1, <3>1
  <2>2. CASE Admission(taken, child) = "Missing"
    <3>1. Admission(taken, child) # "Ok"
      BY <2>2
    <3> QED
      BY <1>5, <1>6, <2>2, <3>1
  <2>3. CASE Admission(taken, child) \notin {"Ok", "Missing"}
    BY <1>5, <2>3
  <2> QED
    BY <2>1, <2>2, <2>3
<1>8. Turned(s, n)
  BY <1>4, <1>7, <1>9 DEF Turned, Woken, b, child, rest, taken
<1> QED
  BY <1>1, <1>2, <1>8 DEF b, child, rest, n

\* Admitting a woken child, with the views that wait for it moved to the queue.
LEMMA WokenIs ==
    ASSUME NEW s \in Cascades, s \notin Ended, NEW n, Woken(s, n)
    PROVE  LET b     == s.braid
               child == Head(s.work)
               a     == n.braid
           IN /\ n \in Cascades
              /\ ToSet(n.work) = ToSet(Tail(s.work)) \union ToSet(b.waiters[child])
              /\ Sound(b) => Sound(a)
              /\ a.recs = b.recs \union {child} /\ a.emitted = b.emitted
              /\ a.emitted_at = b.emitted_at /\ a.certified = b.certified
              /\ a.frozen = b.frozen
              /\ a.children = b.children \union ((Parents(child) \intersect b.recs) \X {child})
              /\ Parked(a) = Parked(b) \ {child}
              /\ Len(a.pending) <= Len(b.pending)
              /\ child \in Parked(b) => Len(a.pending) < Len(b.pending)
              /\ \A h \in Hash : h # child => a.waiters[h] = b.waiters[h]
<1> DEFINE b     == s.braid
           child == Head(s.work)
           taken == unpark_take(b, child)
           wake  == [taken EXCEPT !.waiters[child] = <<>>]
           a     == Accept(wake, child)
           w     == Tail(s.work) \o b.waiters[child]
<1>1. /\ b \in BraidType /\ child \in Block /\ child \in Hash /\ Tail(s.work) \in Seq(Block)
  BY TurnIs, BlockFacts
<1>2. n = [braid |-> a, work |-> w]
  BY DEF Woken
<1>3. /\ taken \in BraidType /\ SameWindow(b, taken)
      /\ Parked(taken) = Parked(b) \ {child} /\ taken.waiters = b.waiters
      /\ Len(taken.pending) <= Len(b.pending)
      /\ child \in Parked(b) => Len(taken.pending) < Len(b.pending)
  BY <1>1, UnparkIs
<1>4. b.waiters[child] \in Seq(Block) /\ b.waiters \in [Hash -> Seq(Block)]
  BY <1>1, Fields
<1>5. w \in Seq(Block) /\ ToSet(w) = ToSet(Tail(s.work)) \union ToSet(b.waiters[child])
  BY <1>1, <1>4, ConcatIs
<1> HIDE DEF taken, b, child, w
<1>6. <<>> \in Seq(Block)
  OBVIOUS
<1>7. /\ SameWindow(taken, wake) /\ wake \in BraidType
      /\ wake.pending = taken.pending
      /\ \A h \in Hash : h # child => wake.waiters[h] = taken.waiters[h]
  BY <1>1, <1>3, <1>6 DEF BraidType, SameWindow
<1> HIDE DEF wake
<1>8. SameWindow(b, wake)
  BY <1>3, <1>7 DEF SameWindow
<1>9. Sound(wake) => Sound(a)
  BY <1>1, <1>7, AcceptIs
<1>10. /\ a \in BraidType
       /\ a.recs = wake.recs \union {child} /\ a.emitted = wake.emitted
       /\ a.pending = wake.pending /\ Parked(a) = Parked(wake) /\ a.waiters = wake.waiters
       /\ a.emitted_at = wake.emitted_at /\ a.certified = wake.certified
       /\ a.frozen = wake.frozen
       /\ a.children = wake.children \union ((Parents(child) \intersect wake.recs) \X {child})
  BY <1>1, <1>7, AcceptIs
<1> HIDE DEF a
<1>11. Sound(b) => Sound(a)
  BY <1>7, <1>8, <1>9, <1>10, SameWindowKeeps
<1>12. Parked(wake) = Parked(taken)
  BY <1>7 DEF Parked
<1>13. n.braid = a /\ n.work = w /\ n \in Cascades
  BY <1>2, <1>5, <1>10 DEF Cascades
<1> QED
  BY <1>3, <1>5, <1>7, <1>8, <1>10, <1>11, <1>12, <1>13 DEF SameWindow, b, child

\* Every turn takes a view out of the pool or shortens the queue, so the loop ends.
LEMMA TurnsDescend ==
    Descends(Cascades, Ended, NextTurn, [s \in Cascades |-> Len(s.braid.pending)],
             [s \in Cascades |-> Len(s.work)])
<1> DEFINE m == [s \in Cascades |-> Len(s.braid.pending)]
           k == [s \in Cascades |-> Len(s.work)]
<1>1. m \in [Cascades -> Nat] /\ k \in [Cascades -> Nat]
  <2>1. \A s \in Cascades : s.braid \in BraidType /\ s.work \in Seq(Block)
    BY DEF Cascades
  <2>2. \A s \in Cascades : Len(s.braid.pending) \in Nat /\ Len(s.work) \in Nat
    BY <2>1, Fields
  <2> QED
    BY <2>2
<1>2. ASSUME NEW s \in Cascades, s \notin Ended
      PROVE  /\ NextTurn[s] \in Cascades
             /\ \/ Len(NextTurn[s].braid.pending) < Len(s.braid.pending)
                \/ /\ Len(NextTurn[s].braid.pending) = Len(s.braid.pending)
                   /\ Len(NextTurn[s].work) < Len(s.work)
  <2> DEFINE b     == s.braid
             child == Head(s.work)
             taken == unpark_take(b, child)
             n     == NextTurn[s]
  <2>1. /\ b \in BraidType /\ child \in Block /\ Tail(s.work) \in Seq(Block)
        /\ s.work \in Seq(Block) /\ s.work # <<>> /\ Turned(s, n)
    BY <1>2, TurnIs
  <2>2. /\ taken \in BraidType /\ Len(taken.pending) <= Len(b.pending)
        /\ child \in Parked(b) => Len(taken.pending) < Len(b.pending)
    BY <2>1, UnparkIs
  <2>3. Len(Tail(s.work)) < Len(s.work)
    BY <2>1, TailIs
  <2>4. Len(b.pending) \in Nat /\ Len(taken.pending) \in Nat
    BY <2>1, <2>2, Fields
  <2> HIDE DEF taken, child, n, b
  <2>5. CASE n = [braid |-> b, work |-> Tail(s.work)]
    BY <2>1, <2>3, <2>5 DEF Cascades, n, b
  <2>6. CASE child \in Parked(b) /\ n = [braid |-> taken, work |-> Tail(s.work)]
    BY <2>1, <2>2, <2>6 DEF Cascades, n, b
  <2>7. CASE child \in Parked(b) /\ Woken(s, n)
    BY <1>2, <2>7, WokenIs DEF n, b, child
  <2>8. CASE /\ child \in Parked(b)
             /\ n = [braid |-> ParkOn(taken, child, MissingOf(taken, child)),
                     work  |-> Tail(s.work)]
    <3> DEFINE c == ParkOn(taken, child, MissingOf(taken, child))
    <3>1. c \in BraidType /\ Len(c.pending) = Len(taken.pending) + 1
      BY <2>1, <2>2, ParkOnIs
    <3>2. n.braid = c /\ n.work = Tail(s.work) /\ n \in Cascades
      <4> HIDE DEF c
      <4>1. n = [braid |-> c, work |-> Tail(s.work)]
        BY <2>8 DEF c
      <4> QED
        BY <2>1, <3>1, <4>1 DEF Cascades
    <3> HIDE DEF c
    <3>3. Len(c.pending) <= Len(b.pending)
      BY <2>2, <2>4, <2>8, <3>1
    <3>4. Len(c.pending) \in Nat
      BY <3>1, Fields
    <3> QED
      BY <2>3, <2>4, <3>2, <3>3, <3>4 DEF n, b
  <2> QED
    BY <2>1, <2>5, <2>6, <2>7, <2>8 DEF Turned, child, taken, b
<1>3. NextTurn \in [Cascades -> Cascades]
  <2>1. \A s \in Cascades : NextTurn[s] \in Cascades
    BY <1>2 DEF NextTurn
  <2>2. NextTurn = [s \in Cascades |-> NextTurn[s]]
    BY DEF NextTurn
  <2> QED
    BY <2>1, <2>2
<1>4. \A s \in Cascades \ Ended : m[NextTurn[s]] < m[s] \/ (m[NextTurn[s]] = m[s]
                                                              /\ k[NextTurn[s]] < k[s])
  BY <1>2
<1> QED
  BY <1>1, <1>3, <1>4 DEF Descends

\* What every turn keeps, and the end of the loop turns into Q, holds of the
\* cascade's result.
LEMMA CascadeKeeps ==
    ASSUME NEW b \in BraidType, NEW v \in Block,
           NEW P \in SUBSET Cascades, NEW Q,
           \A s \in P : IF s \in Ended THEN s.braid \in Q ELSE NextTurn[s] \in P,
           [braid |-> [b EXCEPT !.waiters[v] = <<>>], work |-> b.waiters[v]] \in P
    PROVE  cascade_unpark(b, v) \in Q
<1> DEFINE Eq(f) == f = [s \in [braid : BraidType, work : Seq(Block)] |->
                           IF s.work = <<>> THEN s.braid ELSE f[UnparkNext(s)]]
           F     == CHOOSE f : Eq(f)
           start == [braid |-> [b EXCEPT !.waiters[v] = <<>>], work |-> b.waiters[v]]
           out   == [s \in Cascades |-> s.braid]
           m     == [s \in Cascades |-> Len(s.braid.pending)]
           k     == [s \in Cascades |-> Len(s.work)]
<1>1. cascade_unpark(b, v) = F[start]
  BY DEF cascade_unpark
<1>2. out \in [Cascades -> BraidType]
  <2>1. \A s \in Cascades : s.braid \in BraidType
    BY DEF Cascades
  <2> QED
    BY <2>1
<1>3. Descends(Cascades, Ended, NextTurn, m, k)
  BY TurnsDescend
<1> HIDE DEF m, k
<1>4. PICK r : r \in [Cascades -> BraidType] /\ LoopValue(Cascades, Ended, NextTurn, out, r)
  <2> HIDE DEF out
  <2> QED
    BY <1>2, <1>3, LoopHasValue, Zenon
<1>5. Eq(r)
  <2>1. r = [s \in Cascades |-> r[s]]
    BY <1>4
  <2>2. ASSUME NEW s \in Cascades
        PROVE  r[s] = IF s.work = <<>> THEN s.braid ELSE r[UnparkNext(s)]
    <3>1. s \in Ended <=> s.work = <<>>
      BY DEF Ended
    <3>2. s \notin Ended => NextTurn[s] = UnparkNext(s)
      BY DEF NextTurn
    <3>3. out[s] = s.braid
      OBVIOUS
    <3> HIDE DEF out
    <3> QED
      BY <1>4, <3>1, <3>2, <3>3 DEF LoopValue
  <2>3. r = [s \in Cascades |-> IF s.work = <<>> THEN s.braid ELSE r[UnparkNext(s)]]
    BY <2>1, <2>2
  <2> QED
    BY <2>3 DEF Cascades
<1>6. Eq(F)
  <2> HIDE DEF Eq
  <2> QED
    BY <1>5
<1> HIDE DEF F
<1>7. LoopValue(Cascades, Ended, NextTurn, out, F)
  <2>1. F = [s \in Cascades |-> IF s.work = <<>> THEN s.braid ELSE F[UnparkNext(s)]]
    BY <1>6 DEF Cascades
  <2>2. ASSUME NEW s \in Cascades
        PROVE  F[s] = IF s \in Ended THEN out[s] ELSE F[NextTurn[s]]
    <3>1. F[s] = IF s.work = <<>> THEN s.braid ELSE F[UnparkNext(s)]
      BY <2>1
    <3>2. s \in Ended <=> s.work = <<>>
      BY DEF Ended
    <3>3. s \notin Ended => NextTurn[s] = UnparkNext(s)
      BY DEF NextTurn
    <3>4. out[s] = s.braid
      OBVIOUS
    <3> HIDE DEF out
    <3> QED
      BY <3>1, <3>2, <3>3, <3>4
  <2> QED
    BY <2>2 DEF LoopValue
<1>8. LoopStays(Ended, NextTurn, out, P, Q)
  BY DEF LoopStays
<1>9. F[start] \in Q
  <2>1. start \in P /\ P \in SUBSET Cascades
    OBVIOUS
  <2> HIDE DEF start, out, Eq
  <2> QED
    BY <1>3, <1>7, <1>8, <2>1, LoopKeeps, Zenon
<1> QED
  BY <1>1, <1>9

\* A cascade only adds to the window and only takes views out of the pool.
Grows(b, c) ==
    /\ c \in BraidType
    /\ Sound(b) => Sound(c)
    /\ b.recs \subseteq c.recs
    /\ c.certified = b.certified
    /\ Parked(c) \subseteq Parked(b)
    /\ Len(c.pending) <= Len(b.pending)

LEMMA GrowsOn ==
    ASSUME NEW b \in BraidType, NEW c, NEW d, Grows(b, c), Grows(c, d)
    PROVE  Grows(b, d)
<1>1. Len(b.pending) \in Nat /\ Len(c.pending) \in Nat /\ Len(d.pending) \in Nat
  BY Fields DEF Grows
<1> QED
  BY <1>1 DEF Grows

LEMMA CascadeGrows ==
    ASSUME NEW b \in BraidType, NEW v \in Block
    PROVE  Grows(b, cascade_unpark(b, v))
<1> DEFINE b0    == [b EXCEPT !.waiters[v] = <<>>]
           P     == {s \in Cascades : Grows(b, s.braid)}
           Q     == {c \in BraidType : Grows(b, c)}
           start == [braid |-> b0, work |-> b.waiters[v]]
<1>1. b0 \in BraidType /\ SameWindow(b, b0) /\ b0.pending = b.pending
  <2>1. v \in Hash /\ <<>> \in Seq(Block)
    BY BlockFacts
  <2> QED
    BY <2>1 DEF BraidType, SameWindow
<1>2. b.waiters[v] \in Seq(Block) /\ Len(b.pending) \in Nat
  BY Fields, BlockFacts
<1>3. start \in P
  <2>1. Grows(b, b0)
    <3> HIDE DEF b0
    <3> QED
      BY <1>1, <1>2, SameWindowKeeps DEF Grows, SameWindow, Parked
  <2> HIDE DEF b0
  <2> QED
    BY <1>1, <1>2, <2>1 DEF Cascades
<1>4. ASSUME NEW s \in P, s \notin Ended PROVE NextTurn[s] \in P
  <2> DEFINE c     == s.braid
             child == Head(s.work)
             taken == unpark_take(c, child)
             n     == NextTurn[s]
  <2>1. /\ s \in Cascades /\ c \in BraidType /\ child \in Block
        /\ Turned(s, n) /\ n \in Cascades /\ Grows(b, c)
    BY <1>4, TurnIs, TurnsDescend DEF Descends
  <2>2. /\ taken \in BraidType /\ Grows(c, taken)
        /\ Len(taken.pending) < Len(c.pending) \/ child \notin Parked(c)
        /\ Len(c.pending) \in Nat /\ Len(taken.pending) \in Nat
    <3>1. /\ taken \in BraidType /\ SameWindow(c, taken) /\ Parked(taken) = Parked(c) \ {child}
          /\ Len(taken.pending) <= Len(c.pending)
          /\ child \in Parked(c) => Len(taken.pending) < Len(c.pending)
      BY <2>1, UnparkIs
    <3>2. Len(c.pending) \in Nat /\ Len(taken.pending) \in Nat
      BY <2>1, <3>1, Fields
    <3> HIDE DEF c, taken, child
    <3>3. Sound(c) => Sound(taken)
      BY <3>1, SameWindowKeeps
    <3> QED
      BY <3>1, <3>2, <3>3 DEF Grows, SameWindow
  <2>3. CASE n.braid = c
    BY <2>1, <2>3
  <2>4. CASE n.braid = taken
    BY <2>1, <2>2, <2>4, GrowsOn
  <2>5. CASE child \in Parked(c) /\ Woken(s, n)
    <3>1. /\ n \in Cascades /\ (Sound(c) => Sound(n.braid))
          /\ n.braid.recs = c.recs \union {child} /\ n.braid.certified = c.certified
          /\ Parked(n.braid) = Parked(c) \ {child}
          /\ Len(n.braid.pending) <= Len(c.pending)
      BY <1>4, <2>1, <2>5, WokenIs
    <3>2. n.braid \in BraidType
      BY <3>1 DEF Cascades
    <3> HIDE DEF c, child, n
    <3>3. Grows(c, n.braid)
      BY <3>1, <3>2 DEF Grows
    <3> QED
      BY <2>1, <3>3, GrowsOn DEF c, n
  <2>6. CASE child \in Parked(c) /\ n.braid = ParkOn(taken, child, MissingOf(taken, child))
    <3> DEFINE d == ParkOn(taken, child, MissingOf(taken, child))
    <3>1. /\ d \in BraidType /\ SameWindow(taken, d) /\ Len(d.pending) = Len(taken.pending) + 1
          /\ Parked(d) = Parked(taken) \union {child}
      BY <2>1, <2>2, ParkOnIs
    <3> HIDE DEF d, taken, child, c
    <3>2. Grows(c, d)
      BY <2>2, <2>6, <3>1, SameWindowKeeps DEF Grows, SameWindow
    <3> QED
      BY <2>1, <2>6, <3>2, GrowsOn DEF d, c
  <2> QED
    BY <2>1, <2>3, <2>4, <2>5, <2>6 DEF Turned
<1>5. \A s \in P : s \in Ended => s.braid \in Q
  BY DEF Cascades
<1>6. cascade_unpark(b, v) \in Q
  <2>1. P \in SUBSET Cascades
    OBVIOUS
  <2> HIDE DEF P, Q
  <2> QED
    BY <1>3, <1>4, <1>5, <2>1, CascadeKeeps
<1> QED
  BY <1>6

-----------------------------------------------------------------------------
(* The calls.                                                               *)

LEMMA AnchorTrustedIs ==
    ASSUME NEW b \in BraidType, NEW h \in Hash, NEW height \in Nat
    PROVE  LET t == anchor_trusted(b, h, height)
           IN /\ t \in BraidType /\ (Sound(b) => Sound(t))
              /\ t.recs = b.recs /\ t.certified = b.certified /\ t.pending = b.pending
              /\ t.waiters = b.waiters
              /\ \A g \in Hash : /\ g # h => t.emitted_at[g] = b.emitted_at[g]
                                 /\ b.emitted_at[g] # Unknown
                                       => t.emitted_at[g] = b.emitted_at[g]
              /\ h \notin b.recs => t.emitted_at[h] # Unknown
<1> DEFINE t == [b EXCEPT !.emitted_at[h] = height]
<1>1. /\ t \in BraidType
      /\ t.recs = b.recs /\ t.certified = b.certified /\ t.pending = b.pending
      /\ t.waiters = b.waiters /\ t.children = b.children /\ t.emitted = b.emitted
      /\ t.sel_tip = b.sel_tip
      /\ \A g \in Hash : g # h => t.emitted_at[g] = b.emitted_at[g]
      /\ t.emitted_at[h] = height /\ height # Unknown
  <2> DEFINE at == [b.emitted_at EXCEPT ![h] = height]
  <2>1. /\ at \in [Hash -> Nat \union {Unknown}] /\ at[h] = height /\ height # Unknown
        /\ \A g \in Hash : g # h => at[g] = b.emitted_at[g]
    BY Fields DEF Unknown
  <2>2. t = [b EXCEPT !.emitted_at = at]
    OBVIOUS
  <2> HIDE DEF at
  <2>3. t \in BraidType /\ t.emitted_at = at
    BY <2>1, <2>2 DEF BraidType
  <2> QED
    BY <2>1, <2>3 DEF BraidType
<1> HIDE DEF t
<1>2. selected_tip(t) = selected_tip(b)
  BY <1>1, TipReads
<1>3. Sound(b) => Sound(t)
  BY <1>1, <1>2 DEF Sound
<1>4. anchor_trusted(b, h, height) = IF h \in b.recs \/ b.emitted_at[h] # Unknown THEN b ELSE t
  BY DEF anchor_trusted, t
<1> QED
  BY <1>1, <1>3, <1>4

LEMMA AnchorTrustedOrder ==
    ASSUME NEW b \in BraidType, NEW h \in Hash, NEW height \in Nat
    PROVE  LET t == anchor_trusted(b, h, height)
           IN t.children = b.children /\ t.emitted = b.emitted /\ t.frozen = b.frozen
BY DEF anchor_trusted, BraidType

LEMMA EvictOldestIs ==
    ASSUME NEW b \in BraidType, b.pending # <<>>
    PROVE  LET e == evict_oldest_parked(b)
           IN /\ e \in BraidType /\ SameWindow(b, e)
              /\ \E old \in Block : /\ Parked(e) = Parked(b) \ {old}
                                    /\ \A h \in Hash : ToSet(e.waiters[h])
                                          = ToSet(b.waiters[h]) \ {old}
              /\ Len(e.pending) < Len(b.pending)
<1> DEFINE old == Head(b.pending)
           t   == unpark_take(b, old)
           e   == RetainWaiters(t, Block \ {old})
<1>1. old \in Block /\ old \in Parked(b)
  BY Fields, TailIs DEF Parked
<1>2. /\ t \in BraidType /\ SameWindow(b, t) /\ Parked(t) = Parked(b) \ {old}
      /\ t.waiters = b.waiters /\ Len(t.pending) < Len(b.pending)
  BY <1>1, UnparkIs
<1> HIDE DEF t
<1>3. /\ e \in BraidType /\ SameWindow(t, e) /\ e.pending = t.pending /\ Parked(e) = Parked(t)
      /\ \A h \in Hash : ToSet(e.waiters[h]) = ToSet(t.waiters[h]) \intersect (Block \ {old})
  BY <1>2, RetainWaitersIs
<1>4. \A h \in Hash : ToSet(b.waiters[h]) \subseteq Block
  <2> TAKE h \in Hash
  <2>1. b.waiters[h] \in Seq(Block)
    BY Fields
  <2> QED
    BY <2>1 DEF ToSet
<1>5. evict_oldest_parked(b) = e
  BY DEF evict_oldest_parked, t
<1> HIDE DEF e, old
<1>6. \A h \in Hash : ToSet(e.waiters[h]) = ToSet(b.waiters[h]) \ {old}
  BY <1>2, <1>3, <1>4
<1> QED
  BY <1>1, <1>2, <1>3, <1>5, <1>6 DEF SameWindow

\* The outcomes of a call of insert.
LEMMA InsertIs ==
    ASSUME NEW b \in BraidType, NEW v \in Block
    PROVE  \/ insert(b, v) = b
           \/ /\ BelowFinal(b, v) /\ v \notin b.recs \union Parked(b) /\ b.waiters[v] # <<>>
              /\ CertForkChoice
              /\ insert(b, v) = cascade_unpark(anchor_trusted(b, v, View[v].height), v)
           \/ /\ ~BelowFinal(b, v) /\ v \notin b.recs \union Parked(b)
              /\ MissingOf(b, v) = {} /\ Admission(b, v) = "Ok"
              /\ insert(b, v) = cascade_unpark(Accept(b, v), v)
           \/ /\ ~BelowFinal(b, v) /\ v \notin b.recs \union Parked(b)
              /\ MissingOf(b, v) # {}
              /\ \/ /\ Len(b.pending) < MaxPending
                    /\ insert(b, v) = ParkOn(b, v, MissingOf(b, v))
                 \/ /\ ~(Len(b.pending) < MaxPending) /\ b.pending # <<>>
                    /\ insert(b, v) = ParkOn(evict_oldest_parked(b), v, MissingOf(b, v))
<1> DEFINE absent == v \notin b.recs \union Parked(b)
<1>1. CASE ~absent \/ structural_reject(v)
  <2>1. insert(b, v) = b
    BY <1>1 DEF insert
  <2> QED
    BY <2>1
<1>2. CASE absent /\ ~structural_reject(v)
  <2>1. insert(b, v) =
           CASE BelowFinal(b, v) -> LateParent(b, v)
             [] ~BelowFinal(b, v) /\ Admission(b, v) = "Ok" -> cascade_unpark(Accept(b, v), v)
             [] ~BelowFinal(b, v) /\ Admission(b, v) = "Missing" -> ParkNew(b, v)
             [] ~BelowFinal(b, v) /\ Admission(b, v) \in {"Bad", "WindowFull"} -> b
    BY <1>2 DEF insert
  <2>2. /\ Admission(b, v) \in {"Missing", "Bad", "WindowFull", "Ok"}
        /\ Admission(b, v) = "Missing" => MissingOf(b, v) # {}
        /\ Admission(b, v) = "Ok" => MissingOf(b, v) = {}
    BY DEF Admission
  <2>3. CASE BelowFinal(b, v)
    <3>1. insert(b, v) = LateParent(b, v)
      BY <2>1, <2>3
    <3> QED
      BY <1>2, <2>3, <3>1 DEF LateParent
  <2>4. CASE ~BelowFinal(b, v) /\ Admission(b, v) = "Ok"
    <3>1. insert(b, v) = cascade_unpark(Accept(b, v), v)
      BY <2>1, <2>4
    <3> QED
      BY <1>2, <2>2, <2>4, <3>1
  <2>5. CASE ~BelowFinal(b, v) /\ Admission(b, v) = "Missing"
    <3>1. insert(b, v) = ParkNew(b, v)
      BY <2>1, <2>5
    <3> QED
      BY <1>2, <2>2, <2>5, <3>1 DEF ParkNew
  <2>6. CASE ~BelowFinal(b, v) /\ Admission(b, v) \in {"Bad", "WindowFull"}
    <3>1. insert(b, v) = b
      BY <2>1, <2>6
    <3> QED
      BY <3>1
  <2> QED
    BY <2>2, <2>3, <2>4, <2>5, <2>6
<1> QED
  BY <1>1, <1>2

\* Accepting grows the window by v and leaves the pool alone.
LEMMA AcceptGrows ==
    ASSUME NEW b \in BraidType, NEW v \in Block
    PROVE  Grows(b, Accept(b, v))
<1>1. Len(b.pending) \in Nat
  BY Fields
<1> QED
  BY <1>1, AcceptIs DEF Grows

\* What an insert may change: the window grows, and the only new parked view is
\* v, above the line.
Joins(b, c, v) ==
    /\ c \in BraidType
    /\ Sound(b) => Sound(c)
    /\ b.recs \subseteq c.recs
    /\ c.certified = b.certified
    /\ \A w \in Parked(c) : w \in Parked(b) \/ (w = v /\ View[v].height > computed_final(b))
    /\ Len(b.pending) <= MaxPending => Len(c.pending) <= MaxPending

LEMMA GrowsJoins ==
    ASSUME NEW b \in BraidType, NEW c, Grows(b, c), NEW v
    PROVE  Joins(b, c, v)
<1>1. Len(b.pending) \in Nat /\ Len(c.pending) \in Nat /\ MaxPending \in Nat
  BY Fields, ConfigFacts DEF Grows
<1> QED
  BY <1>1 DEF Grows, Joins

LEMMA InsertJoins ==
    ASSUME NEW b \in BraidType, NEW v \in Block
    PROVE  Joins(b, insert(b, v), v)
<1> DEFINE i == insert(b, v)
<1>1. Len(b.pending) \in Nat /\ MaxPending \in Nat
  BY Fields, ConfigFacts
<1>2. Grows(b, b)
  BY <1>1 DEF Grows
<1>3. ~BelowFinal(b, v) => View[v].height > computed_final(b)
  BY LineParts, BlockFacts DEF BelowFinal, Unknown
<1>4. CASE i = b
  BY <1>2, <1>4, GrowsJoins
<1>5. CASE i = cascade_unpark(anchor_trusted(b, v, View[v].height), v)
  <2> DEFINE t == anchor_trusted(b, v, View[v].height)
  <2>1. /\ t \in BraidType /\ (Sound(b) => Sound(t))
        /\ t.recs = b.recs /\ t.certified = b.certified /\ t.pending = b.pending
    BY AnchorTrustedIs, BlockFacts
  <2> HIDE DEF t
  <2>2. Grows(b, t)
    BY <1>1, <2>1 DEF Grows, Parked
  <2>3. Grows(t, i)
    BY <1>5, <2>1, CascadeGrows DEF t
  <2>4. Grows(b, i)
    BY <2>2, <2>3, GrowsOn
  <2> QED
    BY <2>4, GrowsJoins
<1>6. CASE i = cascade_unpark(Accept(b, v), v)
  <2> DEFINE a == Accept(b, v)
  <2>1. a \in BraidType /\ Grows(b, a)
    BY AcceptIs, AcceptGrows
  <2> HIDE DEF a
  <2>2. Grows(a, i)
    BY <1>6, <2>1, CascadeGrows DEF a
  <2>3. Grows(b, i)
    BY <2>1, <2>2, GrowsOn
  <2> QED
    BY <2>3, GrowsJoins
<1>7. CASE ~BelowFinal(b, v) /\ Len(b.pending) < MaxPending /\ i = ParkOn(b, v, MissingOf(b, v))
  <2>1. /\ i \in BraidType /\ SameWindow(b, i)
        /\ Parked(i) = Parked(b) \union {v} /\ Len(i.pending) = Len(b.pending) + 1
    BY <1>7, ParkOnIs
  <2> HIDE DEF i
  <2>2. Sound(b) => Sound(i)
    BY <2>1, SameWindowKeeps
  <2>3. Joins(b, i, v)
    BY <1>1, <1>3, <1>7, <2>1, <2>2 DEF Joins, SameWindow
  <2> QED
    BY <2>3 DEF i
<1>8. CASE /\ ~BelowFinal(b, v) /\ b.pending # <<>>
           /\ i = ParkOn(evict_oldest_parked(b), v, MissingOf(b, v))
  <2> DEFINE e == evict_oldest_parked(b)
  <2>1. /\ e \in BraidType /\ SameWindow(b, e) /\ Parked(e) \subseteq Parked(b)
        /\ Len(e.pending) < Len(b.pending)
    BY <1>8, EvictOldestIs
  <2> HIDE DEF e
  <2>2. /\ i \in BraidType /\ SameWindow(e, i)
        /\ Parked(i) = Parked(e) \union {v} /\ Len(i.pending) = Len(e.pending) + 1
    BY <1>8, <2>1, ParkOnIs DEF e
  <2>3. Len(e.pending) \in Nat
    BY <2>1, Fields
  <2> HIDE DEF i
  <2>4. SameWindow(b, i)
    BY <2>1, <2>2 DEF SameWindow
  <2>5. Sound(b) => Sound(i)
    BY <2>2, <2>4, SameWindowKeeps
  <2>6. Joins(b, i, v)
    BY <1>1, <1>3, <1>8, <2>1, <2>2, <2>3, <2>4, <2>5 DEF Joins, SameWindow
  <2> QED
    BY <2>6 DEF i
<1> HIDE DEF i
<1>9. \/ i = b
      \/ i = cascade_unpark(anchor_trusted(b, v, View[v].height), v)
      \/ i = cascade_unpark(Accept(b, v), v)
      \/ ~BelowFinal(b, v) /\ Len(b.pending) < MaxPending /\ i = ParkOn(b, v, MissingOf(b, v))
      \/ /\ ~BelowFinal(b, v) /\ b.pending # <<>>
         /\ i = ParkOn(evict_oldest_parked(b), v, MissingOf(b, v))
  BY InsertIs, Zenon DEF i
<1> QED
  BY <1>4, <1>5, <1>6, <1>7, <1>8, <1>9 DEF i

LEMMA AnchorMergesIs ==
    ASSUME NEW b \in BraidType, NEW v \in Block
    PROVE  LET m == AnchorMerges(b, v)
           IN /\ m \in BraidType /\ (Sound(b) => Sound(m))
              /\ m.recs = b.recs /\ m.certified = b.certified /\ m.sel_tip = b.sel_tip
              /\ m.pending = b.pending /\ Parked(m) = Parked(b)
              /\ m.children = b.children /\ m.emitted = b.emitted /\ m.frozen = b.frozen
<1> DEFINE merges == ToSet(View[v].merge) \ (Parked(b) \union b.recs)
           low == saturating_sub(View[v].height, 1)
           at == [h \in Hash |-> IF h \in merges /\ b.emitted_at[h] = Unknown
                                 THEN low ELSE b.emitted_at[h]]
           m == [b EXCEPT !.emitted_at = at]
<1>1. AnchorMerges(b, v) = m
  BY DEF AnchorMerges
<1>2. low \in Nat
  BY BlockFacts DEF saturating_sub
<1> HIDE DEF low, merges
<1>3. at \in [Hash -> Nat \union {Unknown}]
  BY <1>2, Fields
<1> HIDE DEF at
<1>4. /\ m \in BraidType
      /\ m.recs = b.recs /\ m.certified = b.certified /\ m.pending = b.pending
      /\ m.children = b.children /\ m.emitted = b.emitted /\ m.sel_tip = b.sel_tip
      /\ m.frozen = b.frozen
  BY <1>3 DEF BraidType
<1> HIDE DEF m
<1>5. selected_tip(m) = selected_tip(b)
  BY <1>4, TipReads
<1> QED
  BY <1>1, <1>4, <1>5 DEF Sound, Parked

LEMMA RecountIs ==
    ASSUME NEW b \in BraidType
    PROVE  LET r == Recount(b)
           IN /\ r \in BraidType
              /\ b.emitted \subseteq b.recs /\ b.children \subseteq b.recs \X b.recs => Sound(r)
              /\ r.recs = b.recs /\ r.emitted = b.emitted /\ r.certified = b.certified
              /\ r.children = b.children
              /\ r.pending = b.pending /\ Parked(r) = Parked(b) /\ r.waiters = b.waiters
              /\ r.emitted_at = b.emitted_at /\ r.sel_tip = selected_tip(b)
              /\ r.frozen = b.frozen
<1> DEFINE t == selected_tip(b)
           r == [b EXCEPT !.sel_tip = t]
<1>1. Recount(b) = r
  BY DEF Recount
<1>2. t \in Block \union {NoBlock}
  BY Fields, SelectedTip
<1> HIDE DEF t
<1>3. /\ r \in BraidType /\ r.recs = b.recs /\ r.emitted = b.emitted
      /\ r.certified = b.certified /\ r.children = b.children
      /\ r.pending = b.pending /\ r.waiters = b.waiters
      /\ r.emitted_at = b.emitted_at /\ r.sel_tip = t /\ r.frozen = b.frozen
  BY <1>2 DEF BraidType
<1> HIDE DEF r
<1>4. selected_tip(r) = t
  BY <1>3, TipReads DEF t
<1> QED
  BY <1>1, <1>3, <1>4 DEF Sound, Parked, t

\* An accepted certificate is above the old one and not above the tip it leaves.
LEMMA SetCertifiedIs ==
    ASSUME NEW b \in BraidType, NEW c \in Block
    PROVE  LET n == set_certified(b, c)
           IN /\ n \in BraidType /\ (Sound(b) => Sound(n))
              /\ n.recs = b.recs /\ n.pending = b.pending /\ Parked(n) = Parked(b)
              /\ n.waiters = b.waiters /\ n.emitted_at = b.emitted_at
              /\ n.children = b.children /\ n.emitted = b.emitted /\ n.frozen = b.frozen
              /\ ~CertForkChoice => n.sel_tip = b.sel_tip
              /\ \/ n = b
                 \/ /\ n.certified = c /\ c \in b.recs
                    /\ View[c].height <= tip_height(b)
                    /\ b.certified # NoBlock => View[c].height > View[b.certified].height
                    /\ CertForkChoice => n.sel_tip = selected_tip(n)
<1> DEFINE n == set_certified(b, c)
           f == [b EXCEPT !.certified = c]
<1>1. /\ f \in BraidType /\ f.recs = b.recs /\ f.emitted = b.emitted
      /\ f.children = b.children /\ f.pending = b.pending /\ f.waiters = b.waiters
      /\ f.emitted_at = b.emitted_at /\ f.sel_tip = b.sel_tip /\ f.certified = c
      /\ f.frozen = b.frozen
  BY DEF BraidType
<1>2. \/ n = b
      \/ /\ ~AlreadyCovered(b, c) /\ ~(View[c].height > tip_height(b))
         /\ spine_block_at(b, View[c].height) = c \/ c \in b.recs
         /\ n = IF CertForkChoice THEN Recount(f) ELSE f
  BY DEF set_certified
<1> HIDE DEF f, n
<1>3. CASE n = b
  BY <1>3 DEF n
<1>4. CASE n # b
  <2>1. c # NoBlock /\ (spine_block_at(b, View[c].height) = c => c \in b.recs)
    <3>1. c # NoBlock
      BY BlockFacts
    <3>2. \A x, h : AncestorAt(b, x, h) = NoBlock \/ AncestorAt(b, x, h) \in b.recs
      BY DEF AncestorAt
    <3> QED
      BY <3>1, <3>2 DEF spine_block_at
  <2>2. /\ View[c].height <= tip_height(b)
        /\ b.certified # NoBlock => View[c].height > View[b.certified].height
    BY <1>2, <1>4, BlockFacts, TipHeightIs, Fields DEF AlreadyCovered
  <2>3. CASE CertForkChoice
    <3>1. /\ n = Recount(f) /\ n \in BraidType /\ n.recs = b.recs /\ n.pending = b.pending
          /\ Parked(n) = Parked(f) /\ n.waiters = b.waiters /\ n.emitted_at = b.emitted_at
          /\ n.certified = c /\ n.sel_tip = selected_tip(f) /\ n.children = f.children
          /\ n.emitted = f.emitted /\ n.frozen = f.frozen
          /\ f.emitted \subseteq f.recs /\ f.children \subseteq f.recs \X f.recs => Sound(n)
      BY <1>1, <1>2, <1>4, <2>3, RecountIs
    <3>2. selected_tip(n) = selected_tip(f)
      BY <1>1, <3>1, TipReads
    <3> QED
      BY <1>1, <1>2, <1>4, <2>1, <2>2, <2>3, <3>1, <3>2 DEF Sound, Parked, n
  <2>4. CASE ~CertForkChoice
    <3>1. n = f
      BY <1>2, <1>4, <2>4
    <3>2. ~AnchorResident(b) /\ ~AnchorResident(f)
      BY <1>1, <2>4, Fields, NoAnchor
    <3>3. selected_tip(f) = selected_tip(b)
      BY <1>1, <3>2 DEF selected_tip
    <3> QED
      BY <1>1, <1>2, <1>4, <2>1, <2>2, <2>4, <3>1, <3>3 DEF Sound, Parked, n
  <2> QED
    BY <2>3, <2>4
<1> QED
  BY <1>3, <1>4

-----------------------------------------------------------------------------
(* Draining.                                                                *)

\* The pool reduced to keep: parked views, their heights and who waits for whom.
PoolCut(b, keep) ==
    LET kept == Retain(b.pending, keep)
    IN RetainWaiters([b EXCEPT !.pending = kept,
                               !.parked_at = [v \in Block |->
                                   IF v \in ToSet(kept) THEN @[v] ELSE Unknown]],
                     ToSet(kept))

\* c is b with some parked views forgotten, wherever they waited.
Forgets(b, c) ==
    /\ c \in BraidType /\ SameWindow(b, c)
    /\ Parked(c) \subseteq Parked(b) /\ Len(c.pending) <= Len(b.pending)
    /\ \A h \in Hash : ToSet(b.waiters[h]) \intersect Parked(c) \subseteq ToSet(c.waiters[h])

LEMMA PoolCutIs ==
    ASSUME NEW b \in BraidType, NEW keep
    PROVE  Forgets(b, PoolCut(b, keep)) /\ Parked(PoolCut(b, keep)) = Parked(b) \intersect keep
<1> DEFINE kept == Retain(b.pending, keep)
           at   == [v \in Block |-> IF v \in ToSet(kept) THEN b.parked_at[v] ELSE Unknown]
           m    == [b EXCEPT !.pending = kept, !.parked_at = at]
           r    == RetainWaiters(m, ToSet(kept))
<1>1. /\ kept \in Seq(Block) /\ Len(kept) <= Len(b.pending)
      /\ ToSet(kept) = ToSet(b.pending) \intersect keep
  BY Fields, RetainIs
<1>2. PoolCut(b, keep) = r
  BY DEF PoolCut
<1> HIDE DEF kept
<1>3. at \in [Block -> Nat \union {Unknown}]
  BY Fields
<1> HIDE DEF at
<1>4. m \in BraidType /\ SameWindow(b, m) /\ m.pending = kept /\ m.waiters = b.waiters
  BY <1>1, <1>3 DEF BraidType, SameWindow
<1> HIDE DEF m
<1>5. /\ r \in BraidType /\ SameWindow(m, r) /\ r.pending = m.pending
      /\ \A h \in Hash : ToSet(r.waiters[h]) = ToSet(m.waiters[h]) \intersect ToSet(kept)
  BY <1>4, RetainWaitersIs
<1> HIDE DEF r
<1>6. Parked(r) = ToSet(kept) /\ Parked(b) = ToSet(b.pending)
  BY <1>4, <1>5 DEF Parked
<1> QED
  BY <1>1, <1>2, <1>4, <1>5, <1>6 DEF Forgets, SameWindow

LEMMA EvictStaleIs ==
    ASSUME NEW b \in BraidType
    PROVE  Forgets(b, evict_stale_pending(b))
<1> DEFINE unclamped == saturating_sub(tip_height(b), FinalDepth)
           Stale(v)  == /\ View[v].height <= unclamped
                        /\ saturating_sub(tip_height(b), b.parked_at[v]) > PendingMaxTipLag
           keep      == {v \in Block : ~Stale(v)}
<1>1. evict_stale_pending(b) = IF \/ PendingMaxTipLag = 0 \/ tip_height(b) = Unknown
                                  \/ Retain(b.pending, keep) = b.pending
                               THEN b ELSE PoolCut(b, keep)
  BY DEF evict_stale_pending, PoolCut
<1> HIDE DEF keep
<1>2. Forgets(b, PoolCut(b, keep))
  BY PoolCutIs
<1>3. Forgets(b, b)
  BY Fields DEF Forgets, SameWindow
<1> QED
  BY <1>1, <1>2, <1>3

LEMMA CleanupLightIs ==
    ASSUME NEW b \in BraidType, NEW f \in Nat
    PROVE  /\ Forgets(b, cleanup_light(b, f))
           /\ \A v \in Parked(cleanup_light(b, f)) : View[v].height > f
<1> DEFINE keep == {v \in Block : View[v].height > f}
<1>1. cleanup_light(b, f) = PoolCut(b, keep)
  BY DEF cleanup_light, PoolCut
<1>2. \A v \in Parked(b) \intersect keep : View[v].height > f
  OBVIOUS
<1> HIDE DEF keep
<1> QED
  BY <1>1, <1>2, PoolCutIs

\* The heavy half trims the window below the line and what is known of it, and
\* leaves every block at least FinalDepth under the line's height or above.
LEMMA CleanupHeavyIs ==
    ASSUME NEW b \in BraidType, NEW f \in Nat
    PROVE  LET c == cleanup_heavy(b, f)
           IN /\ c \in BraidType /\ (Sound(b) => Sound(c))
              /\ c.recs \subseteq b.recs /\ c.certified = b.certified
              /\ c.pending = b.pending /\ Parked(c) = Parked(b) /\ c.waiters = b.waiters
              /\ c.frozen = b.frozen /\ c.recs \ c.emitted = b.recs \ b.emitted
              /\ c.children = b.children \intersect (c.recs \X c.recs)
              /\ \A h \in Hash : c.emitted_at[h] \in {b.emitted_at[h], Unknown}
              /\ \A v \in b.recs : View[v].height >= saturating_sub(f, FinalDepth) => v \in c.recs
<1> DEFINE unemitted == {View[v].height : v \in b.recs \ b.emitted}
           S         == {saturating_sub(f, FinalDepth)} \union unemitted
           cutoff    == Min(S)
           resident  == {v \in b.recs : View[v].height >= cutoff}
           forget    == saturating_sub(f, MaxWindow)
           at        == [h \in Hash |-> IF b.emitted_at[h] < forget THEN Unknown
                                        ELSE b.emitted_at[h]]
           em        == b.emitted \intersect resident
           ch        == b.children \intersect (resident \X resident)
           t         == [b EXCEPT !.recs = resident, !.emitted = em, !.children = ch,
                                  !.emitted_at = at, !.last_heavy = f]
<1>1. cleanup_heavy(b, f) = IF cutoff > 0 THEN Recount(t) ELSE t
  BY DEF cleanup_heavy
<1>2. /\ b.recs \in SUBSET Block /\ b.emitted \in SUBSET Block
      /\ b.children \in SUBSET (Block \X Block)
      /\ b.emitted_at \in [Hash -> Nat \union {Unknown}]
  BY Fields
<1>3. /\ cutoff \in Nat /\ cutoff <= saturating_sub(f, FinalDepth)
      /\ \A v \in b.recs \ b.emitted : cutoff <= View[v].height
  <2>1. S \in SUBSET Nat /\ S # {}
    BY <1>2, BlockFacts, ConfigFacts DEF saturating_sub
  <2>2. Min(S) \in S /\ \A x \in S : Min(S) <= x
    <3> HIDE DEF S
    <3> QED
      BY <2>1, LeastOfSome
  <2> QED
    BY <2>1, <2>2
<1> HIDE DEF cutoff
<1>4. /\ resident \in SUBSET Block /\ resident \subseteq b.recs
      /\ cutoff = 0 => resident = b.recs
  BY <1>2, <1>3, BlockFacts
<1>5. \A v \in b.recs : View[v].height >= saturating_sub(f, FinalDepth) => v \in resident
  <2>1. saturating_sub(f, FinalDepth) \in Nat
    BY ConfigFacts DEF saturating_sub
  <2>2. \A v \in b.recs : View[v].height \in Nat
    BY <1>2, BlockFacts
  <2> QED
    BY <1>3, <2>1, <2>2
<1>6. /\ at \in [Hash -> Nat \union {Unknown}]
      /\ \A h \in Hash : at[h] \in {b.emitted_at[h], Unknown}
  <2> HIDE DEF forget
  <2> QED
    BY <1>2
<1>7. /\ em \in SUBSET Block /\ ch \in SUBSET (Block \X Block)
      /\ em \subseteq resident /\ ch = b.children \intersect (resident \X resident)
      /\ resident \ em = b.recs \ b.emitted
  BY <1>2, <1>3
<1>8. Sound(b) /\ cutoff = 0 => em = b.emitted /\ ch = b.children
  BY <1>4 DEF Sound
<1> HIDE DEF resident, at, em, ch
<1>9. /\ t \in BraidType /\ t.recs = resident /\ t.emitted = em /\ t.children = ch
      /\ t.emitted_at = at /\ t.certified = b.certified /\ t.pending = b.pending
      /\ t.waiters = b.waiters /\ t.sel_tip = b.sel_tip /\ t.frozen = b.frozen
  BY <1>4, <1>6, <1>7 DEF BraidType
<1> HIDE DEF t
<1>10. CASE cutoff > 0
  <2>1. LET r == Recount(t)
        IN /\ r \in BraidType
           /\ t.emitted \subseteq t.recs /\ t.children \subseteq t.recs \X t.recs => Sound(r)
           /\ r.recs = t.recs /\ r.certified = t.certified
           /\ r.pending = t.pending /\ r.waiters = t.waiters
           /\ r.emitted_at = t.emitted_at /\ r.frozen = t.frozen
           /\ r.emitted = t.emitted /\ r.children = t.children
    BY <1>9, RecountIs
  <2>2. cleanup_heavy(b, f) = Recount(t)
    BY <1>1, <1>10
  <2> QED
    BY <1>4, <1>5, <1>6, <1>7, <1>9, <2>1, <2>2 DEF Parked
<1>11. CASE cutoff = 0
  <2>1. cleanup_heavy(b, f) = t
    BY <1>1, <1>11
  <2>2. Sound(b) => selected_tip(t) = selected_tip(b)
    BY <1>4, <1>8, <1>9, <1>11, TipReads
  <2>3. Sound(b) => Sound(t)
    BY <1>7, <1>9, <2>2 DEF Sound
  <2> QED
    BY <1>4, <1>5, <1>6, <1>7, <1>9, <2>1, <2>3 DEF Parked
<1> QED
  BY <1>3, <1>10, <1>11

\* Emitting moves resident blocks to the frozen order and nothing else.
Emits(b, c) ==
    /\ c \in BraidType
    /\ c.recs = b.recs /\ c.children = b.children /\ c.certified = b.certified
    /\ c.sel_tip = b.sel_tip /\ c.pending = b.pending /\ c.waiters = b.waiters
    /\ b.emitted \subseteq c.emitted /\ c.emitted \subseteq b.recs \union b.emitted
    /\ \A h \in Hash : h \notin b.recs => c.emitted_at[h] = b.emitted_at[h]

\* What holds before an emission and is kept by each holds after all of them.
LEMMA EmitThroughStays ==
    ASSUME NEW b \in BraidType, NEW f, NEW T, b \in T,
           \A c \in T : \/ frontier(c) = {} \/ View[FirstKey(frontier(c))].height > f
                       \/ emit(c, FirstKey(frontier(c))) \in T
    PROVE  EmitThrough(b, f) \in T
<1> DEFINE n     == Cardinality(b.recs)
           next(c) == IF \/ frontier(c) = {} \/ View[FirstKey(frontier(c))].height > f
                      THEN c ELSE emit(c, FirstKey(frontier(c)))
           Eq(r) == r = [i \in 0 .. n |-> IF i = 0 THEN b ELSE next(r[i - 1])]
           F     == CHOOSE r : Eq(r)
           G     == [c \in T |-> next(c)]
<1>1. EmitThrough(b, f) = F[n]
  BY DEF EmitThrough
<1>2. n \in Nat
  BY Fields, BlockFacts, FS_Subset, FS_CardinalityType
<1>3. \A c \in T : next(c) \in T
  OBVIOUS
<1> HIDE DEF next, n
<1>4. G \in [T -> T]
  BY <1>3
<1>5. PICK r : Iteration(T, G, b, n, r)
  <2> HIDE DEF G
  <2> QED
    BY <1>2, <1>4, Iterated, Zenon
<1>6. Eq(r)
  <2>1. ASSUME NEW i \in 0 .. n PROVE r[i] = IF i = 0 THEN b ELSE next(r[i - 1])
    <3>1. CASE i = 0
      BY <1>5, <3>1 DEF Iteration
    <3>2. CASE i # 0
      <4>1. i \in 1 .. n
        BY <1>2, <3>2
      <4> QED
        BY <1>5, <3>2, <4>1 DEF Iteration
    <3> QED
      BY <3>1, <3>2
  <2>2. r = [i \in 0 .. n |-> r[i]]
    BY <1>5 DEF Iteration
  <2> QED
    BY <2>1, <2>2
<1>7. Eq(F)
  <2> HIDE DEF Eq
  <2> QED
    BY <1>6
<1> HIDE DEF F
<1>8. F[0] \in T /\ \A i \in 1 .. n : F[i - 1] \in T => F[i] \in T
  <2>1. 0 \in 0 .. n /\ \A i \in 1 .. n : i \in 0 .. n /\ i # 0
    BY <1>2
  <2>2. F[0] = b /\ \A i \in 1 .. n : F[i] = next(F[i - 1])
    BY <1>7, <2>1
  <2> QED
    BY <1>3, <2>2
<1>9. F[n] \in T
  <2> HIDE DEF Eq
  <2> QED
    BY <1>2, <1>8, LastOf, Zenon
<1> QED
  BY <1>1, <1>9

LEMMA EmitIs ==
    ASSUME NEW c \in BraidType, NEW v \in Block
    PROVE  LET e == emit(c, v)
           IN /\ e \in BraidType
              /\ e.recs = c.recs /\ e.children = c.children /\ e.certified = c.certified
              /\ e.sel_tip = c.sel_tip /\ e.pending = c.pending /\ e.waiters = c.waiters
              /\ e.emitted = c.emitted \union {v} /\ e.frozen = Append(c.frozen, v)
              /\ \A h \in Hash : h # v => e.emitted_at[h] = c.emitted_at[h]
<1> DEFINE e  == emit(c, v)
           at == [c.emitted_at EXCEPT ![v] = View[v].height]
<1>1. /\ c.emitted \union {v} \in SUBSET Block /\ Append(c.frozen, v) \in Seq(Block)
      /\ at \in [Hash -> Nat \union {Unknown}]
      /\ \A h \in Hash : h # v => at[h] = c.emitted_at[h]
  BY Fields, BlockFacts
<1>2. /\ e \in BraidType
      /\ e.recs = c.recs /\ e.children = c.children /\ e.certified = c.certified
      /\ e.sel_tip = c.sel_tip /\ e.pending = c.pending /\ e.waiters = c.waiters
      /\ e.emitted = c.emitted \union {v} /\ e.frozen = Append(c.frozen, v)
      /\ e.emitted_at = at
  BY <1>1 DEF emit, BraidType
<1> HIDE DEF e
<1> QED
  BY <1>1, <1>2 DEF e

LEMMA EmitThroughIs ==
    ASSUME NEW b \in BraidType, NEW f
    PROVE  Emits(b, EmitThrough(b, f))
<1> DEFINE T == {c \in BraidType : Emits(b, c)}
<1>1. ASSUME NEW c \in T, frontier(c) # {}
      PROVE  emit(c, FirstKey(frontier(c))) \in T
  <2> DEFINE v == FirstKey(frontier(c))
             e == emit(c, v)
  <2>1. c \in BraidType /\ Emits(b, c) /\ frontier(c) \subseteq c.recs /\ c.recs \in SUBSET Block
    BY Fields DEF frontier
  <2>2. v \in frontier(c) /\ v \in c.recs /\ v \in Block
    BY <1>1, <2>1, FirstKeyIs
  <2> HIDE DEF v
  <2>3. /\ e \in BraidType
        /\ e.recs = c.recs /\ e.children = c.children /\ e.certified = c.certified
        /\ e.sel_tip = c.sel_tip /\ e.pending = c.pending /\ e.waiters = c.waiters
        /\ e.emitted = c.emitted \union {v}
        /\ \A h \in Hash : h # v => e.emitted_at[h] = c.emitted_at[h]
    BY <2>1, <2>2, EmitIs
  <2> HIDE DEF e
  <2>4. Emits(b, e)
    BY <2>1, <2>2, <2>3 DEF Emits
  <2> QED
    BY <2>3, <2>4 DEF e, v
<1>2. b \in T
  BY DEF Emits
<1>3. EmitThrough(b, f) \in T
  <2> HIDE DEF T
  <2> QED
    BY <1>1, <1>2, EmitThroughStays
<1> QED
  BY <1>3

LEMMA EmitsKeeps ==
    ASSUME NEW b \in BraidType, NEW c, Emits(b, c)
    PROVE  /\ Sound(b) => Sound(c)
           /\ \A h \in Hash : known_height(b, h) = Unknown => known_height(c, h) = Unknown
<1>1. Sound(b) => Sound(c)
  <2>1. selected_tip(c) = selected_tip(b)
    BY TipReads DEF Emits
  <2> QED
    BY <2>1 DEF Sound, Emits
<1>2. ASSUME NEW h \in Hash, known_height(b, h) = Unknown PROVE known_height(c, h) = Unknown
  <2>1. \A v \in b.recs : View[v].height # Unknown
    BY Fields, BlockFacts DEF Unknown
  <2>2. h \notin b.recs
    BY <1>2, <2>1 DEF known_height
  <2> QED
    BY <1>2, <2>2 DEF known_height, Emits
<1> QED
  BY <1>1, <1>2

\* Fewer views parked, no waiter of those lost, no block learnt of.
Thins(b, c) ==
    /\ Parked(c) \subseteq Parked(b)
    /\ \A h \in Hash : ToSet(b.waiters[h]) \intersect Parked(c) \subseteq ToSet(c.waiters[h])
    /\ \A h \in Hash : known_height(b, h) = Unknown => known_height(c, h) = Unknown

LEMMA ThinsOn ==
    ASSUME NEW b, NEW c, NEW d, Thins(b, c), Thins(c, d)
    PROVE  Thins(b, d)
BY DEF Thins

\* What a drain does: it forgets parked views and trimmed history, drops what is
\* parked at or below its line, and leaves the window at the line and above alone.
LEMMA DrainIs ==
    ASSUME NEW b \in BraidType
    PROVE  LET d == drain_ordered(b)
               f == computed_final(evict_stale_pending(b))
           IN /\ d \in BraidType /\ (Sound(b) => Sound(d))
              /\ d.certified = b.certified /\ d.recs \subseteq b.recs
              /\ Thins(b, d) /\ Len(d.pending) <= Len(b.pending)
              /\ f \in Nat \union {Unknown}
              /\ f = Unknown => d.recs = b.recs
              /\ f # Unknown =>
                    /\ \A v \in Parked(d) : View[v].height > f
                    /\ \A v \in b.recs : View[v].height >= saturating_sub(f, FinalDepth)
                                            => v \in d.recs
<1> DEFINE e == evict_stale_pending(b)
           f == computed_final(e)
           d == drain_ordered(b)
<1>1. /\ Forgets(b, e) /\ e \in BraidType /\ (Sound(b) => Sound(e))
      /\ e.certified = b.certified /\ e.recs = b.recs /\ Thins(b, e)
      /\ Len(e.pending) <= Len(b.pending)
  <2>1. Forgets(b, e)
    BY EvictStaleIs
  <2> HIDE DEF e
  <2>2. e \in BraidType /\ SameWindow(b, e)
    BY <2>1 DEF Forgets
  <2>3. /\ Sound(b) => Sound(e)
        /\ \A h \in Hash : known_height(e, h) = known_height(b, h)
    BY <2>2, SameWindowKeeps
  <2> QED
    BY <2>1, <2>2, <2>3 DEF Forgets, Thins, SameWindow
<1>2. f \in Nat \union {Unknown}
  BY <1>1, LineParts
<1>3. d = IF f = Unknown THEN e ELSE EmitThrough(cleanup(e, f), f)
  BY DEF drain_ordered
<1> HIDE DEF e, f, d
<1>4. CASE f = Unknown
  BY <1>1, <1>2, <1>3, <1>4 DEF e, f, d
<1>5. CASE f \in Nat
  <2> DEFINE m == IF e.last_heavy = 0 \/ f >= e.last_heavy + CleanupStride
                  THEN cleanup_heavy(e, f) ELSE e
             c == cleanup_light(m, f)
  <2>1. cleanup(e, f) = c
    BY DEF cleanup
  <2>2. /\ m \in BraidType /\ (Sound(e) => Sound(m)) /\ m.recs \subseteq e.recs
        /\ m.certified = e.certified /\ m.pending = e.pending /\ Parked(m) = Parked(e)
        /\ m.waiters = e.waiters
        /\ \A h \in Hash : m.emitted_at[h] \in {e.emitted_at[h], Unknown}
        /\ \A v \in e.recs : View[v].height >= saturating_sub(f, FinalDepth) => v \in m.recs
    BY <1>1, <1>5, CleanupHeavyIs
  <2> HIDE DEF m
  <2>3. Thins(e, m)
    <3>1. ASSUME NEW h \in Hash, known_height(e, h) = Unknown PROVE known_height(m, h) = Unknown
      <4>1. \A v \in e.recs : View[v].height # Unknown
        BY <1>1, Fields, BlockFacts DEF Unknown
      <4> QED
        BY <2>2, <3>1, <4>1 DEF known_height
    <3> QED
      BY <2>2, <3>1 DEF Thins
  <2>4. /\ Forgets(m, c) /\ c \in BraidType /\ SameWindow(m, c)
        /\ \A v \in Parked(c) : View[v].height > f
    BY <1>5, <2>2, CleanupLightIs DEF Forgets
  <2> HIDE DEF c
  <2>5. Thins(m, c) /\ (Sound(m) => Sound(c)) /\ c.recs = m.recs /\ c.certified = m.certified
        /\ Len(c.pending) <= Len(m.pending)
    BY <2>4, SameWindowKeeps DEF Forgets, Thins, SameWindow
  <2>6. Emits(c, d)
    BY <1>2, <1>3, <1>5, <2>1, <2>4, EmitThroughIs DEF Unknown
  <2>7. /\ d \in BraidType /\ (Sound(c) => Sound(d)) /\ d.recs = c.recs
        /\ d.certified = c.certified /\ d.pending = c.pending /\ d.waiters = c.waiters
        /\ Parked(d) = Parked(c)
        /\ \A h \in Hash : known_height(c, h) = Unknown => known_height(d, h) = Unknown
    BY <2>4, <2>6, EmitsKeeps DEF Emits, Parked
  <2>8. Thins(c, d)
    BY <2>7 DEF Thins
  <2>9. Thins(b, d)
    BY <1>1, <2>3, <2>5, <2>8, ThinsOn
  <2>10. Len(d.pending) <= Len(b.pending)
    BY <1>1, <2>2, <2>5, <2>7
  <2>11. \A v \in b.recs : View[v].height >= saturating_sub(f, FinalDepth) => v \in d.recs
    BY <1>1, <2>2, <2>5, <2>7
  <2>12. f # Unknown
    BY <1>5 DEF Unknown
  <2>13. d.recs \subseteq b.recs /\ d.certified = b.certified /\ (Sound(b) => Sound(d))
    BY <1>1, <2>2, <2>5, <2>7
  <2>14. \A v \in Parked(d) : View[v].height > f
    BY <2>4, <2>7
  <2> QED
    BY <1>2, <2>7, <2>9, <2>10, <2>11, <2>12, <2>13, <2>14 DEF e, f, d
<1> QED
  BY <1>2, <1>4, <1>5

-----------------------------------------------------------------------------
(* Types and the tip memo.                                                  *)

\* The window is in order, its pool bounded and its history complete.
WindowInv ==
    /\ Sound(braid)
    /\ Len(braid.pending) <= MaxPending
    /\ braid.recs \subseteq admitted /\ admitted \subseteq Block
    /\ drainLine \in Nat \union {Unknown}

LEMMA InitIsSound ==
    ASSUME Init PROVE WindowInv
<1>1. \A h \in DOMAIN Trusted : Trusted[h] \in Nat
  BY BraidAssumption
<1>2. braid \in BraidType /\ Len(braid.pending) = 0
  <2>1. <<>> \in Seq(Block) /\ Len(<<>>) = 0
    OBVIOUS
  <2>2. [h \in Hash |-> IF h \in DOMAIN Trusted THEN Trusted[h] ELSE Unknown]
           \in [Hash -> Nat \union {Unknown}]
    BY <1>1
  <2>3. [v \in Block |-> Unknown] \in [Block -> Nat \union {Unknown}]
    OBVIOUS
  <2>4. [h \in Hash |-> <<>>] \in [Hash -> Seq(Block)]
    BY <2>1
  <2> QED
    BY <2>1, <2>2, <2>3, <2>4 DEF Init, BraidType
<1>3. braid.recs = {} /\ braid.emitted = {} /\ braid.children = {} /\ braid.sel_tip = NoBlock
  BY DEF Init
<1>4. selected_tip(braid) = NoBlock
  BY <1>3, SelectedTip
<1> QED
  BY <1>2, <1>3, <1>4, ConfigFacts DEF Init, WindowInv, Sound

LEMMA WindowStep ==
    ASSUME WindowInv, [Next]_vars
    PROVE  WindowInv'
<1>1. /\ Sound(braid) /\ braid \in BraidType /\ Len(braid.pending) <= MaxPending
      /\ admitted \subseteq Block /\ drainLine \in Nat \union {Unknown}
      /\ Len(braid.pending) \in Nat /\ MaxPending \in Nat
  BY Fields, ConfigFacts DEF WindowInv, Sound
<1>2. ASSUME NEW b, Sound(b), Len(b.pending) <= MaxPending, Becomes(b),
             drainLine' \in Nat \union {Unknown}
      PROVE  WindowInv'
  <2>1. braid' = b /\ admitted' = admitted \union b.recs
    BY <1>2 DEF Becomes
  <2>2. b.recs \in SUBSET Block
    BY <1>2, Fields DEF Sound
  <2>3. (Sound(braid))'
    BY <1>2, <2>1, Zenon
  <2> QED
    BY <1>1, <1>2, <2>1, <2>2, <2>3 DEF WindowInv
<1>3. ASSUME NEW v \in Block, Insert(v) PROVE WindowInv'
  <2> DEFINE b == insert(braid, v)
  <2>1. Joins(braid, b, v)
    BY <1>1, InsertJoins
  <2>2. Becomes(b) /\ drainLine' = drainLine
    BY <1>3 DEF Insert
  <2> HIDE DEF b
  <2> QED
    BY <1>1, <1>2, <2>1, <2>2 DEF Joins
<1>4. ASSUME NEW v \in CaughtUp, CatchUp(v) PROVE WindowInv'
  <2> DEFINE m == AnchorMerges(braid, v)
             b == insert(m, v)
  <2>1. v \in Block
    BY BraidAssumption
  <2>2. m \in BraidType /\ Sound(m) /\ m.pending = braid.pending
    BY <1>1, <2>1, AnchorMergesIs
  <2>3. Becomes(b) /\ drainLine' = drainLine
    BY <1>4 DEF CatchUp
  <2> HIDE DEF m
  <2>4. Joins(m, b, v)
    BY <2>1, <2>2, InsertJoins
  <2> HIDE DEF b
  <2> QED
    BY <1>1, <1>2, <2>2, <2>3, <2>4 DEF Joins
<1>5. ASSUME NEW c \in Certifiable, SetCertified(c) PROVE WindowInv'
  <2> DEFINE b == set_certified(braid, c)
  <2>1. c \in Block
    BY BraidAssumption
  <2>2. Sound(b) /\ b.pending = braid.pending
    BY <1>1, <2>1, SetCertifiedIs
  <2>3. Becomes(b) /\ drainLine' = drainLine
    BY <1>5 DEF SetCertified
  <2> HIDE DEF b
  <2> QED
    BY <1>1, <1>2, <2>2, <2>3
<1>6. CASE Drain
  <2> DEFINE b == drain_ordered(braid)
             f == computed_final(evict_stale_pending(braid))
  <2>1. Sound(b) /\ b \in BraidType /\ Len(b.pending) <= Len(braid.pending)
        /\ f \in Nat \union {Unknown}
    BY <1>1, DrainIs
  <2>2. Becomes(b) /\ drainLine' = Max({drainLine, f})
    BY <1>6 DEF Drain
  <2> HIDE DEF b, f
  <2>3. drainLine' \in Nat \union {Unknown}
    <3>1. drainLine \in Int /\ f \in Int
      BY <1>1, <2>1 DEF Unknown
    <3> QED
      BY <1>1, <2>1, <2>2, <3>1, MaxOfTwo
  <2>4. Len(b.pending) <= MaxPending
    BY <1>1, <2>1, Fields
  <2> QED
    BY <1>2, <2>1, <2>2, <2>3, <2>4
<1>7. CASE UNCHANGED vars
  <2>1. braid' = braid /\ admitted' = admitted /\ drainLine' = drainLine
    BY <1>7 DEF vars
  <2>2. Becomes(braid)
    BY <2>1 DEF Becomes, WindowInv
  <2> QED
    BY <1>1, <1>2, <2>1, <2>2
<1> QED
  BY <1>3, <1>4, <1>5, <1>6, <1>7 DEF Next

\* At every point of every run the window, the pool and the line have their
\* types, what is emitted is resident, and the pool of parked views is never
\* larger than max_pending (insert, evict_oldest_parked).
THEOREM BraidTypes == Spec => []TypeOK
<1>1. Init => WindowInv
  BY InitIsSound
<1>2. WindowInv /\ [Next]_vars => WindowInv'
  BY WindowStep
<1>3. WindowInv => TypeOK
  BY DEF WindowInv, TypeOK, Sound
<1> QED
  BY <1>1, <1>2, <1>3, PTL DEF Spec

\* The tip memo carried from insert to insert (carry_tip_memo) and kept by
\* cleanup and set_certified always is what a full recount would select.
THEOREM MemoIsExact == Spec => []TipMemoIsRecount
<1>1. Init => WindowInv
  BY InitIsSound
<1>2. WindowInv /\ [Next]_vars => WindowInv'
  BY WindowStep
<1>3. WindowInv => TipMemoIsRecount
  BY DEF WindowInv, TipMemoIsRecount, Sound
<1> QED
  BY <1>1, <1>2, <1>3, PTL DEF Spec

-----------------------------------------------------------------------------
(* Parked views wait on unknown parents.                                    *)

\* Every parked view is in the queue W or registered under an unknown parent.
WaitsOr(b, W) ==
    \A v \in Parked(b) : v \in W \/ \E p \in MissingOf(b, v) : v \in ToSet(b.waiters[p])

LEMMA MissingIs ==
    ASSUME NEW b, NEW v \in Block
    PROVE  /\ MissingOf(b, v) \subseteq Hash
           /\ \A p : p \in MissingOf(b, v) <=> p \in Parents(v) /\ known_height(b, p) = Unknown
BY DEF MissingOf, Hash

\* Waiting survives whatever keeps the waiters and learns of p alone, when those
\* who waited for p are in the queue.
LEMMA WaitsOn ==
    ASSUME NEW b \in BraidType, NEW c, NEW W, NEW V, NEW p,
           WaitsOr(b, W), Parked(c) \subseteq Parked(b),
           W \intersect Parked(c) \subseteq V, p \in Hash => ToSet(b.waiters[p]) \subseteq V,
           \A h \in Hash : h # p => /\ known_height(b, h) = Unknown
                                          => known_height(c, h) = Unknown
                                    /\ ToSet(b.waiters[h]) \intersect Parked(c)
                                          \subseteq ToSet(c.waiters[h])
    PROVE  WaitsOr(c, V)
<1> SUFFICES ASSUME NEW v \in Parked(c), v \notin V
             PROVE  \E q \in MissingOf(c, v) : v \in ToSet(c.waiters[q])
  BY DEF WaitsOr
<1>1. v \in Parked(b) /\ v \in Block /\ v \notin W
  BY Fields
<1>2. PICK q \in MissingOf(b, v) : v \in ToSet(b.waiters[q])
  BY <1>1 DEF WaitsOr
<1>3. q \in Hash /\ q \in Parents(v) /\ known_height(b, q) = Unknown
  BY <1>1, <1>2, MissingIs
<1>4. q # p
  BY <1>2, <1>3
<1>5. q \in MissingOf(c, v) /\ v \in ToSet(c.waiters[q])
  BY <1>1, <1>2, <1>3, <1>4, MissingIs
<1> QED
  BY <1>5

\* Parking v on the parents it misses.
LEMMA ParkOnWaits ==
    ASSUME NEW b \in BraidType, NEW v \in Block, MissingOf(b, v) # {}, NEW W,
           \A w \in Parked(b) \ {v} :
               w \in W \/ \E p \in MissingOf(b, w) : w \in ToSet(b.waiters[p])
    PROVE  WaitsOr(ParkOn(b, v, MissingOf(b, v)), W)
<1> DEFINE c == ParkOn(b, v, MissingOf(b, v))
<1>1. /\ c \in BraidType /\ SameWindow(b, c) /\ Parked(c) = Parked(b) \union {v}
      /\ \A h \in Hash : ToSet(c.waiters[h])
            = ToSet(b.waiters[h]) \union (IF h \in MissingOf(b, v) THEN {v} ELSE {})
  BY ParkOnIs
<1> HIDE DEF c
<1>2. \A w : MissingOf(c, w) = MissingOf(b, w)
  BY <1>1, SameWindowKeeps
<1>3. \A w \in Block : MissingOf(b, w) \subseteq Hash
  BY MissingIs
<1>4. \E p \in MissingOf(c, v) : v \in ToSet(c.waiters[p])
  BY <1>1, <1>2, <1>3
<1>5. ASSUME NEW w \in Parked(b) \ {v}, w \notin W
      PROVE  \E p \in MissingOf(c, w) : w \in ToSet(c.waiters[p])
  <2>1. PICK p \in MissingOf(b, w) : w \in ToSet(b.waiters[p])
    BY <1>5
  <2>2. w \in Block /\ p \in Hash
    BY <1>3, <2>1, Fields
  <2> QED
    BY <1>1, <1>2, <2>1, <2>2
<1>6. WaitsOr(c, W)
  BY <1>1, <1>4, <1>5 DEF WaitsOr
<1> QED
  BY <1>6 DEF c

\* The cascade wakes all who waited for what has just become known.
LEMMA CascadeWaits ==
    ASSUME NEW b \in BraidType, NEW v \in Block, WaitsOr(b, ToSet(b.waiters[v]))
    PROVE  WaitsOr(cascade_unpark(b, v), {})
<1> DEFINE b0    == [b EXCEPT !.waiters[v] = <<>>]
           P     == {s \in Cascades : WaitsOr(s.braid, ToSet(s.work))}
           Q     == {c \in BraidType : WaitsOr(c, {})}
           start == [braid |-> b0, work |-> b.waiters[v]]
<1>1. /\ b0 \in BraidType /\ SameWindow(b, b0) /\ b0.pending = b.pending
      /\ \A h \in Hash : h # v => b0.waiters[h] = b.waiters[h]
      /\ v \in Hash /\ b.waiters[v] \in Seq(Block)
  <2>1. v \in Hash /\ <<>> \in Seq(Block) /\ b.waiters \in [Hash -> Seq(Block)]
    BY Fields, BlockFacts
  <2> QED
    BY <2>1 DEF BraidType, SameWindow
<1>2. start \in P
  <2> HIDE DEF b0
  <2>1. Parked(b0) = Parked(b) /\ \A h \in Hash : known_height(b0, h) = known_height(b, h)
    BY <1>1, SameWindowKeeps DEF Parked
  <2>2. WaitsOr(b0, ToSet(b.waiters[v]))
    BY <1>1, <2>1, WaitsOn
  <2> QED
    BY <1>1, <2>2 DEF Cascades
<1>3. ASSUME NEW s \in P, s \notin Ended PROVE NextTurn[s] \in P
  <2> DEFINE c     == s.braid
             child == Head(s.work)
             rest  == Tail(s.work)
             taken == unpark_take(c, child)
             n     == NextTurn[s]
  <2>1. /\ s \in Cascades /\ c \in BraidType /\ child \in Block /\ child \in Hash
        /\ Turned(s, n) /\ n \in Cascades /\ WaitsOr(c, ToSet(s.work))
        /\ ToSet(s.work) = {child} \union ToSet(rest)
    BY <1>3, TurnIs, TurnsDescend, TailIs, BlockFacts DEF Descends
  <2>2. /\ taken \in BraidType /\ SameWindow(c, taken)
        /\ Parked(taken) = Parked(c) \ {child} /\ taken.waiters = c.waiters
    BY <2>1, UnparkIs
  <2>3. \A h : MissingOf(taken, h) = MissingOf(c, h)
    BY <2>2, SameWindowKeeps
  <2>4. WaitsOr(taken, ToSet(rest))
    BY <2>1, <2>2, <2>3 DEF WaitsOr
  <2>5. CASE child \notin Parked(c) /\ n.braid = c /\ n.work = rest
    BY <2>1, <2>5 DEF WaitsOr
  <2>6. CASE n.braid = taken /\ n.work = rest
    BY <2>1, <2>4, <2>6
  <2>7. CASE Woken(s, n)
    <3> DEFINE a == n.braid
    <3>1. /\ ToSet(n.work) = ToSet(rest) \union ToSet(c.waiters[child])
          /\ a.recs = c.recs \union {child} /\ a.emitted_at = c.emitted_at
          /\ Parked(a) = Parked(c) \ {child}
          /\ \A h \in Hash : h # child => a.waiters[h] = c.waiters[h]
      BY <1>3, <2>1, <2>7, WokenIs
    <3>2. \A h \in Hash : h # child =>
              (known_height(c, h) = Unknown => known_height(a, h) = Unknown)
      BY <3>1 DEF known_height
    <3> HIDE DEF a, c, child, rest
    <3>3. WaitsOr(a, ToSet(n.work))
      <4>1. ToSet(s.work) \intersect Parked(a) \subseteq ToSet(n.work)
        BY <2>1, <3>1
      <4>2. ToSet(c.waiters[child]) \subseteq ToSet(n.work)
        BY <3>1
      <4>3. Parked(a) \subseteq Parked(c)
        BY <3>1
      <4>4. \A h \in Hash : h # child =>
                ToSet(c.waiters[h]) \intersect Parked(a) \subseteq ToSet(a.waiters[h])
        BY <3>1
      <4> QED
        BY <2>1, <3>2, <4>1, <4>2, <4>3, <4>4, WaitsOn
    <3> QED
      BY <2>1, <3>3 DEF a
  <2>8. CASE /\ MissingOf(taken, child) # {}
             /\ n.braid = ParkOn(taken, child, MissingOf(taken, child)) /\ n.work = rest
    <3>1. WaitsOr(n.braid, ToSet(rest))
      BY <2>1, <2>2, <2>4, <2>8, ParkOnWaits DEF WaitsOr
    <3> QED
      BY <2>1, <2>8, <3>1
  <2>9. \/ child \notin Parked(c) /\ n = [braid |-> c, work |-> rest]
        \/ n = [braid |-> taken, work |-> rest]
        \/ Woken(s, n)
        \/ /\ MissingOf(taken, child) # {}
           /\ n = [braid |-> ParkOn(taken, child, MissingOf(taken, child)), work |-> rest]
    BY <2>1 DEF Turned
  <2> HIDE DEF P, c, child, rest, taken, n
  <2> QED
    BY <2>5, <2>6, <2>7, <2>8, <2>9 DEF n
<1>4. \A s \in P : s \in Ended => s.braid \in Q
  <2> SUFFICES ASSUME NEW s \in P, s \in Ended PROVE s.braid \in Q
    OBVIOUS
  <2>1. s.braid \in BraidType /\ s.work = <<>> /\ ToSet(s.work) = {}
    BY DEF Cascades, Ended, ToSet
  <2> QED
    BY <2>1
<1>5. cascade_unpark(b, v) \in Q
  <2>1. P \in SUBSET Cascades
    OBVIOUS
  <2> HIDE DEF P, Q
  <2> QED
    BY <1>2, <1>3, <1>4, <2>1, CascadeKeeps
<1> QED
  BY <1>5

\* Every insert leaves every parked view waiting.
LEMMA InsertWaits ==
    ASSUME NEW b \in BraidType, NEW v \in Block, WaitsOr(b, {})
    PROVE  WaitsOr(insert(b, v), {})
<1> DEFINE i == insert(b, v)
<1>1. v \in Hash /\ b.waiters[v] \in Seq(Block)
  BY Fields, BlockFacts
<1>2. CASE i = b
  BY <1>2
<1>3. CASE v \notin b.recs /\ i = cascade_unpark(anchor_trusted(b, v, View[v].height), v)
  <2> DEFINE t == anchor_trusted(b, v, View[v].height)
  <2>1. /\ t \in BraidType /\ t.recs = b.recs /\ Parked(t) = Parked(b) /\ t.waiters = b.waiters
        /\ \A g \in Hash : g # v => t.emitted_at[g] = b.emitted_at[g]
    <3>1. v \in Hash /\ View[v].height \in Nat
      BY BlockFacts
    <3> QED
      BY <3>1, AnchorTrustedIs DEF Parked
  <2> HIDE DEF t
  <2>2. \A h \in Hash : h # v => known_height(t, h) = known_height(b, h)
    BY <2>1 DEF known_height
  <2>3. WaitsOr(t, ToSet(b.waiters[v]))
    BY <2>1, <2>2, WaitsOn
  <2>4. WaitsOr(cascade_unpark(t, v), {})
    BY <2>1, <2>3, CascadeWaits
  <2> QED
    BY <1>3, <2>4 DEF t
<1>4. CASE i = cascade_unpark(Accept(b, v), v)
  <2> DEFINE a == Accept(b, v)
  <2>1. /\ a \in BraidType /\ a.recs = b.recs \union {v} /\ Parked(a) = Parked(b)
        /\ a.waiters = b.waiters /\ a.emitted_at = b.emitted_at
    BY AcceptIs
  <2> HIDE DEF a
  <2>2. \A h \in Hash : h # v => known_height(a, h) = known_height(b, h)
    BY <2>1 DEF known_height
  <2>3. WaitsOr(a, ToSet(b.waiters[v]))
    BY <2>1, <2>2, WaitsOn
  <2>4. WaitsOr(cascade_unpark(a, v), {})
    BY <2>1, <2>3, CascadeWaits
  <2> QED
    BY <1>4, <2>4 DEF a
<1>5. CASE MissingOf(b, v) # {} /\ i = ParkOn(b, v, MissingOf(b, v))
  BY <1>5, ParkOnWaits DEF WaitsOr
<1>6. CASE /\ MissingOf(b, v) # {} /\ b.pending # <<>>
           /\ i = ParkOn(evict_oldest_parked(b), v, MissingOf(b, v))
  <2> DEFINE e == evict_oldest_parked(b)
  <2>1. PICK old \in Block : /\ Parked(e) = Parked(b) \ {old}
                             /\ \A h \in Hash : ToSet(e.waiters[h])
                                   = ToSet(b.waiters[h]) \ {old}
    BY <1>6, EvictOldestIs
  <2>2. e \in BraidType /\ SameWindow(b, e)
    BY <1>6, EvictOldestIs
  <2> HIDE DEF e
  <2>3. /\ \A h \in Hash : known_height(e, h) = known_height(b, h)
        /\ \A w : MissingOf(e, w) = MissingOf(b, w)
    BY <2>2, SameWindowKeeps
  <2>4. WaitsOr(e, {})
    <3> SUFFICES ASSUME NEW w \in Parked(e)
                 PROVE  \E p \in MissingOf(e, w) : w \in ToSet(e.waiters[p])
      BY DEF WaitsOr
    <3>1. w \in Parked(b) /\ w # old /\ w \in Block
      BY <2>1, Fields
    <3>2. PICK p \in MissingOf(b, w) : w \in ToSet(b.waiters[p])
      BY <3>1 DEF WaitsOr
    <3>3. p \in Hash
      BY <3>1, <3>2, MissingIs
    <3> QED
      BY <2>1, <2>3, <3>1, <3>2, <3>3
  <2>5. WaitsOr(ParkOn(e, v, MissingOf(e, v)), {})
    BY <1>6, <2>2, <2>3, <2>4, ParkOnWaits DEF WaitsOr
  <2> QED
    BY <1>6, <2>3, <2>5 DEF e
<1> HIDE DEF i
<1>7. \/ i = b
      \/ v \notin b.recs /\ i = cascade_unpark(anchor_trusted(b, v, View[v].height), v)
      \/ i = cascade_unpark(Accept(b, v), v)
      \/ MissingOf(b, v) # {} /\ i = ParkOn(b, v, MissingOf(b, v))
      \/ /\ MissingOf(b, v) # {} /\ b.pending # <<>>
         /\ i = ParkOn(evict_oldest_parked(b), v, MissingOf(b, v))
  <2>1. v \notin b.recs \union Parked(b) => v \notin b.recs
    OBVIOUS
  <2> QED
    BY <2>1, InsertIs, Zenon DEF i
<1> QED
  BY <1>2, <1>3, <1>4, <1>5, <1>6, <1>7 DEF i

\* A parked view always waits for a parent the braid does not know, and is
\* registered under it: none is left behind by an insert, a cascade, an eviction
\* or a cleanup (register_waiters, cascade_unpark, retain_waiters).  Catch-up can
\* break it, by anchoring a merge parent others wait for without waking them, so
\* the theorem is about settled chains whose blocks have no merge parents.
THEOREM NobodyForgotten ==
    ASSUME \A v \in CaughtUp : ToSet(View[v].merge) = {}
    PROVE  Spec => []ParkedWaitsOnUnknown
<1> DEFINE Inv == WindowInv /\ WaitsOr(braid, {})
<1>1. Init => Inv
  <2> SUFFICES ASSUME Init PROVE Inv
    OBVIOUS
  <2>1. WindowInv
    BY InitIsSound
  <2>2. Parked(braid) = {}
    BY DEF Init, Parked, ToSet
  <2> QED
    BY <2>1, <2>2 DEF WaitsOr
<1>2. Inv /\ [Next]_vars => Inv'
  <2> SUFFICES ASSUME Inv, [Next]_vars PROVE Inv'
    OBVIOUS
  <2>1. WindowInv' /\ braid \in BraidType
    BY WindowStep DEF WindowInv, Sound
  <2>2. ASSUME NEW b, WaitsOr(b, {}), braid' = b PROVE WaitsOr(braid, {})'
    BY <2>2, Zenon
  <2>3. ASSUME NEW v \in Block, Insert(v) PROVE WaitsOr(braid, {})'
    <3>1. WaitsOr(insert(braid, v), {})
      BY <2>1, InsertWaits
    <3> QED
      BY <2>2, <2>3, <3>1 DEF Insert, Becomes
  <2>4. ASSUME NEW v \in CaughtUp, CatchUp(v) PROVE WaitsOr(braid, {})'
    <3> DEFINE m == AnchorMerges(braid, v)
    <3>1. v \in Block
      BY BraidAssumption
    <3>2. m \in BraidType /\ Parked(m) = Parked(braid)
      BY <2>1, <3>1, AnchorMergesIs
    <3>3. m.recs = braid.recs /\ m.waiters = braid.waiters
          /\ \A h \in Hash : m.emitted_at[h] = braid.emitted_at[h]
      BY <2>1 DEF AnchorMerges, BraidType
    <3> HIDE DEF m
    <3>4. \A h \in Hash : known_height(m, h) = known_height(braid, h)
      BY <3>3 DEF known_height
    <3>5. WaitsOr(m, {})
      <4>1. NoBlock \notin Hash
        BY BraidAssumption
      <4> QED
        BY <2>1, <3>2, <3>3, <3>4, <4>1, WaitsOn
    <3>6. WaitsOr(insert(m, v), {})
      BY <3>1, <3>2, <3>5, InsertWaits
    <3> QED
      BY <2>2, <2>4, <3>6 DEF CatchUp, Becomes, m
  <2>5. ASSUME NEW c \in Certifiable, SetCertified(c) PROVE WaitsOr(braid, {})'
    <3> DEFINE n == set_certified(braid, c)
    <3>1. c \in Block
      BY BraidAssumption
    <3>2. /\ n \in BraidType /\ n.recs = braid.recs /\ Parked(n) = Parked(braid)
          /\ n.waiters = braid.waiters /\ n.emitted_at = braid.emitted_at
      BY <2>1, <3>1, SetCertifiedIs
    <3> HIDE DEF n
    <3>3. \A w : MissingOf(n, w) = MissingOf(braid, w)
      BY <3>2 DEF MissingOf, known_height
    <3>4. WaitsOr(n, {})
      BY <3>2, <3>3 DEF WaitsOr
    <3> QED
      BY <2>2, <2>5, <3>4 DEF SetCertified, Becomes, n
  <2>6. CASE Drain
    <3> DEFINE d == drain_ordered(braid)
    <3>1. Thins(braid, d)
      BY <2>1, DrainIs
    <3> HIDE DEF d
    <3>2. WaitsOr(d, {})
      <4>1. NoBlock \notin Hash
        BY BraidAssumption
      <4> QED
        BY <2>1, <3>1, <4>1, WaitsOn DEF Thins
    <3> QED
      BY <2>1, <2>2, <2>6, <3>2 DEF Drain, Becomes, d
  <2>7. CASE UNCHANGED vars
    <3>1. WaitsOr(braid, {}) /\ braid' = braid
      BY <2>7 DEF vars
    <3> QED
      BY <2>1, <2>2, <3>1
  <2> QED
    BY <2>1, <2>3, <2>4, <2>5, <2>6, <2>7 DEF Next
<1>3. Inv => ParkedWaitsOnUnknown
  BY DEF ParkedWaitsOnUnknown, WaitsOr
<1> HIDE DEF Inv
<1> QED
  BY <1>1, <1>2, <1>3, PTL DEF Spec

-----------------------------------------------------------------------------
(* The line that was drained through stays.                                 *)

LEMMA TipIsHighest ==
    ASSUME NEW b, Sound(b)
    PROVE  /\ b \in BraidType /\ tip_height(b) \in Nat \union {Unknown}
           /\ tip_height(b) # Unknown => \E v \in b.recs : View[v].height = tip_height(b)
           /\ ~CertForkChoice => \A v \in b.recs : tip_height(b) >= View[v].height
           /\ AnchorResident(b) => tip_height(b) >= View[fork_anchor(b)].height
<1>1. b \in BraidType /\ b.recs \in SUBSET Block /\ b.sel_tip = selected_tip(b)
  BY Fields DEF Sound
<1>2. tip_height(b) \in Nat \union {Unknown}
  BY <1>1, TipHeightIs
<1>3. tip_height(b) = IF b.sel_tip = NoBlock THEN Unknown ELSE View[b.sel_tip].height
  BY DEF tip_height
<1>4. b.recs # {} => /\ b.sel_tip \in b.recs /\ b.sel_tip # NoBlock
                     /\ \A w \in TipChoices(b) : View[b.sel_tip].height >= View[w].height
  <2>1. TipChoices(b) \subseteq Block
    BY <1>1, ChoicesAre
  <2>2. b.recs # {} => /\ b.sel_tip \in b.recs /\ b.sel_tip \in Block
                       /\ \A w \in TipChoices(b) : BetterTip(b.sel_tip, w)
    BY <1>1, SelectedTip
  <2> QED
    BY <1>1, <2>1, <2>2, TipOrder, BlockFacts
<1>5. b.recs = {} => b.sel_tip = NoBlock
  BY <1>1, SelectedTip
<1>6. ~CertForkChoice => TipChoices(b) = b.recs
  BY <1>1, NoAnchor
<1>7. AnchorResident(b) => fork_anchor(b) \in TipChoices(b) /\ TipChoices(b) \subseteq b.recs
  BY <1>1, ChoicesAre
<1> QED
  BY <1>1, <1>2, <1>3, <1>4, <1>5, <1>6, <1>7

\* What keeps a line l from falling: nothing is parked at or below it, and the
\* depth rule or the certificate reaches it.
HoldsLine(b, l) ==
    /\ \A v \in Parked(b) : View[v].height > l
    /\ b.certified # NoBlock => View[b.certified].height <= tip_height(b)
    /\ CertForkChoice /\ b.certified # NoBlock => b.certified \in b.recs
    /\ l # Unknown => \/ DepthFinality /\ tip_height(b) - FinalDepth >= l
                      \/ b.certified # NoBlock /\ View[b.certified].height >= l

LEMMA LineHeld ==
    ASSUME NEW b \in BraidType, NEW l \in Nat \union {Unknown}, HoldsLine(b, l),
           CertGrace = 0
    PROVE  computed_final(b) >= l
<1>1. /\ computed_final(b) \in Nat \union {Unknown}
      /\ CertLine(b) \in Nat \union {Unknown} /\ DepthLine(b) \in Nat \union {Unknown}
      /\ computed_final(b) >= CertLine(b) /\ computed_final(b) >= DepthLine(b)
  BY LineParts
<1>2. CASE l = Unknown
  BY <1>1, <1>2 DEF Unknown
<1>3. CASE l # Unknown /\ DepthFinality /\ tip_height(b) - FinalDepth >= l
  <2>1. l \in Nat /\ l <= tip_height(b) - FinalDepth /\ \A v \in Parked(b) : View[v].height > l
    BY <1>3, TipHeightIs, ConfigFacts DEF HoldsLine, Unknown
  <2>2. depth_rule_final(b) >= l
    BY <2>1, DepthRule
  <2>3. DepthLine(b) = depth_rule_final(b)
    BY <1>3 DEF DepthLine
  <2> QED
    BY <1>1, <2>1, <2>2, <2>3 DEF Unknown
<1>4. CASE l # Unknown /\ b.certified # NoBlock /\ View[b.certified].height >= l
  <2> DEFINE h == View[b.certified].height
  <2>1. h \in Nat /\ h <= tip_height(b) /\ tip_height(b) \in Int
    BY <1>4, Fields, BlockFacts, TipHeightIs DEF HoldsLine
  <2>2. cert_line_held(b, h) = h
    <3> HIDE DEF h
    <3> QED
      BY <2>1, HeldLine
  <2>3. CertLine(b) = h
    BY <1>4, <2>1, <2>2 DEF CertLine
  <2> QED
    BY <1>1, <1>4, <2>1, <2>3 DEF Unknown
<1> QED
  BY <1>2, <1>3, <1>4 DEF HoldsLine

\* A resident certificate the forks are chosen by is never above the tip.
LEMMA CertUnderTip ==
    ASSUME NEW b, Sound(b), CertForkChoice, b.certified \in b.recs
    PROVE  View[b.certified].height <= tip_height(b)
<1>1. AnchorResident(b) /\ fork_anchor(b) = b.certified
  BY DEF AnchorResident, fork_anchor
<1>2. View[b.certified].height \in Nat /\ tip_height(b) \in Int
  BY Fields, BlockFacts, TipIsHighest DEF Sound, Unknown
<1> QED
  BY <1>1, <1>2, TipIsHighest

LEMMA InsertHoldsLine ==
    ASSUME NEW b, Sound(b), NEW v \in Block, NEW l \in Nat \union {Unknown}, HoldsLine(b, l),
           CertGrace = 0, ~(CertForkChoice /\ DepthFinality)
    PROVE  HoldsLine(insert(b, v), l)
<1> DEFINE i == insert(b, v)
<1>1. Joins(b, i, v) /\ b \in BraidType
  BY InsertJoins DEF Sound
<1>2. computed_final(b) >= l /\ computed_final(b) \in Int
  BY <1>1, LineHeld, LineParts DEF Unknown
<1> HIDE DEF i
<1>3. Sound(i) /\ b.recs \subseteq i.recs /\ i.certified = b.certified
  BY <1>1 DEF Joins
<1>4. /\ tip_height(i) \in Int /\ tip_height(b) \in Int
      /\ ~CertForkChoice => tip_height(i) >= tip_height(b)
  BY <1>3, TipIsHighest DEF Unknown
<1>5. \A w \in Parked(i) : View[w].height > l
  <2> TAKE w \in Parked(i)
  <2>1. w \in Parked(b) \/ (w = v /\ View[v].height > computed_final(b))
    BY <1>1 DEF Joins
  <2> QED
    BY <1>2, <2>1, BlockFacts DEF HoldsLine, Unknown
<1>6. b.certified # NoBlock => View[b.certified].height \in Nat
  BY <1>1, Fields, BlockFacts
<1>7. CertForkChoice /\ b.certified # NoBlock =>
         i.certified \in i.recs /\ View[i.certified].height <= tip_height(i)
  BY <1>3, CertUnderTip DEF HoldsLine
<1>8. HoldsLine(i, l)
  BY <1>3, <1>4, <1>5, <1>6, <1>7, ConfigFacts DEF HoldsLine, Unknown
<1> QED
  BY <1>8 DEF i

LEMMA DrainHoldsLine ==
    ASSUME NEW b, Sound(b), NEW l \in Nat \union {Unknown}, HoldsLine(b, l),
           CertGrace = 0, ~(CertForkChoice /\ DepthFinality), FinalQuorum <= 1
    PROVE  HoldsLine(drain_ordered(b), Max({l, computed_final(evict_stale_pending(b))}))
<1> DEFINE e == evict_stale_pending(b)
           f == computed_final(e)
           d == drain_ordered(b)
<1>1. b \in BraidType /\ Forgets(b, e)
  BY EvictStaleIs DEF Sound
<1> HIDE DEF e
<1>2. /\ e \in BraidType /\ SameWindow(b, e) /\ Sound(e) /\ tip_height(e) = tip_height(b)
      /\ e.certified = b.certified /\ e.recs = b.recs /\ Parked(e) \subseteq Parked(b)
  BY <1>1, SameWindowKeeps DEF Forgets, SameWindow
<1>3. HoldsLine(e, l)
  BY <1>2 DEF HoldsLine
<1>4. f >= l /\ f \in Nat \union {Unknown} /\ f \in {CertLine(e), DepthLine(e), quorum_final(e)}
  BY <1>2, <1>3, LineHeld, LineParts
<1>5. quorum_final(e) = Unknown
  BY <1>2, QuorumLine
<1>6. /\ d \in BraidType /\ Sound(d) /\ d.certified = b.certified /\ d.recs \subseteq b.recs
      /\ Parked(d) \subseteq Parked(b)
      /\ f = Unknown => d.recs = b.recs
      /\ f # Unknown => /\ \A v \in Parked(d) : View[v].height > f
                        /\ \A v \in b.recs : View[v].height >= saturating_sub(f, FinalDepth)
                                                => v \in d.recs
  BY <1>1, DrainIs DEF e, Thins
<1> HIDE DEF f, d
<1>7. Max({l, f}) = f
  <2>1. l \in Int /\ f \in Int
    BY <1>4 DEF Unknown
  <2> QED
    BY <1>4, <2>1, MaxOfTwo
<1>8. b.certified # NoBlock => View[b.certified].height \in Nat
  BY <1>1, Fields, BlockFacts
<1>9. \A v \in Parked(d) : View[v].height \in Nat
  BY <1>6, Fields, BlockFacts
<1>10. CASE f = Unknown
  <2>1. /\ tip_height(d) \in Int /\ tip_height(b) \in Int
        /\ ~CertForkChoice => tip_height(d) >= tip_height(b)
    BY <1>6, <1>10, TipIsHighest DEF Unknown
  <2>2. CertForkChoice /\ b.certified # NoBlock =>
           d.certified \in d.recs /\ View[d.certified].height <= tip_height(d)
    BY <1>6, <1>10, CertUnderTip DEF HoldsLine
  <2> QED
    BY <1>6, <1>7, <1>8, <1>9, <1>10, <2>1, <2>2 DEF HoldsLine, Unknown, d, f, e
<1>11. CASE f # Unknown
  <2>1. f \in Nat
    BY <1>4, <1>11
  <2>2. CASE f = DepthLine(e) /\ DepthFinality
    <3>1. f <= tip_height(e) - FinalDepth
      BY <1>2, <1>11, <2>2, DepthRule DEF DepthLine
    <3>2. tip_height(e) >= f /\ tip_height(e) \in Nat
      BY <1>2, <2>1, <3>1, TipHeightIs, ConfigFacts DEF Unknown
    <3>3. PICK v \in b.recs : View[v].height = tip_height(b)
      BY <1>2, <3>2, TipIsHighest DEF Unknown
    <3>4. v \in d.recs
      BY <1>2, <1>6, <1>11, <2>1, <3>2, <3>3, ConfigFacts DEF saturating_sub
    <3>5. tip_height(d) >= tip_height(b) /\ tip_height(d) \in Int /\ tip_height(b) \in Int
      BY <1>2, <1>6, <2>2, <3>2, <3>3, <3>4, TipIsHighest DEF Unknown
    <3>6. tip_height(d) - FinalDepth >= f
      BY <1>2, <2>1, <3>1, <3>5, ConfigFacts
    <3>7. HoldsLine(d, f)
      BY <1>6, <1>8, <1>11, <2>2, <3>5, <3>6 DEF HoldsLine
    <3> QED
      BY <1>7, <3>7 DEF d, f, e
  <2>3. CASE f = CertLine(e)
    <3>1. e.certified # NoBlock /\ View[e.certified].height = f /\ f <= tip_height(e)
      <4>1. e.certified # NoBlock /\ f = cert_line_held(e, View[e.certified].height)
        BY <1>11, <2>3 DEF CertLine
      <4> QED
        BY <1>2, <1>3, <1>8, <4>1, HeldLine DEF HoldsLine
    <3>2. tip_height(e) \in Nat
      BY <1>2, <2>1, <3>1, TipHeightIs DEF Unknown
    <3>3. CertForkChoice => d.certified \in d.recs /\ View[d.certified].height <= tip_height(d)
      <4>1. View[e.certified].height >= saturating_sub(f, FinalDepth)
        BY <2>1, <3>1, ConfigFacts DEF saturating_sub
      <4>2. CertForkChoice => e.certified \in b.recs
        BY <1>2, <3>1 DEF HoldsLine
      <4> QED
        BY <1>2, <1>6, <1>11, <4>1, <4>2, CertUnderTip
    <3>4. PICK v \in b.recs : View[v].height = tip_height(b)
      BY <1>2, <3>2, TipIsHighest DEF Unknown
    <3>5. /\ tip_height(d) \in Int /\ tip_height(b) \in Int
          /\ ~CertForkChoice => tip_height(d) >= tip_height(b)
      <4>1. v \in d.recs
        BY <1>2, <1>6, <1>11, <2>1, <3>1, <3>2, <3>4, ConfigFacts DEF saturating_sub
      <4> QED
        BY <1>2, <1>6, <3>2, <3>4, <4>1, TipIsHighest DEF Unknown
    <3>6. HoldsLine(d, f)
      BY <1>2, <1>6, <1>8, <1>11, <2>1, <3>1, <3>3, <3>5 DEF HoldsLine
    <3> QED
      BY <1>7, <3>6 DEF d, f, e
  <2> QED
    BY <1>4, <1>5, <1>11, <2>2, <2>3 DEF DepthLine
<1> QED
  BY <1>10, <1>11

LEMMA SetCertifiedHoldsLine ==
    ASSUME NEW b, Sound(b), NEW c \in Block, NEW l \in Nat \union {Unknown}, HoldsLine(b, l),
           ~(CertForkChoice /\ DepthFinality)
    PROVE  HoldsLine(set_certified(b, c), l)
<1> DEFINE n == set_certified(b, c)
<1>1. /\ n \in BraidType /\ Sound(n) /\ Parked(n) = Parked(b) /\ n.recs = b.recs
      /\ ~CertForkChoice => n.sel_tip = b.sel_tip
      /\ \/ n = b
         \/ /\ n.certified = c /\ c \in b.recs /\ View[c].height <= tip_height(b)
            /\ b.certified # NoBlock => View[c].height > View[b.certified].height
  BY SetCertifiedIs DEF Sound
<1> HIDE DEF n
<1>2. /\ c # NoBlock /\ View[c].height \in Nat
      /\ b.certified # NoBlock => View[b.certified].height \in Nat
  BY Fields, BlockFacts DEF Sound
<1>3. ~CertForkChoice => tip_height(n) = tip_height(b)
  BY <1>1 DEF tip_height
<1>4. CertForkChoice /\ n # b => View[n.certified].height <= tip_height(n)
  BY <1>1, CertUnderTip
<1>5. CASE n = b
  BY <1>5 DEF n
<1>6. CASE n # b
  <2>1. HoldsLine(n, l)
    BY <1>1, <1>2, <1>3, <1>4, <1>6 DEF HoldsLine, Unknown
  <2> QED
    BY <2>1 DEF n
<1> QED
  BY <1>5, <1>6

LEMMA InitHoldsLine ==
    ASSUME Init PROVE HoldsLine(braid, drainLine)
<1>1. Parked(braid) = {} /\ braid.certified = NoBlock /\ drainLine = Unknown
  BY DEF Init, Parked, ToSet
<1> QED
  BY <1>1 DEF HoldsLine

LEMMA HoldsLineStep ==
    ASSUME ~(CertForkChoice /\ DepthFinality), CertGrace = 0, FinalQuorum <= 1,
           WindowInv, HoldsLine(braid, drainLine), [Next]_vars
    PROVE  HoldsLine(braid', drainLine')
<1>1. /\ WindowInv' /\ Sound(braid) /\ braid \in BraidType
      /\ drainLine \in Nat \union {Unknown} /\ HoldsLine(braid, drainLine)
  BY WindowStep DEF WindowInv, Sound
<1>2. ASSUME NEW b, NEW l, HoldsLine(b, l), braid' = b, drainLine' = l
      PROVE  HoldsLine(braid', drainLine')
  BY <1>2
<1>3. ASSUME NEW v \in Block, Insert(v) PROVE HoldsLine(braid', drainLine')
  <2>1. HoldsLine(insert(braid, v), drainLine)
    BY <1>1, InsertHoldsLine
  <2> QED
    BY <1>2, <1>3, <2>1 DEF Insert, Becomes
<1>4. ASSUME NEW v \in CaughtUp, CatchUp(v) PROVE HoldsLine(braid', drainLine')
  <2> DEFINE m == AnchorMerges(braid, v)
  <2>1. v \in Block
    BY BraidAssumption
  <2>2. /\ Sound(m) /\ Parked(m) = Parked(braid) /\ m.recs = braid.recs
        /\ m.certified = braid.certified /\ m.sel_tip = braid.sel_tip
    BY <1>1, <2>1, AnchorMergesIs
  <2> HIDE DEF m
  <2>3. HoldsLine(m, drainLine)
    BY <1>1, <2>2 DEF HoldsLine, tip_height
  <2>4. HoldsLine(insert(m, v), drainLine)
    BY <1>1, <2>1, <2>2, <2>3, InsertHoldsLine
  <2> QED
    BY <1>2, <1>4, <2>4 DEF CatchUp, Becomes, m
<1>5. ASSUME NEW c \in Certifiable, SetCertified(c) PROVE HoldsLine(braid', drainLine')
  <2>1. c \in Block
    BY BraidAssumption
  <2>2. HoldsLine(set_certified(braid, c), drainLine)
    BY <1>1, <2>1, SetCertifiedHoldsLine
  <2> QED
    BY <1>2, <1>5, <2>2 DEF SetCertified, Becomes
<1>6. CASE Drain
  <2>1. HoldsLine(drain_ordered(braid),
                  Max({drainLine, computed_final(evict_stale_pending(braid))}))
    BY <1>1, DrainHoldsLine
  <2> QED
    BY <1>2, <1>6, <2>1 DEF Drain, Becomes
<1>7. CASE UNCHANGED vars
  BY <1>1, <1>2, <1>7 DEF vars
<1> QED
  BY <1>3, <1>4, <1>5, <1>6, <1>7 DEF Next

\* Once a drain has emitted through a line, the line every insert is measured
\* against never falls below it, so nothing can enter the frozen part of the
\* order (computed_final, depth_rule_final, cleanup).  The hypotheses name the
\* rules that take a line back: the grace that holds a certificate for parked
\* blocks, the quorum rule, and the depth rule measured from a tip that the
\* certificates choose.
THEOREM DrainedStays ==
    ASSUME ~(CertForkChoice /\ DepthFinality), CertGrace = 0, FinalQuorum <= 1
    PROVE  Spec => []DrainedLineHolds
<1> DEFINE Inv == WindowInv /\ HoldsLine(braid, drainLine)
<1>1. Init => Inv
  BY InitIsSound, InitHoldsLine
<1>2. Inv /\ [Next]_vars => Inv'
  <2> SUFFICES ASSUME Inv, [Next]_vars PROVE Inv'
    OBVIOUS
  <2>1. WindowInv' /\ HoldsLine(braid', drainLine')
    BY WindowStep, HoldsLineStep
  <2> QED
    BY <2>1, Zenon
<1>3. Inv => DrainedLineHolds
  BY LineHeld DEF WindowInv, Sound, DrainedLineHolds
<1> HIDE DEF Inv
<1> QED
  BY <1>1, <1>2, <1>3, PTL DEF Spec

-----------------------------------------------------------------------------
(* Certificates and the line.                                               *)

\* A higher certificate never has a lower line over the same pool.
LEMMA HeldGrows ==
    ASSUME NEW b \in BraidType, NEW c \in BraidType, c.pending = b.pending,
           NEW g \in Nat, NEW h \in Nat, g <= h
    PROVE  cert_line_held(b, g) <= cert_line_held(c, h)
<1> DEFINE floor == pending_floor(b)
           reach == saturating_sub(floor, 1 + ParentReach)
           low(x)   == Min({x, reach})
           grace(x) == saturating_sub(x, CertGrace)
           held(x)  == IF CertGrace # 0 /\ floor # Unknown /\ reach <= x
                       THEN Max({low(x), grace(x)}) ELSE x
<1>1. floor \in Int /\ CertGrace \in Nat /\ 1 + ParentReach \in Int
  BY FloorIs, ConfigFacts DEF Unknown
<1>2. pending_floor(c) = floor
  BY DEF pending_floor, Parked
<1>3. cert_line_held(b, g) = held(g) /\ cert_line_held(c, h) = held(h)
  BY <1>2 DEF cert_line_held
<1> HIDE DEF floor
<1>4. reach \in Nat
  BY <1>1 DEF saturating_sub
<1>5. ASSUME NEW x \in Nat
      PROVE  /\ grace(x) \in Nat /\ grace(x) <= x
             /\ grace(x) = IF x > CertGrace THEN x - CertGrace ELSE 0
             /\ low(x) = IF x <= reach THEN x ELSE reach
  <2>1. low(x) = IF x <= reach THEN x ELSE reach
    <3> HIDE DEF reach
    <3> QED
      BY <1>4, MaxOfTwo
  <2> HIDE DEF low
  <2> QED
    BY <1>1, <2>1 DEF saturating_sub
<1> HIDE DEF reach
<1>6. ASSUME NEW x \in Nat
      PROVE  Max({low(x), grace(x)}) = IF low(x) >= grace(x) THEN low(x) ELSE grace(x)
  <2>1. low(x) \in Int /\ grace(x) \in Int
    BY <1>4, <1>5
  <2> HIDE DEF low, grace
  <2> QED
    BY <2>1, MaxOfTwo
<1> HIDE DEF low, grace
<1>7. held(g) <= held(h)
  BY <1>1, <1>4, <1>5, <1>6
<1> QED
  BY <1>3, <1>7

\* Taking a certificate never lowers the line (set_certified, AlreadyCovered):
\* it replaces a lower one, and where it moves the fork the rules that measure
\* from the tip are off.
THEOREM CertificateRaises ==
    ASSUME ~CertForkChoice \/ (~DepthFinality /\ FinalQuorum <= 1)
    PROVE  Spec => CertificateNeverLowers
<1>1. ASSUME WindowInv, NEW c \in Certifiable, SetCertified(c)
      PROVE  computed_final(braid') >= computed_final(braid)
  <2> DEFINE b == braid
             n == set_certified(braid, c)
  <2>1. c \in Block /\ Sound(b) /\ b \in BraidType
    BY <1>1, BraidAssumption DEF WindowInv, Sound
  <2>2. braid' = n
    BY <1>1 DEF SetCertified, Becomes
  <2>3. /\ n \in BraidType /\ Sound(n) /\ n.recs = b.recs /\ n.pending = b.pending
        /\ ~CertForkChoice => n.sel_tip = b.sel_tip
        /\ \/ n = b
           \/ /\ n.certified = c /\ c \in b.recs /\ View[c].height <= tip_height(b)
              /\ b.certified # NoBlock => View[c].height > View[b.certified].height
    BY <2>1, SetCertifiedIs
  <2> HIDE DEF b, n
  <2>4. /\ computed_final(b) \in Nat \union {Unknown}
        /\ computed_final(b) \in {CertLine(b), DepthLine(b), quorum_final(b)}
        /\ computed_final(n) \in Nat \union {Unknown}
        /\ computed_final(n) >= CertLine(n) /\ computed_final(n) >= DepthLine(n)
        /\ computed_final(n) >= quorum_final(n)
    BY <2>1, <2>3, LineParts
  <2>5. CASE n = b
    BY <2>2, <2>4, <2>5 DEF b, Unknown
  <2>6. CASE n # b
    <3>1. ~CertForkChoice => tip_height(n) = tip_height(b)
      BY <2>3 DEF tip_height
    <3>2. ~CertForkChoice => DepthLine(n) = DepthLine(b) /\ quorum_final(n) = quorum_final(b)
      <4> SUFFICES ASSUME ~CertForkChoice
                   PROVE  DepthLine(n) = DepthLine(b) /\ quorum_final(n) = quorum_final(b)
        OBVIOUS
      <4>1. n.sel_tip = b.sel_tip /\ tip_height(n) = tip_height(b)
        BY <2>3, <3>1
      <4>2. pending_floor(n) = pending_floor(b)
        BY <2>3 DEF pending_floor, Parked
      <4>3. PendingClamp(n) = PendingClamp(b)
        BY <4>2 DEF PendingClamp
      <4>4. depth_rule_final(n) = depth_rule_final(b)
        BY <2>3, <4>1, <4>2, <4>3, Zenon DEF depth_rule_final
      <4>5. \A v, h : AncestorAt(n, v, h) = AncestorAt(b, v, h)
        <5> DEFINE at(R, v, h) ==
                LET walk[i \in Nat] ==
                        IF i = 0 THEN v
                        ELSE LET below == walk[i - 1]
                             IN IF below \in R THEN View[below].parent ELSE NoBlock
                    up == View[v].height - h
                IN IF up >= 0 /\ walk[up] \in R THEN walk[up] ELSE NoBlock
        <5>1. \A v, h : AncestorAt(n, v, h) = at(n.recs, v, h)
          BY DEF AncestorAt
        <5>2. \A v, h : AncestorAt(b, v, h) = at(b.recs, v, h)
          BY DEF AncestorAt
        <5> HIDE DEF at
        <5> QED
          BY <2>3, <5>1, <5>2
      <4>6. \A h : spine_block_at(n, h) = spine_block_at(b, h)
        BY <4>1, <4>5 DEF spine_block_at
      <4>7. quorum_final(n) = quorum_final(b)
        BY <4>1, <4>6, Zenon DEF quorum_final
      <4> QED
        BY <4>4, <4>7 DEF DepthLine
    <3>3. CertForkChoice => DepthLine(b) = Unknown /\ quorum_final(b) = Unknown
      BY <2>1, QuorumLine DEF DepthLine
    <3>4. View[c].height \in Nat /\ View[c].height <= tip_height(n) /\ n.certified = c
          /\ c # NoBlock
      <4>1. CertForkChoice => View[n.certified].height <= tip_height(n)
        BY <2>3, <2>6, CertUnderTip
      <4> QED
        BY <2>1, <2>3, <2>6, <3>1, <4>1, BlockFacts
    <3>5. CertLine(n) = cert_line_held(n, View[c].height) /\ CertLine(n) \in Nat
      <4>1. ~(View[c].height > tip_height(n))
        BY <2>3, <3>4, TipHeightIs
      <4> QED
        BY <2>3, <3>4, <4>1, HeldLine DEF CertLine
    <3>6. CertLine(n) >= CertLine(b)
      <4>1. CASE CertLine(b) = Unknown
        BY <3>5, <4>1 DEF Unknown
      <4>2. CASE CertLine(b) # Unknown
        <5>1. b.certified # NoBlock /\ CertLine(b) = cert_line_held(b, View[b.certified].height)
          BY <4>2 DEF CertLine
        <5>2. View[b.certified].height \in Nat /\ View[b.certified].height <= View[c].height
          BY <2>1, <2>3, <2>6, <3>4, <5>1, Fields, BlockFacts
        <5>3. cert_line_held(b, View[b.certified].height) <= cert_line_held(n, View[c].height)
          BY <2>1, <2>3, <3>4, <5>2, HeldGrows
        <5>4. cert_line_held(b, View[b.certified].height) \in Nat
          BY <2>1, <5>2, HeldLine
        <5> QED
          BY <3>5, <5>1, <5>3, <5>4
      <4> QED
        BY <4>1, <4>2
    <3>7. /\ CertLine(b) \in Int /\ CertLine(n) \in Int /\ DepthLine(b) \in Int
          /\ quorum_final(b) \in Int /\ computed_final(n) \in Int /\ computed_final(n) >= Unknown
      BY <2>1, <2>3, <2>4, LineParts DEF Unknown
    <3>8. computed_final(n) >= computed_final(b)
      BY <2>4, <3>2, <3>3, <3>6, <3>7 DEF Unknown
    <3> QED
      BY <2>2, <3>8 DEF b
  <2> QED
    BY <2>5, <2>6
<1>2. WindowInv /\ [Next]_vars =>
         [\A c \in Certifiable : SetCertified(c)
              => computed_final(braid') >= computed_final(braid)]_vars
  BY <1>1
<1>3. Init => WindowInv
  BY InitIsSound
<1>4. WindowInv /\ [Next]_vars => WindowInv'
  BY WindowStep
<1> QED
  BY <1>2, <1>3, <1>4, PTL DEF Spec, CertificateNeverLowers

\* A parent that parked blocks miss, close enough under them and within the
\* grace of the certificate, is above the line whatever the certificate has run
\* ahead to (cert_line_held), so its arrival is never refused; for a braid whose
\* height 0 is trusted history and whose line is drawn by certificates alone.
THEOREM LateParentsFit ==
    ASSUME ~DepthFinality, FinalQuorum <= 1, \A v \in Block : View[v].height > 0
    PROVE  Spec => []LateParentAdmissible
<1>1. ASSUME WindowInv, NEW v \in Parked(braid), NEW p \in MissingOf(braid, v) \intersect Block,
             braid.certified # NoBlock,
             View[p].height >= View[v].height - ParentReach,
             View[p].height > View[braid.certified].height - CertGrace
      PROVE  View[p].height > computed_final(braid)
  <2> DEFINE b == braid
             h == View[b.certified].height
             floor == pending_floor(b)
             reach == saturating_sub(floor, 1 + ParentReach)
             low   == Min({h, reach})
             grace == saturating_sub(h, CertGrace)
  <2>1. b \in BraidType
    BY <1>1 DEF WindowInv, Sound
  <2>2. /\ v \in Block /\ View[v].height \in Nat /\ View[p].height \in Nat /\ View[p].height > 0
        /\ h \in Nat
    BY <1>1, <2>1, Fields, BlockFacts
  <2>3. computed_final(b) \in {CertLine(b), Unknown}
    BY <2>1, LineParts, QuorumLine DEF DepthLine
  <2>4. floor \in Nat /\ floor <= View[v].height /\ ParentReach \in Nat /\ CertGrace \in Nat
    BY <1>1, <2>1, FloorIs, ConfigFacts
  <2>5. CertLine(b) \in {Unknown, cert_line_held(b, h)}
    BY DEF CertLine
  <2>6. cert_line_held(b, h) = IF CertGrace # 0 /\ floor # Unknown /\ reach <= h
                               THEN Max({low, grace}) ELSE h
    BY DEF cert_line_held
  <2> HIDE DEF h, floor
  <2>7. reach \in Nat /\ reach < View[p].height
    BY <1>1, <2>2, <2>4 DEF saturating_sub
  <2>8. grace \in Nat /\ grace < View[p].height
    BY <1>1, <2>2, <2>4 DEF saturating_sub, h, b
  <2> HIDE DEF reach, grace
  <2>9. low = (IF h <= reach THEN h ELSE reach) /\ low \in Int
    <3>1. h \in Int /\ reach \in Int
      BY <2>2, <2>7
    <3>2. Min({h, reach}) = IF h <= reach THEN h ELSE reach
      BY <3>1, MaxOfTwo
    <3> QED
      BY <3>1, <3>2
  <2>10. low < View[p].height
    BY <2>2, <2>7, <2>9
  <2> HIDE DEF low
  <2>11. Max({low, grace}) = IF low >= grace THEN low ELSE grace
    BY <2>8, <2>9, MaxOfTwo
  <2>12. floor # Unknown
    BY <2>4 DEF Unknown
  <2>13. CertGrace = 0 => h < View[p].height
    BY <1>1, <2>2, <2>4 DEF h, b
  <2>14. cert_line_held(b, h) < View[p].height
    BY <2>2, <2>4, <2>6, <2>7, <2>8, <2>9, <2>10, <2>11, <2>12, <2>13
  <2>15. cert_line_held(b, h) \in Nat
    BY <2>1, <2>2, HeldLine
  <2> QED
    BY <2>2, <2>3, <2>5, <2>14, <2>15 DEF Unknown, b
<1>2. WindowInv => LateParentAdmissible
  BY <1>1 DEF LateParentAdmissible
<1>3. Init => WindowInv
  BY InitIsSound
<1>4. WindowInv /\ [Next]_vars => WindowInv'
  BY WindowStep
<1> QED
  BY <1>2, <1>3, <1>4, PTL DEF Spec

-----------------------------------------------------------------------------
(* The frozen order.                                                        *)

\* The blocks of S a walk that has given out D may give out next.
Ready(S, D) == {v \in S \ D : Parents(v) \intersect S \subseteq D}
Given(s, k) == {s[j] : j \in 1 .. k - 1}

\* s is how a Kahn walk over S begins: always the least key that is ready.
KahnRun(s, S) ==
    \A k \in 1 .. Len(s) :
        /\ s[k] \in Ready(S, Given(s, k))
        /\ \A w \in Ready(S, Given(s, k)) : Precedes(s[k], w)

\* The least key of a set is the only one that precedes all of it.
LEMMA OneFirst ==
    ASSUME NEW S \in SUBSET Block, NEW v \in S, \A w \in S : Precedes(v, w)
    PROVE  FirstKey(S) = v
<1>1. FirstKey(S) \in S /\ Precedes(v, FirstKey(S)) /\ Precedes(FirstKey(S), v)
  BY FirstKeyIs
<1>2. \A x \in Block, y \in Block : Precedes(x, y) /\ Precedes(y, x) => x = y
  BY BlockFacts DEF Precedes
<1> QED
  BY <1>1, <1>2

LEMMA GivenIs ==
    ASSUME NEW s \in Seq(Block), NEW i \in 0 .. Len(s)
    PROVE  ToSet(SubSeq(s, 1, i)) = Given(s, i + 1)
<1> DEFINE p == SubSeq(s, 1, i)
<1>1. i \in Nat /\ Len(s) \in Nat /\ i <= Len(s)
  OBVIOUS
<1>2. Len(p) = i /\ p \in Seq(Block) /\ \A j \in 1 .. i : p[j] = s[j]
  BY <1>1
<1>3. DOMAIN p = 1 .. i
  BY <1>2
<1> HIDE DEF p
<1>4. ToSet(p) = {s[j] : j \in 1 .. i}
  BY <1>2, <1>3 DEF ToSet
<1>5. (i + 1) - 1 = i
  BY <1>1
<1> QED
  BY <1>4, <1>5 DEF Given, p

\* A run gives no block twice, so it is no longer than the set it walks.
LEMMA RunFits ==
    ASSUME NEW S \in SUBSET Block, NEW s \in Seq(Block), KahnRun(s, S)
    PROVE  Len(s) <= Cardinality(S) /\ Cardinality(S) \in Nat
<1>1. Len(s) \in Nat /\ \A k \in 1 .. Len(s) : s[k] \in S /\ s[k] \notin Given(s, k)
  BY DEF KahnRun, Ready
<1>2. s \in [1 .. Len(s) -> S]
  BY <1>1
<1>3. ASSUME NEW i \in 1 .. Len(s), NEW k \in 1 .. Len(s), s[i] = s[k], i < k PROVE FALSE
  <2>1. i \in 1 .. k - 1
    BY <1>3
  <2>2. s[i] \in Given(s, k)
    BY <2>1 DEF Given
  <2> QED
    BY <1>1, <1>3, <2>2
<1>4. \A i \in 1 .. Len(s), k \in 1 .. Len(s) : s[i] = s[k] => i = k
  <2> SUFFICES ASSUME NEW i \in 1 .. Len(s), NEW k \in 1 .. Len(s), s[i] = s[k], i # k
               PROVE  FALSE
    OBVIOUS
  <2>1. i < k \/ k < i
    OBVIOUS
  <2> QED
    BY <1>3, <2>1
<1>5. s \in Injection(1 .. Len(s), S)
  <2>1. DOMAIN s = 1 .. Len(s)
    OBVIOUS
  <2> QED
    BY <1>2, <1>4, <2>1 DEF Injection, IsInjective
<1>6. IsFiniteSet(S)
  BY BlockFacts, FS_Subset
<1>7. Cardinality(1 .. Len(s)) <= Cardinality(S) /\ Cardinality(S) \in Nat
  BY <1>5, <1>6, FS_Injection, FS_CardinalityType
<1>8. Cardinality(1 .. Len(s)) = Len(s)
  BY <1>1, FS_Interval
<1> QED
  BY <1>7, <1>8

\* A run is a prefix of the whole walk.
LEMMA RunIsPrefix ==
    ASSUME NEW S \in SUBSET Block, NEW s \in Seq(Block), KahnRun(s, S)
    PROVE  IsPrefix(s, BatchOrder(S))
<1> DEFINE n == Cardinality(S)
           T == Seq(Block)
           ready(p) == {v \in S \ ToSet(p) : Parents(v) \intersect S \subseteq ToSet(p)}
           next(p)  == IF ready(p) = {} THEN p ELSE Append(p, FirstKey(ready(p)))
           Eq(r) == r = [i \in 0 .. n |-> IF i = 0 THEN <<>> ELSE next(r[i - 1])]
           F     == CHOOSE r : Eq(r)
           G     == [p \in T |-> next(p)]
<1>1. BatchOrder(S) = F[n]
  BY DEF BatchOrder
<1>2. n \in Nat /\ Len(s) \in Nat /\ Len(s) <= n
  BY RunFits
<1>3. \A p \in T : next(p) \in T
  <2> TAKE p \in T
  <2>1. ready(p) # {} => FirstKey(ready(p)) \in Block
    <3>1. ready(p) \in SUBSET Block
      OBVIOUS
    <3> HIDE DEF ready
    <3> QED
      BY <3>1, FirstKeyIs
  <2> HIDE DEF ready
  <2> QED
    BY <2>1
<1>4. \A p : ready(p) = Ready(S, ToSet(p))
  BY DEF Ready
<1> HIDE DEF n
<1>5. Eq(F)
  <2>1. G \in [T -> T] /\ <<>> \in T
    BY <1>3
  <2>2. PICK r : Iteration(T, G, <<>>, n, r)
    <3> HIDE DEF G, T
    <3> QED
      BY <1>2, <2>1, Iterated, Zenon
  <2>3. Eq(r)
    <3>1. ASSUME NEW i \in 0 .. n PROVE r[i] = IF i = 0 THEN <<>> ELSE next(r[i - 1])
      <4> HIDE DEF next
      <4>1. CASE i = 0
        BY <2>2, <4>1 DEF Iteration
      <4>2. CASE i # 0
        <5>1. i \in 1 .. n
          BY <1>2, <4>2
        <5> QED
          BY <2>2, <4>2, <5>1 DEF Iteration
      <4> QED
        BY <4>1, <4>2
    <3>2. r = [i \in 0 .. n |-> r[i]]
      BY <2>2 DEF Iteration
    <3> HIDE DEF next
    <3> QED
      BY <3>1, <3>2
  <2> HIDE DEF Eq
  <2> QED
    BY <2>3
<1> HIDE DEF F
<1>6. F[0] = <<>> /\ \A i \in 1 .. n : F[i] = next(F[i - 1])
  <2>1. 0 \in 0 .. n /\ \A i \in 1 .. n : i \in 0 .. n /\ i # 0
    BY <1>2
  <2> HIDE DEF next
  <2> QED
    BY <1>5, <2>1
<1> HIDE DEF Eq, G, next
<1>7. \A k \in 0 .. Len(s) - 1 : next(SubSeq(s, 1, k)) = SubSeq(s, 1, k + 1)
  <2> TAKE k \in 0 .. Len(s) - 1
  <2> DEFINE p == SubSeq(s, 1, k)
  <2>1. k + 1 \in 1 .. Len(s) /\ k \in 0 .. Len(s) /\ (k + 1) \in Nat
    BY <1>2
  <2>2. ready(p) = Ready(S, Given(s, k + 1))
    BY <1>4, <2>1, GivenIs
  <2>3. s[k + 1] \in ready(p) /\ \A w \in ready(p) : Precedes(s[k + 1], w)
    BY <2>1, <2>2 DEF KahnRun
  <2>4. ready(p) \in SUBSET Block
    OBVIOUS
  <2> HIDE DEF ready
  <2>5. FirstKey(ready(p)) = s[k + 1]
    BY <2>3, <2>4, OneFirst
  <2>6. next(p) = Append(p, s[k + 1])
    BY <2>3, <2>5 DEF next
  <2>7. Append(SubSeq(s, 1, k), s[k + 1]) = SubSeq(s, 1, k + 1)
    BY <2>1
  <2> QED
    BY <2>6, <2>7
<1>8. ASSUME NEW p \in T, IsPrefix(s, p) PROVE next(p) \in T /\ IsPrefix(s, next(p))
  <2>1. CASE ready(p) = {}
    BY <1>8, <2>1 DEF next
  <2>2. CASE ready(p) # {}
    <3>1. ready(p) \in SUBSET Block
      OBVIOUS
    <3>2. FirstKey(ready(p)) \in Block /\ next(p) = Append(p, FirstKey(ready(p)))
      <4> HIDE DEF ready
      <4> QED
        BY <2>2, <3>1, FirstKeyIs DEF next
    <3>3. Len(s) <= Len(p) /\ SubSeq(s, 1, Len(s)) = SubSeq(p, 1, Len(s))
      BY <1>8 DEF IsPrefix
    <3> HIDE DEF ready
    <3>4. \A x \in Block : /\ Append(p, x) \in T /\ Len(Append(p, x)) = Len(p) + 1
                           /\ SubSeq(Append(p, x), 1, Len(s)) = SubSeq(p, 1, Len(s))
      <4> TAKE x \in Block
      <4>1. Len(Append(p, x)) = Len(p) + 1 /\ Append(p, x) \in T
        OBVIOUS
      <4>2. \A j \in 1 .. Len(s) : Append(p, x)[j] = p[j]
        BY <1>2, <3>3
      <4> QED
        BY <1>2, <3>3, <4>1, <4>2
    <3>5. Len(p) \in Nat
      BY <1>8
    <3> QED
      BY <1>2, <3>2, <3>3, <3>4, <3>5 DEF IsPrefix
  <2> QED
    BY <2>1, <2>2
<1> DEFINE Good(i, p) == /\ p \in T
                         /\ i < Len(s) => p = SubSeq(s, 1, i)
                         /\ i >= Len(s) => IsPrefix(s, p)
           P == {t \in (0 .. n) \X T : Good(t[1], t[2])}
           g == [i \in 0 .. n |-> <<i, F[i]>>]
<1>9. SubSeq(s, 1, Len(s)) = s /\ IsPrefix(s, s) /\ SubSeq(s, 1, 0) = <<>>
  BY <1>2 DEF IsPrefix
<1>10. g[0] \in P
  <2>1. 0 \in 0 .. n /\ <<>> \in T
    BY <1>2
  <2>2. Len(s) = 0 => s = <<>>
    OBVIOUS
  <2>3. Good(0, <<>>)
    BY <1>2, <1>9, <2>1, <2>2
  <2> HIDE DEF Good
  <2> QED
    BY <1>6, <2>1, <2>3
<1>11. ASSUME NEW i \in 1 .. n, g[i - 1] \in P PROVE g[i] \in P
  <2>1. i \in 0 .. n /\ i - 1 \in 0 .. n /\ i - 1 \in Nat
    BY <1>2
  <2>2. Good(i - 1, F[i - 1]) /\ F[i - 1] \in T
    <3> HIDE DEF Good
    <3> QED
      BY <1>11, <2>1
  <2>3. F[i] = next(F[i - 1])
    BY <1>6
  <2>4. Good(i, F[i])
    <3>1. CASE i - 1 < Len(s)
      <4>1. i - 1 \in 0 .. Len(s) - 1 /\ F[i - 1] = SubSeq(s, 1, i - 1) /\ (i - 1) + 1 = i
        BY <1>2, <2>1, <2>2, <3>1
      <4>2. F[i] = SubSeq(s, 1, i)
        BY <1>7, <2>3, <4>1
      <4>3. i >= Len(s) => i = Len(s)
        BY <1>2, <3>1
      <4>4. SubSeq(s, 1, i) \in T
        BY <2>1, <1>2, <4>1
      <4> QED
        BY <1>9, <4>2, <4>3, <4>4
    <3>2. CASE ~(i - 1 < Len(s))
      <4>1. i - 1 >= Len(s) /\ ~(i < Len(s))
        BY <1>2, <2>1, <3>2
      <4> QED
        BY <1>8, <2>2, <2>3, <4>1
    <3> QED
      BY <3>1, <3>2
  <2>5. F[i] \in T
    BY <2>4
  <2> HIDE DEF Good
  <2> QED
    BY <2>1, <2>4, <2>5
<1>12. g[n] \in P
  <2> HIDE DEF g, P
  <2> QED
    BY <1>2, <1>10, <1>11, LastOf
<1>13. Good(n, F[n])
  <2>1. n \in 0 .. n
    BY <1>2
  <2> HIDE DEF Good
  <2> QED
    BY <1>12, <2>1
<1> QED
  BY <1>1, <1>2, <1>13

\* A block ordered one step before the end of a longer run.
LEMMA RunGoesOn ==
    ASSUME NEW S \in SUBSET Block, NEW s \in Seq(Block), KahnRun(s, S),
           NEW v \in Ready(S, ToSet(s)), \A w \in Ready(S, ToSet(s)) : Precedes(v, w)
    PROVE  KahnRun(Append(s, v), S)
<1> DEFINE t == Append(s, v)
<1>1. /\ Len(s) \in Nat /\ v \in Block
      /\ Len(t) = Len(s) + 1 /\ t[Len(s) + 1] = v
      /\ \A j \in 1 .. Len(s) : t[j] = s[j]
  BY DEF Ready
<1> HIDE DEF t
<1>2. \A k \in 1 .. Len(t) : Given(t, k) = Given(s, k)
  <2> TAKE k \in 1 .. Len(t)
  <2>1. \A j \in 1 .. k - 1 : t[j] = s[j]
    BY <1>1
  <2> QED
    BY <2>1 DEF Given
<1>3. Given(s, Len(s) + 1) = ToSet(s)
  BY <1>1 DEF Given, ToSet
<1>4. ASSUME NEW k \in 1 .. Len(t)
      PROVE  /\ t[k] \in Ready(S, Given(t, k))
             /\ \A w \in Ready(S, Given(t, k)) : Precedes(t[k], w)
  <2>1. CASE k \in 1 .. Len(s)
    BY <1>1, <1>2, <2>1 DEF KahnRun
  <2>2. CASE k = Len(s) + 1
    BY <1>1, <1>2, <1>3, <2>2
  <2> QED
    BY <1>1, <2>1, <2>2
<1>5. KahnRun(t, S)
  BY <1>4 DEF KahnRun
<1> QED
  BY <1>5 DEF t

\* A new block that comes after the whole run and that nothing in it waits for
\* leaves it a run.
LEMMA RunOutlives ==
    ASSUME NEW S \in SUBSET Block, NEW s \in Seq(Block), KahnRun(s, S),
           NEW x \in Block, \A v \in ToSet(s) : x \notin Parents(v) /\ Precedes(v, x)
    PROVE  KahnRun(s, S \union {x})
<1> DEFINE R == S \union {x}
<1> SUFFICES ASSUME NEW k \in 1 .. Len(s)
             PROVE  /\ s[k] \in Ready(R, Given(s, k))
                    /\ \A w \in Ready(R, Given(s, k)) : Precedes(s[k], w)
  BY DEF KahnRun
<1>1. /\ s[k] \in Ready(S, Given(s, k)) /\ s[k] \in ToSet(s)
      /\ \A w \in Ready(S, Given(s, k)) : Precedes(s[k], w)
  <2>1. k \in DOMAIN s
    OBVIOUS
  <2> QED
    BY <2>1 DEF KahnRun, ToSet
<1>2. x \notin Parents(s[k]) /\ Precedes(s[k], x)
  BY <1>1
<1>3. s[k] \in Ready(R, Given(s, k))
  BY <1>1, <1>2 DEF Ready
<1>4. \A w \in Ready(R, Given(s, k)) : w # x => w \in Ready(S, Given(s, k))
  BY DEF Ready
<1> QED
  BY <1>1, <1>2, <1>3, <1>4

\* Every parent is below its child.
LowParents == \A v \in Block : \A p \in Parents(v) \intersect Block :
                 View[p].height < View[v].height
\* The braid takes no block on a peer's word: all it knows went through insert.
OwnWindow == CaughtUp = {} /\ DOMAIN Trusted \intersect Block = {}

\* Blocks the certificate has put under the line: they may be anchored, and can
\* no longer enter the window.
Late(b) == {p \in Block : /\ CertForkChoice /\ b.certified # NoBlock
                          /\ View[p].height <= View[b.certified].height}

\* In a window of its own every known parent was admitted or came too late, and
\* the edges between blocks not yet emitted are all there.
Linked(b, A) ==
    /\ \A h \in Block : b.emitted_at[h] # Unknown => h \in A \union Late(b)
    /\ \A v \in A : Parents(v) \intersect Block \subseteq A \union Late(b)
    /\ \A p \in b.recs \ b.emitted, v \in b.recs \ b.emitted :
          p \in Parents(v) => <<p, v>> \in b.children

\* What has been frozen of the admitted blocks A: a run of the Kahn walk over all
\* of them, at or below the line l, the rest still resident and not emitted.
Ordered(b, A, l) ==
    /\ b.recs \subseteq A /\ A \subseteq Block
    /\ ToSet(b.frozen) \subseteq A /\ A \ ToSet(b.frozen) = b.recs \ b.emitted
    /\ \A v \in ToSet(b.frozen) : View[v].height <= l
    /\ \A v \in Block, p \in Block : <<p, v>> \in b.children => p \in Parents(v)
    /\ KahnRun(b.frozen, A)
    /\ OwnWindow => Linked(b, A)

\* The order does not change with the pool, the tip, a later certificate or what
\* is learnt of blocks that come too late.
LEMMA SameOrder ==
    ASSUME NEW b, NEW c, NEW A, NEW l, Ordered(b, A, l),
           c.recs = b.recs, c.emitted = b.emitted, c.children = b.children,
           c.frozen = b.frozen, Late(b) \subseteq Late(c),
           OwnWindow => \A h \in Block : c.emitted_at[h] # Unknown =>
                           b.emitted_at[h] # Unknown \/ h \in Late(c)
    PROVE  Ordered(c, A, l)
<1>1. OwnWindow => Linked(c, A)
  BY DEF Ordered, Linked
<1> QED
  BY <1>1 DEF Ordered

LEMMA SameWindowOrder ==
    ASSUME NEW b, NEW c, SameWindow(b, c), NEW A, NEW l, Ordered(b, A, l)
    PROVE  Ordered(c, A, l) /\ Late(c) = Late(b)
<1>1. Late(c) = Late(b)
  BY DEF SameWindow, Late
<1> QED
  BY <1>1, SameOrder DEF SameWindow

\* A block above the line that is admitted keeps the order: nothing frozen waits
\* for it.
LEMMA AdmittedOrder ==
    ASSUME NEW b \in BraidType, NEW a, NEW x \in Block, NEW A, NEW l \in Nat \union {Unknown},
           Ordered(b, A, l), b.emitted \subseteq b.recs,
           LowParents \/ OwnWindow,
           View[x].height > l, x \notin Late(b), MissingOf(b, x) = {},
           a.recs = b.recs \union {x}, a.emitted = b.emitted, a.frozen = b.frozen,
           a.emitted_at = b.emitted_at, a.certified = b.certified,
           a.children = b.children \union ((Parents(x) \intersect b.recs) \X {x})
    PROVE  Ordered(a, A \union {x}, l)
<1>1. /\ b.frozen \in Seq(Block) /\ b.recs \in SUBSET Block
      /\ l \in Int /\ \A v \in Block : View[v].height \in Nat
  BY Fields, BlockFacts DEF Unknown
<1>2. /\ b.recs \subseteq A /\ A \in SUBSET Block
      /\ ToSet(b.frozen) \subseteq A /\ A \ ToSet(b.frozen) = b.recs \ b.emitted
      /\ \A v \in ToSet(b.frozen) : View[v].height <= l
      /\ \A v \in Block, p \in Block : <<p, v>> \in b.children => p \in Parents(v)
      /\ KahnRun(b.frozen, A)
      /\ OwnWindow => Linked(b, A)
  BY DEF Ordered
<1>3. x \notin ToSet(b.frozen)
  BY <1>1, <1>2
<1>4. x \in A => x \in b.recs
  BY <1>2, <1>3
<1>5. Late(a) = Late(b)
  BY DEF Late
<1>6. KahnRun(a.frozen, A \union {x})
  <2>1. CASE x \in A
    <3>1. A \union {x} = A
      BY <2>1
    <3> QED
      BY <1>2, <3>1
  <2>2. CASE x \notin A
    <3>1. ASSUME NEW v \in ToSet(b.frozen) PROVE x \notin Parents(v) /\ Precedes(v, x)
      <4>1. v \in A /\ v \in Block /\ View[v].height < View[x].height
        BY <1>1, <1>2
      <4>2. LowParents => x \notin Parents(v)
        BY <1>1, <4>1 DEF LowParents
      <4>3. OwnWindow => x \notin Parents(v)
        BY <1>2, <2>2, <4>1 DEF Linked
      <4>4. Precedes(v, x)
        BY <4>1 DEF Precedes
      <4> QED
        BY <4>2, <4>3, <4>4
    <3> QED
      BY <1>1, <1>2, <3>1, RunOutlives
  <2> QED
    BY <2>1, <2>2
<1>7. (A \union {x}) \ ToSet(a.frozen) = a.recs \ a.emitted
  BY <1>2, <1>3, <1>4
<1>8. \A v \in Block, p \in Block : <<p, v>> \in a.children => p \in Parents(v)
  BY <1>2
<1>9. ASSUME OwnWindow PROVE Linked(a, A \union {x})
  <2>1. Linked(b, A)
    BY <1>2, <1>9
  <2>2. \A p \in Parents(x) \intersect Block : p \in b.recs \/ p \in A \union Late(b)
    <3> TAKE p \in Parents(x) \intersect Block
    <3>1. known_height(b, p) # Unknown
      BY DEF MissingOf
    <3>2. p \notin b.recs => b.emitted_at[p] # Unknown
      BY <3>1 DEF known_height
    <3> QED
      BY <2>1, <3>2 DEF Linked
  <2>3. \A v \in A \union {x} : Parents(v) \intersect Block \subseteq (A \union {x}) \union Late(a)
    BY <1>2, <1>5, <2>1, <2>2 DEF Linked
  <2>4. ASSUME NEW p \in a.recs \ a.emitted, NEW v \in a.recs \ a.emitted, p \in Parents(v)
        PROVE  <<p, v>> \in a.children
    <3>1. v = x => p \in b.recs
      BY <1>2, <1>3, <1>4, <2>2, <2>4
    <3>2. CASE v = x
      BY <2>4, <3>1, <3>2
    <3>3. CASE v # x
      <4>1. v \in b.recs \ b.emitted /\ v \in A
        BY <1>2, <2>4, <3>3
      <4>2. p \in b.recs \ b.emitted
        BY <1>1, <1>2, <1>4, <2>1, <2>4, <4>1 DEF Linked
      <4> QED
        BY <2>1, <2>4, <4>1, <4>2 DEF Linked
    <3> QED
      BY <3>2, <3>3
  <2>5. \A h \in Block : a.emitted_at[h] # Unknown => h \in (A \union {x}) \union Late(a)
    BY <1>5, <2>1 DEF Linked
  <2> QED
    BY <2>3, <2>4, <2>5 DEF Linked
<1> QED
  BY <1>2, <1>6, <1>7, <1>8, <1>9 DEF Ordered

\* The least key of the frontier is the least key a Kahn walk over all admitted
\* blocks would take next.
LEMMA EmittedOrder ==
    ASSUME NEW b \in BraidType, NEW A, NEW l \in Nat, Ordered(b, A, l),
           LowParents \/ OwnWindow, b.emitted \subseteq b.recs,
           frontier(b) # {}, ~(View[FirstKey(frontier(b))].height > l)
    PROVE  LET e == emit(b, FirstKey(frontier(b)))
           IN e \in BraidType /\ Ordered(e, A, l) /\ e.emitted \subseteq e.recs
<1> DEFINE U == b.recs \ b.emitted
           v == FirstKey(frontier(b))
           e == emit(b, v)
<1>1. /\ b.frozen \in Seq(Block) /\ U \in SUBSET Block
      /\ \A w \in Block : View[w].height \in Nat
  BY Fields, BlockFacts
<1>2. /\ b.recs \subseteq A /\ A \in SUBSET Block
      /\ ToSet(b.frozen) \subseteq A /\ A \ ToSet(b.frozen) = U
      /\ \A w \in ToSet(b.frozen) : View[w].height <= l
      /\ \A w \in Block, p \in Block : <<p, w>> \in b.children => p \in Parents(w)
      /\ KahnRun(b.frozen, A)
      /\ OwnWindow => Linked(b, A)
  BY DEF Ordered
<1>3. frontier(b) = {w \in U : \A p \in U : <<p, w>> \notin b.children}
  BY DEF frontier
<1>4. Ready(A, ToSet(b.frozen)) = {w \in U : Parents(w) \intersect U = {}}
  BY <1>2 DEF Ready
<1>5. /\ v \in frontier(b) /\ v \in U /\ v \in Block
      /\ \A w \in frontier(b) : Precedes(v, w)
  BY <1>1, <1>3, FirstKeyIs
<1> HIDE DEF v
<1>6. Ready(A, ToSet(b.frozen)) \subseteq frontier(b)
  BY <1>1, <1>2, <1>3, <1>4
<1>7. v \in Ready(A, ToSet(b.frozen))
  <2>1. CASE OwnWindow
    <3>1. \A p \in U : p \in Parents(v) => <<p, v>> \in b.children
      BY <1>2, <1>5, <2>1 DEF Linked
    <3> QED
      BY <1>3, <1>4, <1>5, <3>1
  <2>2. CASE LowParents
    <3> DEFINE u == FirstKey(U)
    <3>1. u \in U /\ \A w \in U : Precedes(u, w)
      <4> HIDE DEF U
      <4> QED
        BY <1>1, <1>5, FirstKeyIs
    <3> HIDE DEF u
    <3>2. ASSUME NEW p \in U, p \in Parents(u) PROVE FALSE
      <4>1. p \in Block /\ u \in Block /\ View[p].height < View[u].height
        BY <1>1, <2>2, <3>1, <3>2 DEF LowParents
      <4>2. Precedes(u, p)
        BY <3>1
      <4> QED
        BY <1>1, <4>1, <4>2 DEF Precedes
    <3>3. u \in Ready(A, ToSet(b.frozen)) /\ Precedes(v, u) /\ Precedes(u, v)
      BY <1>4, <1>5, <1>6, <3>1, <3>2
    <3>4. u = v
      BY <1>1, <1>5, <3>1, <3>3, BlockFacts DEF Precedes
    <3> QED
      BY <3>3, <3>4
  <2> QED
    BY <2>1, <2>2
<1>8. \A w \in Ready(A, ToSet(b.frozen)) : Precedes(v, w)
  BY <1>5, <1>6
<1>9. /\ e \in BraidType
      /\ e.recs = b.recs /\ e.children = b.children /\ e.certified = b.certified
      /\ e.emitted = b.emitted \union {v} /\ e.frozen = Append(b.frozen, v)
      /\ \A h \in Hash : h # v => e.emitted_at[h] = b.emitted_at[h]
  BY <1>5, EmitIs
<1> HIDE DEF e
<1>10. KahnRun(e.frozen, A)
  BY <1>1, <1>2, <1>7, <1>8, <1>9, RunGoesOn
<1>11. ToSet(e.frozen) = ToSet(b.frozen) \union {v}
  BY <1>1, <1>5, <1>9, AppendIs
<1>12. View[v].height <= l
  BY <1>1, <1>5 DEF v
<1>13. OwnWindow => Linked(e, A)
  <2>1. Late(e) = Late(b)
    BY <1>9 DEF Late
  <2>2. \A h \in Block : h # v => e.emitted_at[h] = b.emitted_at[h]
    BY <1>9, BlockFacts
  <2>3. v \in A
    BY <1>2, <1>5
  <2> QED
    BY <1>2, <1>9, <2>1, <2>2, <2>3 DEF Linked
<1>14. A \ ToSet(e.frozen) = e.recs \ e.emitted
  BY <1>2, <1>9, <1>11
<1>15. Ordered(e, A, l)
  BY <1>2, <1>5, <1>9, <1>10, <1>11, <1>12, <1>13, <1>14 DEF Ordered
<1> QED
  BY <1>5, <1>9, <1>15 DEF e, v

\* Nothing that came too late is above the line.
LEMMA LateUnderLine ==
    ASSUME NEW b \in BraidType, CertGrace = 0, NEW v \in Block,
           b.certified # NoBlock => View[b.certified].height <= tip_height(b)
    PROVE  /\ v \in Late(b) => View[v].height <= computed_final(b)
           /\ /\ CertForkChoice /\ ~DepthFinality /\ FinalQuorum <= 1
              /\ View[v].height <= computed_final(b)
              => v \in Late(b)
<1>1. /\ computed_final(b) \in Nat \union {Unknown} /\ View[v].height \in Nat
      /\ computed_final(b) >= CertLine(b) /\ tip_height(b) \in Int
      /\ computed_final(b) \in {CertLine(b), DepthLine(b), quorum_final(b)}
  BY LineParts, BlockFacts, TipHeightIs
<1>2. b.certified # NoBlock => /\ View[b.certified].height \in Nat
                               /\ CertLine(b) = View[b.certified].height
  <2>1. b.certified # NoBlock => View[b.certified].height \in Nat
    BY Fields, BlockFacts
  <2> QED
    BY <1>1, <2>1, HeldLine DEF CertLine
<1>3. b.certified = NoBlock => CertLine(b) = Unknown
  BY DEF CertLine
<1>4. ~DepthFinality /\ FinalQuorum <= 1 => DepthLine(b) = Unknown /\ quorum_final(b) = Unknown
  BY QuorumLine DEF DepthLine
<1> QED
  BY <1>1, <1>2, <1>3, <1>4 DEF Late, Unknown

\* A braid whose order is in place, with nothing parked that could disturb it.
Orderly(b, A, l) ==
    /\ Sound(b)
    /\ Ordered(b, A \union b.recs, l)
    /\ \A v \in Parked(b) : View[v].height > l
    /\ CertForkChoice /\ b.certified # NoBlock => b.certified \in b.recs

LEMMA OrderlyOn ==
    ASSUME NEW b, NEW A, NEW l, Orderly(b, A, l), NEW c \in BraidType, SameWindow(b, c),
           \A v \in Parked(c) : View[v].height > l
    PROVE  Orderly(c, A, l)
<1>1. Sound(c)
  BY SameWindowKeeps DEF Orderly
<1>2. Ordered(c, A \union c.recs, l)
  <2>1. c.recs = b.recs /\ Ordered(b, A \union b.recs, l)
    BY DEF Orderly, SameWindow
  <2> QED
    BY <2>1, SameWindowOrder
<1> QED
  BY <1>1, <1>2 DEF Orderly, SameWindow

\* One turn of the cascade, when the line does not reach beyond the certificate.
LEMMA TurnOrder ==
    ASSUME NEW A, NEW l \in Nat \union {Unknown}, LowParents \/ OwnWindow, CertGrace = 0,
           NEW s \in Cascades, s \notin Ended, Orderly(s.braid, A, l)
    PROVE  Orderly(NextTurn[s].braid, A, l)
<1> DEFINE b     == s.braid
           child == Head(s.work)
           taken == unpark_take(b, child)
           n     == NextTurn[s]
<1>1. b \in BraidType /\ child \in Block /\ Turned(s, n)
  BY TurnIs
<1>2. /\ taken \in BraidType /\ SameWindow(b, taken)
      /\ Parked(taken) = Parked(b) \ {child}
  BY <1>1, UnparkIs
<1>3. Orderly(b, A, l)
  OBVIOUS
<1>4. CASE n.braid = b
  BY <1>3, <1>4
<1>5. Orderly(taken, A, l)
  <2>1. \A v \in Parked(taken) : View[v].height > l
    BY <1>2, <1>3 DEF Orderly
  <2> HIDE DEF b, taken
  <2> QED
    BY <1>2, <1>3, <2>1, OrderlyOn
<1>6. CASE child \in Parked(b) /\ Woken(s, n)
  <2> DEFINE a == n.braid
  <2>1. /\ n \in Cascades /\ (Sound(b) => Sound(a))
        /\ a.recs = b.recs \union {child} /\ a.emitted = b.emitted
        /\ a.emitted_at = b.emitted_at /\ a.certified = b.certified
        /\ a.frozen = b.frozen
        /\ a.children = b.children \union ((Parents(child) \intersect b.recs) \X {child})
        /\ Parked(a) = Parked(b) \ {child}
    BY <1>6, WokenIs
  <2>2. MissingOf(taken, child) = {} /\ ~(View[child].height <= computed_final(taken))
    BY <1>6, ConfigFacts DEF Woken
  <2> HIDE DEF a, taken, child, b, n
  <2>3. MissingOf(b, child) = {}
    BY <1>2, <2>2, SameWindowKeeps
  <2>4. CertForkChoice /\ taken.certified # NoBlock =>
           View[taken.certified].height <= tip_height(taken)
    BY <1>5, CertUnderTip DEF Orderly
  <2>5. child \notin Late(b)
    <3>1. child \notin Late(taken)
      <4>1. CASE CertForkChoice
        BY <1>1, <1>2, <2>2, <2>4, <4>1, LateUnderLine
      <4>2. CASE ~CertForkChoice
        BY <4>2 DEF Late
      <4> QED
        BY <4>1, <4>2
    <3>2. Late(taken) = Late(b)
      BY <1>2 DEF SameWindow, Late
    <3> QED
      BY <3>1, <3>2
  <2>6. View[child].height > l /\ Ordered(b, A \union b.recs, l) /\ b.emitted \subseteq b.recs
    BY <1>3, <1>6 DEF Orderly, Sound
  <2>7. Ordered(a, (A \union b.recs) \union {child}, l)
    BY <1>1, <2>1, <2>3, <2>5, <2>6, AdmittedOrder
  <2>8. (A \union b.recs) \union {child} = A \union a.recs
    BY <2>1
  <2>9. Orderly(a, A, l)
    BY <1>3, <2>1, <2>7, <2>8 DEF Orderly
  <2> QED
    BY <2>9 DEF a, n
<1>7. CASE child \in Parked(b) /\ n.braid = ParkOn(taken, child, MissingOf(taken, child))
  <2> DEFINE d == ParkOn(taken, child, MissingOf(taken, child))
  <2>1. /\ d \in BraidType /\ SameWindow(taken, d)
        /\ Parked(d) = Parked(taken) \union {child}
    BY <1>1, <1>2, ParkOnIs
  <2>2. \A v \in Parked(d) : View[v].height > l
    BY <1>2, <1>3, <1>7, <2>1 DEF Orderly
  <2> HIDE DEF d, taken
  <2>3. Orderly(d, A, l)
    BY <1>5, <2>1, <2>2, OrderlyOn
  <2> QED
    BY <1>7, <2>3 DEF d
<1>8. \/ n.braid = b \/ n.braid = taken
      \/ child \in Parked(b) /\ Woken(s, n)
      \/ child \in Parked(b) /\ n.braid = ParkOn(taken, child, MissingOf(taken, child))
  BY <1>1 DEF Turned
<1> QED
  BY <1>4, <1>5, <1>6, <1>7, <1>8

LEMMA CascadeOrder ==
    ASSUME NEW A, NEW l \in Nat \union {Unknown}, LowParents \/ OwnWindow, CertGrace = 0,
           NEW b, NEW v \in Block, Orderly(b, A, l)
    PROVE  Orderly(cascade_unpark(b, v), A, l)
<1> DEFINE b0    == [b EXCEPT !.waiters[v] = <<>>]
           P     == {s \in Cascades : Orderly(s.braid, A, l)}
           Q     == {c \in BraidType : Orderly(c, A, l)}
           start == [braid |-> b0, work |-> b.waiters[v]]
<1>1. b \in BraidType
  BY DEF Orderly, Sound
<1>2. b0 \in BraidType /\ SameWindow(b, b0) /\ b0.pending = b.pending
  <2>1. v \in Hash /\ <<>> \in Seq(Block)
    BY BlockFacts
  <2> QED
    BY <1>1, <2>1 DEF BraidType, SameWindow
<1>3. Orderly(b0, A, l)
  <2>1. \A w \in Parked(b0) : View[w].height > l
    BY <1>2 DEF Orderly, Parked
  <2> HIDE DEF b0
  <2> QED
    BY <1>2, <2>1, OrderlyOn
<1>4. start \in P
  <2>1. b.waiters[v] \in Seq(Block)
    BY <1>1, Fields, BlockFacts
  <2> HIDE DEF b0
  <2> QED
    BY <1>2, <1>3, <2>1 DEF Cascades
<1>5. ASSUME NEW s \in P, s \notin Ended PROVE NextTurn[s] \in P
  <2>1. NextTurn[s] \in Cascades
    BY TurnsDescend DEF Descends
  <2>2. Orderly(NextTurn[s].braid, A, l)
    BY <1>5, TurnOrder
  <2> QED
    BY <2>1, <2>2
<1>6. \A s \in P : s \in Ended => s.braid \in Q
  BY DEF Cascades
<1>7. cascade_unpark(b, v) \in Q
  <2>1. P \in SUBSET Cascades
    OBVIOUS
  <2> HIDE DEF P, Q
  <2> QED
    BY <1>1, <1>4, <1>5, <1>6, <2>1, CascadeKeeps
<1> QED
  BY <1>7

LEMMA InsertOrder ==
    ASSUME NEW A, NEW l \in Nat \union {Unknown}, LowParents \/ OwnWindow, CertGrace = 0,
           ~(CertForkChoice /\ DepthFinality), FinalQuorum <= 1,
           NEW b, NEW v \in Block, Orderly(b, A, l), HoldsLine(b, l)
    PROVE  Orderly(insert(b, v), A, l)
<1> DEFINE i == insert(b, v)
<1>1. /\ b \in BraidType /\ Sound(b) /\ b.emitted \subseteq b.recs
      /\ Ordered(b, A \union b.recs, l)
      /\ \A w \in Parked(b) : View[w].height > l
      /\ CertForkChoice /\ b.certified # NoBlock => b.certified \in b.recs
      /\ b.certified # NoBlock => View[b.certified].height <= tip_height(b)
  BY DEF Orderly, Sound, HoldsLine
<1>2. ~BelowFinal(b, v) => View[v].height > computed_final(b) /\ View[v].height > l
  BY <1>1, LineHeld, LineParts, BlockFacts DEF BelowFinal, Unknown
<1>3. CASE i = b
  BY <1>3
<1>4. CASE /\ BelowFinal(b, v) /\ CertForkChoice
           /\ i = cascade_unpark(anchor_trusted(b, v, View[v].height), v)
  <2> DEFINE t == anchor_trusted(b, v, View[v].height)
  <2>1. /\ t \in BraidType /\ Sound(t) /\ t.recs = b.recs /\ t.certified = b.certified
        /\ t.pending = b.pending /\ t.children = b.children
        /\ t.emitted = b.emitted /\ t.frozen = b.frozen
        /\ \A g \in Hash : g # v => t.emitted_at[g] = b.emitted_at[g]
    <3>1. v \in Hash /\ View[v].height \in Nat
      BY BlockFacts
    <3>2. t.children = b.children /\ t.emitted = b.emitted /\ t.frozen = b.frozen
      BY <1>1, <3>1, AnchorTrustedOrder
    <3> QED
      BY <1>1, <3>1, <3>2, AnchorTrustedIs
  <2>2. v \in Late(b)
    BY <1>1, <1>4, LateUnderLine DEF BelowFinal
  <2> HIDE DEF t
  <2>3. Late(t) = Late(b)
    BY <2>1 DEF Late
  <2>4. \A h \in Block : t.emitted_at[h] # Unknown => b.emitted_at[h] # Unknown \/ h \in Late(t)
    BY <2>1, <2>2, <2>3, BlockFacts
  <2>5. Ordered(t, A \union t.recs, l)
    BY <1>1, <2>1, <2>3, <2>4, SameOrder
  <2>6. Parked(t) = Parked(b)
    BY <2>1 DEF Parked
  <2>7. Orderly(t, A, l)
    BY <1>1, <2>1, <2>5, <2>6 DEF Orderly
  <2> QED
    BY <1>4, <2>7, CascadeOrder DEF t
<1>5. CASE /\ ~BelowFinal(b, v) /\ MissingOf(b, v) = {}
           /\ i = cascade_unpark(Accept(b, v), v)
  <2> DEFINE a == Accept(b, v)
  <2>1. /\ a \in BraidType /\ Sound(a)
        /\ a.recs = b.recs \union {v} /\ a.emitted = b.emitted
        /\ Parked(a) = Parked(b)
        /\ a.emitted_at = b.emitted_at /\ a.certified = b.certified /\ a.frozen = b.frozen
        /\ a.children = b.children \union ((Parents(v) \intersect b.recs) \X {v})
    BY <1>1, AcceptIs
  <2> HIDE DEF a
  <2>2. v \notin Late(b)
    <3>1. computed_final(b) \in Int /\ View[v].height \in Nat
      BY <1>1, LineParts, BlockFacts DEF Unknown
    <3> QED
      BY <1>1, <1>2, <1>5, <3>1, LateUnderLine
  <2>3. Ordered(a, (A \union b.recs) \union {v}, l)
    BY <1>1, <1>2, <1>5, <2>1, <2>2, AdmittedOrder
  <2>4. (A \union b.recs) \union {v} = A \union a.recs
    BY <2>1
  <2>5. Orderly(a, A, l)
    BY <1>1, <2>1, <2>3, <2>4 DEF Orderly
  <2> QED
    BY <1>5, <2>5, CascadeOrder DEF a
<1>6. CASE ~BelowFinal(b, v) /\ i = ParkOn(b, v, MissingOf(b, v))
  <2>1. i \in BraidType /\ SameWindow(b, i) /\ Parked(i) = Parked(b) \union {v}
    BY <1>1, <1>6, ParkOnIs
  <2> HIDE DEF i
  <2>2. \A w \in Parked(i) : View[w].height > l
    BY <1>1, <1>2, <1>6, <2>1
  <2>3. Orderly(i, A, l)
    BY <2>1, <2>2, OrderlyOn
  <2> QED
    BY <2>3 DEF i
<1>7. CASE /\ ~BelowFinal(b, v) /\ b.pending # <<>>
           /\ i = ParkOn(evict_oldest_parked(b), v, MissingOf(b, v))
  <2> DEFINE e == evict_oldest_parked(b)
  <2>1. e \in BraidType /\ SameWindow(b, e) /\ Parked(e) \subseteq Parked(b)
    BY <1>1, <1>7, EvictOldestIs
  <2> HIDE DEF e
  <2>2. i \in BraidType /\ SameWindow(e, i) /\ Parked(i) = Parked(e) \union {v}
    BY <1>7, <2>1, ParkOnIs DEF e
  <2> HIDE DEF i
  <2>3. \A w \in Parked(i) : View[w].height > l
    BY <1>1, <1>2, <1>7, <2>1, <2>2
  <2>4. SameWindow(b, i)
    BY <2>1, <2>2 DEF SameWindow
  <2>5. Orderly(i, A, l)
    BY <2>2, <2>3, <2>4, OrderlyOn
  <2> QED
    BY <2>5 DEF i
<1> HIDE DEF i
<1>8. \/ i = b
      \/ /\ BelowFinal(b, v) /\ CertForkChoice
         /\ i = cascade_unpark(anchor_trusted(b, v, View[v].height), v)
      \/ /\ ~BelowFinal(b, v) /\ MissingOf(b, v) = {}
         /\ i = cascade_unpark(Accept(b, v), v)
      \/ ~BelowFinal(b, v) /\ i = ParkOn(b, v, MissingOf(b, v))
      \/ /\ ~BelowFinal(b, v) /\ b.pending # <<>>
         /\ i = ParkOn(evict_oldest_parked(b), v, MissingOf(b, v))
  BY <1>1, InsertIs, Zenon DEF i
<1> QED
  BY <1>3, <1>4, <1>5, <1>6, <1>7, <1>8 DEF i

\* A drain trims what has been emitted and emits up to its own line.
LEMMA DrainOrder ==
    ASSUME NEW A, NEW l \in Nat \union {Unknown}, LowParents \/ OwnWindow, CertGrace = 0,
           NEW b, Sound(b), Ordered(b, A, l), HoldsLine(b, l)
    PROVE  Ordered(drain_ordered(b), A,
                   Max({l, computed_final(evict_stale_pending(b))}))
<1> DEFINE e == evict_stale_pending(b)
           f == computed_final(e)
           d == drain_ordered(b)
<1>1. b \in BraidType /\ Forgets(b, e)
  BY EvictStaleIs DEF Sound
<1> HIDE DEF e
<1>2. /\ e \in BraidType /\ SameWindow(b, e) /\ Sound(e) /\ tip_height(e) = tip_height(b)
      /\ e.certified = b.certified /\ e.recs = b.recs /\ Parked(e) \subseteq Parked(b)
  BY <1>1, SameWindowKeeps DEF Forgets, SameWindow
<1>3. HoldsLine(e, l) /\ Ordered(e, A, l)
  BY <1>2, SameWindowOrder DEF HoldsLine
<1>4. f >= l /\ f \in Nat \union {Unknown} /\ f \in Int /\ l \in Int
  BY <1>2, <1>3, LineHeld, LineParts DEF Unknown
<1>5. d = IF f = Unknown THEN e ELSE EmitThrough(cleanup(e, f), f)
  BY DEF drain_ordered, e
<1> HIDE DEF f, d
<1>6. Max({l, f}) = f
  BY <1>4, MaxOfTwo
<1>7. Ordered(e, A, f)
  <2>1. \A v \in ToSet(e.frozen) : View[v].height \in Nat
    BY <1>3, BlockFacts DEF Ordered
  <2>2. \A v \in ToSet(e.frozen) : View[v].height <= f
    BY <1>3, <1>4, <2>1 DEF Ordered
  <2> QED
    BY <1>3, <2>2 DEF Ordered
<1>8. CASE f = Unknown
  BY <1>5, <1>6, <1>7, <1>8 DEF d, f, e
<1>9. CASE f \in Nat
  <2> DEFINE m == IF e.last_heavy = 0 \/ f >= e.last_heavy + CleanupStride
                  THEN cleanup_heavy(e, f) ELSE e
             c == cleanup_light(m, f)
  <2>1. cleanup(e, f) = c
    BY DEF cleanup
  <2>2. /\ m \in BraidType /\ Sound(m) /\ m.recs \subseteq e.recs
        /\ m.certified = e.certified /\ m.frozen = e.frozen
        /\ m.recs \ m.emitted = e.recs \ e.emitted
        /\ m.children = e.children \intersect (m.recs \X m.recs)
        /\ \A h \in Hash : m.emitted_at[h] \in {e.emitted_at[h], Unknown}
    <3>1. CASE e.last_heavy = 0 \/ f >= e.last_heavy + CleanupStride
      <4>1. m = cleanup_heavy(e, f)
        BY <3>1
      <4> HIDE DEF m
      <4> QED
        BY <1>2, <1>9, <4>1, CleanupHeavyIs
    <3>2. CASE ~(e.last_heavy = 0 \/ f >= e.last_heavy + CleanupStride)
      <4>1. m = e
        BY <3>2
      <4> HIDE DEF m
      <4> QED
        BY <1>2, <4>1 DEF Sound
    <3> QED
      BY <3>1, <3>2
  <2> HIDE DEF m
  <2>3. Ordered(m, A, f)
    <3>1. Late(m) = Late(e)
      BY <2>2 DEF Late
    <3>2. OwnWindow => Linked(m, A)
      <4>1. \A h \in Block : m.emitted_at[h] # Unknown => e.emitted_at[h] # Unknown
        BY <2>2, BlockFacts
      <4> QED
        BY <1>7, <2>2, <3>1, <4>1 DEF Ordered, Linked
    <3> QED
      BY <1>7, <2>2, <3>2 DEF Ordered
  <2>4. c \in BraidType /\ SameWindow(m, c)
    BY <1>9, <2>2, CleanupLightIs DEF Forgets
  <2> HIDE DEF c
  <2>5. Ordered(c, A, f) /\ c.emitted \subseteq c.recs
    BY <2>2, <2>3, <2>4, SameWindowOrder DEF SameWindow, Sound
  <2> DEFINE T == {x \in BraidType : Ordered(x, A, f) /\ x.emitted \subseteq x.recs}
  <2>6. c \in T
    BY <2>4, <2>5
  <2>7. ASSUME NEW x \in T, frontier(x) # {}, ~(View[FirstKey(frontier(x))].height > f)
        PROVE  emit(x, FirstKey(frontier(x))) \in T
    BY <1>9, <2>7, EmittedOrder
  <2>8. EmitThrough(c, f) \in T
    <3> HIDE DEF T
    <3> QED
      BY <2>4, <2>6, <2>7, EmitThroughStays
  <2>9. f # Unknown
    BY <1>9 DEF Unknown
  <2>10. Ordered(d, A, f)
    BY <1>5, <2>1, <2>8, <2>9
  <2> QED
    BY <1>6, <2>10 DEF d, f, e
<1> QED
  BY <1>4, <1>8, <1>9

\* What the drains have handed out is a prefix of the order a single Kahn walk over
\* every block ever admitted gives: no arrival, however late, is ordered before a
\* block already handed out (the module documentation of braid.rs; insert,
\* cascade_unpark, cleanup, drain_ordered).  Either every parent is below its child,
\* or the braid anchors nothing of its blocks on a peer's word; without both a
\* merge parent that catch-up anchors can enter the window after its child is out.
THEOREM FrozenOrderIsFinal ==
    ASSUME LowParents \/ OwnWindow,
           ~(CertForkChoice /\ DepthFinality), CertGrace = 0, FinalQuorum <= 1
    PROVE  Spec => []FrozenIsBatchPrefix
<1> DEFINE Inv == /\ WindowInv /\ HoldsLine(braid, drainLine)
                  /\ Ordered(braid, admitted, drainLine)
<1>1. Init => Inv
  <2> SUFFICES ASSUME Init PROVE Inv
    OBVIOUS
  <2>1. WindowInv /\ HoldsLine(braid, drainLine)
    BY InitIsSound, InitHoldsLine
  <2>2. drainLine = Unknown
    BY DEF Init
  <2>3. ToSet(braid.frozen) = {} /\ Len(braid.frozen) = 0
    BY DEF Init, ToSet
  <2>4. /\ braid.recs = {} /\ braid.emitted = {} /\ braid.children = {} /\ admitted = {}
    BY DEF Init
  <2>5. OwnWindow => \A h \in Block : braid.emitted_at[h] = Unknown
    <3>1. \A h \in Block : h \in Hash
      BY BlockFacts
    <3> QED
      BY <3>1 DEF Init, OwnWindow
  <2>6. Ordered(braid, admitted, drainLine)
    BY <2>3, <2>4, <2>5 DEF Ordered, KahnRun, Linked
  <2> QED
    BY <2>1, <2>6
<1>2. Inv /\ [Next]_vars => Inv'
  <2> SUFFICES ASSUME Inv, [Next]_vars PROVE Inv'
    OBVIOUS
  <2>1. /\ WindowInv' /\ HoldsLine(braid', drainLine')
        /\ Sound(braid) /\ braid \in BraidType
        /\ drainLine \in Nat \union {Unknown} /\ HoldsLine(braid, drainLine)
        /\ Ordered(braid, admitted, drainLine)
        /\ braid.recs \subseteq admitted /\ admitted \subseteq Block
        /\ admitted \union braid.recs = admitted
    BY WindowStep, HoldsLineStep DEF WindowInv, Sound
  <2>2. ASSUME NEW b, NEW l, Ordered(b, admitted \union b.recs, l), Becomes(b), drainLine' = l
        PROVE  Inv'
    <3>1. braid' = b /\ admitted' = admitted \union b.recs
      BY <2>2 DEF Becomes
    <3>2. Ordered(braid', admitted', drainLine')
      BY <2>2, <3>1
    <3> QED
      BY <2>1, <3>2, Zenon
  <2>3. Orderly(braid, admitted, drainLine)
    BY <2>1 DEF Orderly, HoldsLine
  <2>4. ASSUME NEW v \in Block, Insert(v) PROVE Inv'
    <3>1. Orderly(insert(braid, v), admitted, drainLine)
      BY <2>1, <2>3, InsertOrder
    <3> QED
      BY <2>2, <2>4, <3>1 DEF Insert, Orderly
  <2>5. ASSUME NEW v \in CaughtUp, CatchUp(v) PROVE Inv'
    <3> DEFINE m == AnchorMerges(braid, v)
    <3>1. v \in Block /\ ~OwnWindow
      BY BraidAssumption DEF OwnWindow
    <3>2. /\ Sound(m) /\ Parked(m) = Parked(braid) /\ m.recs = braid.recs
          /\ m.certified = braid.certified /\ m.sel_tip = braid.sel_tip
          /\ m.children = braid.children /\ m.emitted = braid.emitted
          /\ m.frozen = braid.frozen
      BY <2>1, <3>1, AnchorMergesIs
    <3> HIDE DEF m
    <3>3. HoldsLine(m, drainLine)
      BY <2>1, <3>2 DEF HoldsLine, tip_height
    <3>4. Late(m) = Late(braid)
      BY <3>2 DEF Late
    <3>5. Ordered(m, admitted \union m.recs, drainLine)
      BY <2>1, <3>1, <3>2, <3>4, SameOrder
    <3>6. Orderly(m, admitted, drainLine)
      BY <2>3, <3>2, <3>5 DEF Orderly
    <3>7. Orderly(insert(m, v), admitted, drainLine)
      BY <2>1, <3>1, <3>3, <3>6, InsertOrder
    <3> QED
      BY <2>2, <2>5, <3>7 DEF CatchUp, Orderly, m
  <2>6. ASSUME NEW c \in Certifiable, SetCertified(c) PROVE Inv'
    <3> DEFINE n == set_certified(braid, c)
    <3>1. c \in Block
      BY BraidAssumption
    <3>2. /\ n \in BraidType /\ n.recs = braid.recs /\ n.emitted_at = braid.emitted_at
          /\ n.children = braid.children /\ n.emitted = braid.emitted
          /\ n.frozen = braid.frozen
          /\ \/ n = braid
             \/ /\ n.certified = c
                /\ braid.certified # NoBlock
                      => View[c].height > View[braid.certified].height
      BY <2>1, <3>1, SetCertifiedIs
    <3> HIDE DEF n
    <3>3. Late(braid) \subseteq Late(n)
      <4>1. braid.certified # NoBlock => View[braid.certified].height \in Nat
        BY <2>1, Fields, BlockFacts
      <4>2. c # NoBlock /\ View[c].height \in Nat /\ \A p \in Block : View[p].height \in Nat
        BY <3>1, BlockFacts
      <4> QED
        BY <3>2, <4>1, <4>2 DEF Late
    <3>4. Ordered(n, admitted \union n.recs, drainLine)
      BY <2>1, <3>2, <3>3, SameOrder
    <3> QED
      BY <2>2, <2>6, <3>4 DEF SetCertified, n
  <2>7. CASE Drain
    <3> DEFINE d == drain_ordered(braid)
               k == Max({drainLine, computed_final(evict_stale_pending(braid))})
    <3>1. Ordered(d, admitted, k)
      BY <2>1, DrainOrder
    <3>2. admitted \union d.recs = admitted
      BY <2>1, DrainIs
    <3>3. Becomes(d) /\ drainLine' = k
      BY <2>7 DEF Drain
    <3> HIDE DEF d, k
    <3> QED
      BY <2>2, <3>1, <3>2, <3>3
  <2>8. CASE UNCHANGED vars
    <3>1. braid' = braid /\ admitted' = admitted /\ drainLine' = drainLine
      BY <2>8 DEF vars
    <3>2. Ordered(braid', admitted', drainLine')
      BY <2>1, <3>1
    <3> QED
      BY <2>1, <3>2, Zenon
  <2> QED
    BY <2>4, <2>5, <2>6, <2>7, <2>8 DEF Next
<1>3. Inv => FrozenIsBatchPrefix
  <2> SUFFICES ASSUME Inv PROVE FrozenIsBatchPrefix
    OBVIOUS
  <2>1. /\ admitted \in SUBSET Block /\ braid.frozen \in Seq(Block)
        /\ KahnRun(braid.frozen, admitted)
    BY Fields DEF WindowInv, Sound, Ordered
  <2> QED
    BY <2>1, RunIsPrefix DEF FrozenIsBatchPrefix
<1> HIDE DEF Inv
<1> QED
  BY <1>1, <1>2, <1>3, PTL DEF Spec

-----------------------------------------------------------------------------
(* What the braid remembers of a hash is its height.                        *)

\* The heights blocks really have: a parent is one below its child, and so is a
\* merge parent of a block of a settled chain, which catch-up takes it to be.
RealHeights(real) ==
    /\ real \in [Hash -> Nat]
    /\ \A v \in Block : real[v] = View[v].height
    /\ \A h \in DOMAIN Trusted : real[h] = Trusted[h]
    /\ \A v \in Block : View[v].height > 0 => real[View[v].parent] + 1 = View[v].height
    /\ \A v \in CaughtUp :
        \A m \in ToSet(View[v].merge) \intersect Hash : real[m] + 1 = View[v].height

\* Nothing is remembered at a height it does not have.
Remembers(b, real) == \A h \in Hash : b.emitted_at[h] \in {Unknown, real[h]}

\* A cascade adds to the window and remembers what it remembered.
LEMMA CascadeKnows ==
    ASSUME NEW b \in BraidType, NEW v \in Block
    PROVE  LET c == cascade_unpark(b, v)
           IN c \in BraidType /\ b.recs \subseteq c.recs /\ c.emitted_at = b.emitted_at
<1> DEFINE b0    == [b EXCEPT !.waiters[v] = <<>>]
           P     == {s \in Cascades : s.braid.emitted_at = b.emitted_at}
           Q     == {c \in BraidType : c.emitted_at = b.emitted_at}
           start == [braid |-> b0, work |-> b.waiters[v]]
<1>1. start \in P
  <2>1. v \in Hash /\ <<>> \in Seq(Block) /\ b.waiters[v] \in Seq(Block)
    BY Fields, BlockFacts
  <2>2. b0 \in BraidType /\ b0.emitted_at = b.emitted_at
    BY <2>1 DEF BraidType
  <2> HIDE DEF b0
  <2> QED
    BY <2>1, <2>2 DEF Cascades
<1>2. ASSUME NEW s \in P, s \notin Ended PROVE NextTurn[s] \in P
  <2> DEFINE c     == s.braid
             child == Head(s.work)
             taken == unpark_take(c, child)
             n     == NextTurn[s]
  <2>1. /\ s \in Cascades /\ c \in BraidType /\ child \in Block
        /\ Turned(s, n) /\ n \in Cascades /\ c.emitted_at = b.emitted_at
    BY <1>2, TurnIs, TurnsDescend DEF Descends
  <2>2. taken \in BraidType /\ taken.emitted_at = c.emitted_at
    BY <2>1, UnparkIs DEF SameWindow
  <2>3. Woken(s, n) => n.braid.emitted_at = c.emitted_at
    BY <1>2, <2>1, WokenIs
  <2>4. ParkOn(taken, child, MissingOf(taken, child)).emitted_at = c.emitted_at
    BY <2>1, <2>2, ParkOnIs DEF SameWindow
  <2>5. n.braid.emitted_at = c.emitted_at
    BY <2>1, <2>2, <2>3, <2>4 DEF Turned
  <2> QED
    BY <2>1, <2>5
<1>3. \A s \in P : s \in Ended => s.braid \in Q
  BY DEF Cascades
<1>4. cascade_unpark(b, v) \in Q
  <2>1. P \in SUBSET Cascades
    OBVIOUS
  <2> HIDE DEF P, Q
  <2> QED
    BY <1>1, <1>2, <1>3, <2>1, CascadeKeeps
<1>5. b.recs \subseteq cascade_unpark(b, v).recs
  BY CascadeGrows DEF Grows
<1> QED
  BY <1>4, <1>5

\* An insert remembers nothing new but a block at its own height.
LEMMA InsertRemembers ==
    ASSUME NEW real, RealHeights(real),
           NEW b \in BraidType, NEW v \in Block, Remembers(b, real)
    PROVE  Remembers(insert(b, v), real)
<1> DEFINE i == insert(b, v)
<1>1. v \in Hash /\ View[v].height \in Nat /\ real[v] = View[v].height
  BY BlockFacts DEF RealHeights
<1>2. CASE i.emitted_at = b.emitted_at
  BY <1>2 DEF Remembers
<1>3. CASE i = cascade_unpark(anchor_trusted(b, v, View[v].height), v)
  <2> DEFINE t == anchor_trusted(b, v, View[v].height)
  <2>1. t \in BraidType
    BY <1>1, AnchorTrustedIs
  <2>2. t = b \/ t = [b EXCEPT !.emitted_at[v] = View[v].height]
    BY DEF anchor_trusted
  <2>3. Remembers(t, real)
    <3>1. b.emitted_at \in [Hash -> Nat \union {Unknown}]
      BY Fields
    <3>2. \/ t = b
          \/ t.emitted_at = [b.emitted_at EXCEPT ![v] = View[v].height]
      BY <2>2 DEF BraidType
    <3> HIDE DEF t
    <3> QED
      BY <1>1, <3>1, <3>2 DEF Remembers
  <2> HIDE DEF t
  <2>4. i.emitted_at = t.emitted_at
    BY <1>3, <2>1, CascadeKnows DEF t
  <2> QED
    BY <2>3, <2>4 DEF Remembers
<1>4. CASE i = cascade_unpark(Accept(b, v), v)
  <2>1. Accept(b, v) \in BraidType /\ Accept(b, v).emitted_at = b.emitted_at
    BY AcceptIs
  <2>2. i.emitted_at = b.emitted_at
    BY <1>4, <2>1, CascadeKnows
  <2> QED
    BY <1>2, <2>2
<1>5. CASE i = ParkOn(b, v, MissingOf(b, v))
  <2>1. i.emitted_at = b.emitted_at
    BY <1>5, ParkOnIs DEF SameWindow
  <2> QED
    BY <1>2, <2>1
<1>6. CASE b.pending # <<>> /\ i = ParkOn(evict_oldest_parked(b), v, MissingOf(b, v))
  <2> DEFINE e == evict_oldest_parked(b)
  <2>1. e \in BraidType /\ e.emitted_at = b.emitted_at
    BY <1>6, EvictOldestIs DEF SameWindow
  <2> HIDE DEF e
  <2>2. i.emitted_at = b.emitted_at
    BY <1>6, <2>1, ParkOnIs DEF SameWindow, e
  <2> QED
    BY <1>2, <2>2
<1> HIDE DEF i
<1>7. \/ i = b
      \/ i = cascade_unpark(anchor_trusted(b, v, View[v].height), v)
      \/ i = cascade_unpark(Accept(b, v), v)
      \/ i = ParkOn(b, v, MissingOf(b, v))
      \/ b.pending # <<>> /\ i = ParkOn(evict_oldest_parked(b), v, MissingOf(b, v))
  BY InsertIs, Zenon DEF i
<1> QED
  BY <1>2, <1>3, <1>4, <1>5, <1>6, <1>7 DEF i

\* Catch-up anchors the merge parents of a settled block one below it.
LEMMA AnchorMergesRemembers ==
    ASSUME NEW real, RealHeights(real),
           NEW b \in BraidType, NEW v \in CaughtUp, Remembers(b, real)
    PROVE  Remembers(AnchorMerges(b, v), real)
<1> DEFINE merges == ToSet(View[v].merge) \ (Parked(b) \union b.recs)
           low    == saturating_sub(View[v].height, 1)
           at     == [h \in Hash |-> IF h \in merges /\ b.emitted_at[h] = Unknown
                                     THEN low ELSE b.emitted_at[h]]
<1>1. AnchorMerges(b, v).emitted_at = at
  BY DEF AnchorMerges, BraidType
<1>2. \A h \in Hash : at[h] \in {Unknown, real[h]}
  <2> SUFFICES ASSUME NEW h \in Hash, h \in merges PROVE low = real[h]
    BY DEF Remembers
  <2>1. v \in Block /\ View[v].height \in Nat
    BY BlockFacts, BraidAssumption
  <2>2. real[h] + 1 = View[v].height
    BY DEF RealHeights
  <2>3. real[h] \in Nat
    BY DEF RealHeights
  <2> QED
    BY <2>1, <2>2, <2>3 DEF saturating_sub
<1> HIDE DEF at
<1> QED
  BY <1>1, <1>2 DEF Remembers

\* A drain forgets, and remembers what it emits at its own height.
LEMMA DrainRemembers ==
    ASSUME NEW real, RealHeights(real), NEW b \in BraidType, Remembers(b, real)
    PROVE  Remembers(drain_ordered(b), real)
<1> DEFINE e == evict_stale_pending(b)
           f == computed_final(e)
           d == drain_ordered(b)
<1>1. e \in BraidType /\ e.emitted_at = b.emitted_at
  <2>1. Forgets(b, e)
    BY EvictStaleIs
  <2> HIDE DEF e
  <2> QED
    BY <2>1 DEF Forgets, SameWindow
<1>2. f \in Nat \union {Unknown}
  BY <1>1, LineParts
<1>3. d = IF f = Unknown THEN e ELSE EmitThrough(cleanup(e, f), f)
  BY DEF drain_ordered
<1> HIDE DEF e, f, d
<1>4. CASE f = Unknown
  BY <1>1, <1>3, <1>4 DEF Remembers, d
<1>5. CASE f \in Nat
  <2> DEFINE m == IF e.last_heavy = 0 \/ f >= e.last_heavy + CleanupStride
                  THEN cleanup_heavy(e, f) ELSE e
             c == cleanup_light(m, f)
             T == {x \in BraidType : Remembers(x, real)}
  <2>1. cleanup(e, f) = c
    BY DEF cleanup
  <2>2. m \in BraidType /\ \A h \in Hash : m.emitted_at[h] \in {e.emitted_at[h], Unknown}
    BY <1>1, <1>5, CleanupHeavyIs
  <2> HIDE DEF m
  <2>3. c \in BraidType /\ c.emitted_at = m.emitted_at
    BY <1>5, <2>2, CleanupLightIs DEF Forgets, SameWindow
  <2> HIDE DEF c
  <2>4. c \in T
    BY <1>1, <2>2, <2>3 DEF Remembers
  <2>5. ASSUME NEW x \in T, frontier(x) # {} PROVE emit(x, FirstKey(frontier(x))) \in T
    <3> DEFINE v == FirstKey(frontier(x))
    <3>1. x \in BraidType /\ frontier(x) \subseteq x.recs /\ x.recs \in SUBSET Block
      BY Fields DEF frontier
    <3>2. v \in Block
      BY <2>5, <3>1, FirstKeyIs
    <3> HIDE DEF v
    <3>3. emit(x, v) \in BraidType
      BY <3>1, <3>2, EmitIs
    <3>4. emit(x, v).emitted_at = [x.emitted_at EXCEPT ![v] = View[v].height]
      BY <3>1 DEF emit, BraidType
    <3>5. x.emitted_at \in [Hash -> Nat \union {Unknown}] /\ real[v] = View[v].height
      BY <3>1, <3>2, Fields DEF RealHeights
    <3>6. Remembers(emit(x, v), real)
      BY <2>5, <3>4, <3>5 DEF Remembers
    <3> QED
      BY <3>3, <3>6 DEF v
  <2>6. EmitThrough(c, f) \in T
    <3> HIDE DEF T
    <3> QED
      BY <2>3, <2>4, <2>5, EmitThroughStays
  <2>7. f # Unknown
    BY <1>5 DEF Unknown
  <2> QED
    BY <1>3, <2>1, <2>6, <2>7 DEF d
<1> QED
  BY <1>2, <1>4, <1>5

LEMMA InitRemembers ==
    ASSUME NEW real, RealHeights(real), Init PROVE Remembers(braid, real)
BY DEF Init, Remembers, RealHeights

LEMMA StepRemembers ==
    ASSUME NEW real, RealHeights(real), WindowInv, Remembers(braid, real), [Next]_vars
    PROVE  Remembers(braid, real)'
<1>1. braid \in BraidType
  BY DEF WindowInv, Sound
<1>2. ASSUME NEW b, Remembers(b, real), braid' = b PROVE Remembers(braid, real)'
  BY <1>2, Zenon
<1>3. ASSUME NEW v \in Block, Insert(v) PROVE Remembers(braid, real)'
  BY <1>1, <1>2, <1>3, InsertRemembers DEF Insert, Becomes
<1>4. ASSUME NEW v \in CaughtUp, CatchUp(v) PROVE Remembers(braid, real)'
  <2>1. v \in Block
    BY BraidAssumption
  <2>2. AnchorMerges(braid, v) \in BraidType /\ Remembers(AnchorMerges(braid, v), real)
    BY <1>1, <2>1, AnchorMergesIs, AnchorMergesRemembers
  <2> QED
    BY <1>2, <1>4, <2>1, <2>2, InsertRemembers DEF CatchUp, Becomes
<1>5. ASSUME NEW c \in Certifiable, SetCertified(c) PROVE Remembers(braid, real)'
  <2>1. c \in Block
    BY BraidAssumption
  <2>2. set_certified(braid, c).emitted_at = braid.emitted_at
    BY <1>1, <2>1, SetCertifiedIs
  <2> QED
    BY <1>2, <1>5, <2>2 DEF SetCertified, Becomes, Remembers
<1>6. CASE Drain
  BY <1>1, <1>2, <1>6, DrainRemembers DEF Drain, Becomes
<1>7. CASE UNCHANGED vars
  BY <1>2, <1>7 DEF vars
<1> QED
  BY <1>3, <1>4, <1>5, <1>6, <1>7 DEF Next

\* A block whose parents are known at their heights is admitted while there is room.
LEMMA KnownIsAdmissible ==
    ASSUME NEW real, RealHeights(real), NEW b \in BraidType, NEW v \in Block,
           Remembers(b, real), MissingOf(b, v) = {}, Cardinality(b.recs) < MaxWindow
    PROVE  Admission(b, v) = "Ok"
<1>1. View[v].height > 0 => known_height(b, View[v].parent) + 1 = View[v].height
  <2> SUFFICES ASSUME View[v].height > 0
               PROVE  known_height(b, View[v].parent) + 1 = View[v].height
    OBVIOUS
  <2> DEFINE p == View[v].parent
  <2>1. p \in Parents(v) /\ p \in Hash
    BY DEF Parents, Hash
  <2>2. known_height(b, p) # Unknown
    BY <2>1 DEF MissingOf
  <2>3. known_height(b, p) = real[p]
    <3>1. b.recs \in SUBSET Block
      BY Fields
    <3> QED
      BY <2>1, <2>2, <3>1 DEF known_height, Remembers, RealHeights
  <2> QED
    BY <2>3 DEF RealHeights
<1>2. ~(Cardinality(b.recs) >= MaxWindow)
  <2>1. Cardinality(b.recs) \in Nat
    BY Fields, BlockFacts, FS_Subset, FS_CardinalityType
  <2> QED
    BY <2>1, ConfigFacts
<1> QED
  BY <1>1, <1>2 DEF Admission

\* The block missing_parents asks for moves the braid when it comes, whichever way
\* insert takes: admitted, anchored because somebody waits for it, or parked.
THEOREM AskedForIsTaken ==
    ASSUME CertForkChoice, NEW real, RealHeights(real)
    PROVE  Spec => [](Cardinality(braid.recs) < MaxWindow => MissingParentsAdmissible)
<1> DEFINE Inv == WindowInv /\ Remembers(braid, real)
<1>1. Init => Inv
  BY InitIsSound, InitRemembers
<1>2. Inv /\ [Next]_vars => Inv'
  BY WindowStep, StepRemembers
<1>3. Inv => (Cardinality(braid.recs) < MaxWindow => MissingParentsAdmissible)
  <2> SUFFICES ASSUME Inv, Cardinality(braid.recs) < MaxWindow,
                      NEW p \in missing_parents(braid), p \in Block, ~structural_reject(p)
               PROVE  LET after == insert(braid, p)
                      IN known_height(after, p) # Unknown \/ p \in Parked(after)
    BY DEF MissingParentsAdmissible
  <2> DEFINE i == insert(braid, p)
  <2>1. /\ braid \in BraidType /\ Len(braid.pending) <= MaxPending /\ p \in Hash
        /\ known_height(braid, p) = Unknown /\ p \notin Parked(braid)
        /\ View[p].height \in Nat /\ View[p].height # Unknown
    BY BlockFacts DEF WindowInv, Sound, missing_parents, Unknown
  <2>2. p \notin braid.recs
    BY <2>1 DEF known_height
  <2>3. PICK w : w \in ToSet(braid.waiters[p]) /\ w \in Parked(braid)
    BY DEF missing_parents
  <2>4. braid.waiters[p] # <<>> /\ braid.pending # <<>>
    BY <2>3 DEF ToSet, Parked
  <2>5. i = CASE BelowFinal(braid, p) -> LateParent(braid, p)
             [] ~BelowFinal(braid, p) /\ Admission(braid, p) = "Ok" ->
                  cascade_unpark(Accept(braid, p), p)
             [] ~BelowFinal(braid, p) /\ Admission(braid, p) = "Missing" -> ParkNew(braid, p)
             [] ~BelowFinal(braid, p) /\ Admission(braid, p) \in {"Bad", "WindowFull"} -> braid
    BY <2>1, <2>2 DEF insert
  <2> HIDE DEF i
  <2>6. CASE BelowFinal(braid, p)
    <3> DEFINE t == anchor_trusted(braid, p, View[p].height)
    <3>1. i = cascade_unpark(t, p)
      BY <2>4, <2>5, <2>6 DEF LateParent
    <3>2. t \in BraidType /\ t.emitted_at[p] # Unknown
      BY <2>1, <2>2, AnchorTrustedIs
    <3> HIDE DEF t
    <3>3. i.emitted_at = t.emitted_at
      BY <3>1, <3>2, CascadeKnows
    <3> QED
      BY <2>1, <3>2, <3>3 DEF known_height, i
  <2>7. CASE ~BelowFinal(braid, p) /\ MissingOf(braid, p) = {}
    <3>1. Admission(braid, p) = "Ok"
      BY <2>1, <2>7, KnownIsAdmissible
    <3>2. i = cascade_unpark(Accept(braid, p), p)
      BY <2>5, <2>7, <3>1
    <3>3. Accept(braid, p) \in BraidType /\ p \in Accept(braid, p).recs
      BY <2>1, AcceptIs
    <3>4. p \in i.recs
      BY <3>2, <3>3, CascadeKnows
    <3> QED
      BY <2>1, <3>4 DEF known_height, i
  <2>8. CASE ~BelowFinal(braid, p) /\ MissingOf(braid, p) # {}
    <3>1. Admission(braid, p) = "Missing"
      BY <2>8 DEF Admission
    <3>2. i = ParkNew(braid, p)
      BY <2>5, <2>8, <3>1
    <3>3. \/ i = ParkOn(braid, p, MissingOf(braid, p))
          \/ i = ParkOn(evict_oldest_parked(braid), p, MissingOf(braid, p))
      BY <2>4, <3>2 DEF ParkNew
    <3>4. p \in Parked(i)
      BY <2>1, <2>4, <3>3, ParkOnIs, EvictOldestIs
    <3> QED
      BY <3>4 DEF i
  <2> QED
    BY <2>6, <2>7, <2>8
<1> HIDE DEF Inv
<1> QED
  BY <1>1, <1>2, <1>3, PTL DEF Spec

\* The line reads the window, the pool, the certificate and the tip, not what is
\* remembered of history.
LEMMA LineReads ==
    ASSUME NEW b, NEW c, b.recs = c.recs, b.pending = c.pending,
           b.certified = c.certified, b.sel_tip = c.sel_tip
    PROVE  computed_final(b) = computed_final(c)
<1>1. tip_height(b) = tip_height(c)
  BY DEF tip_height
<1>2. pending_floor(b) = pending_floor(c) /\ PendingClamp(b) = PendingClamp(c)
  BY DEF pending_floor, PendingClamp, Parked
<1>3. \A h : cert_line_held(b, h) = cert_line_held(c, h)
  BY <1>2 DEF cert_line_held
<1>4. depth_rule_final(b) = depth_rule_final(c)
  BY <1>1, <1>2 DEF depth_rule_final
<1>5. \A v, h : AncestorAt(b, v, h) = AncestorAt(c, v, h)
  BY DEF AncestorAt
<1>6. \A h : spine_block_at(b, h) = spine_block_at(c, h)
  BY <1>5 DEF spine_block_at
<1>7. quorum_final(b) = quorum_final(c)
  BY <1>1, <1>6 DEF quorum_final
<1> QED
  BY <1>1, <1>3, <1>4, <1>7 DEF computed_final

\* The braid follows catch-up: a settled block offered on top of a known parent
\* finds all its parents known, since its merge parents have just been anchored,
\* and enters the window unless the line is already past it.
THEOREM CatchUpFollowed ==
    ASSUME NEW real, RealHeights(real), \A v \in CaughtUp : ~structural_reject(v)
    PROVE  Spec /\ [](Cardinality(braid.recs) < MaxWindow) => CaughtUpJoins
<1> DEFINE Inv  == WindowInv /\ Remembers(braid, real)
           Room == Cardinality(braid.recs) < MaxWindow
           Joined == \A v \in CaughtUp :
                        (/\ CatchUp(v)
                         /\ ({v} \union ToSet(View[v].merge)) \intersect Parked(braid) = {})
                        => v \in braid'.recs \/ BelowFinal(braid, v)
<1>1. Init => Inv
  BY InitIsSound, InitRemembers
<1>2. Inv /\ [Next]_vars => Inv'
  BY WindowStep, StepRemembers
<1>3. Inv /\ Room => Joined
  <2> SUFFICES ASSUME Inv, Room, NEW v \in CaughtUp, CatchUp(v),
                      ({v} \union ToSet(View[v].merge)) \intersect Parked(braid) = {},
                      ~BelowFinal(braid, v)
               PROVE  v \in braid'.recs
    OBVIOUS
  <2> DEFINE m == AnchorMerges(braid, v)
             i == insert(m, v)
  <2>1. /\ v \in Block /\ v \in Hash /\ View[v].height \in Nat
        /\ ~structural_reject(v) /\ braid \in BraidType
        /\ v \notin Parked(braid) /\ known_height(braid, View[v].parent) # Unknown
    BY BlockFacts, BraidAssumption DEF WindowInv, Sound, CatchUp
  <2>2. /\ m \in BraidType /\ m.recs = braid.recs /\ m.certified = braid.certified
        /\ m.sel_tip = braid.sel_tip /\ m.pending = braid.pending
        /\ Parked(m) = Parked(braid)
    BY <2>1, AnchorMergesIs
  <2>3. Remembers(m, real)
    BY <2>1, AnchorMergesRemembers
  <2>4. \A h \in Hash : m.emitted_at[h] =
           IF h \in ToSet(View[v].merge) \ (Parked(braid) \union braid.recs)
                /\ braid.emitted_at[h] = Unknown
           THEN saturating_sub(View[v].height, 1) ELSE braid.emitted_at[h]
    BY <2>1 DEF AnchorMerges, BraidType
  <2>5. braid' = i
    BY DEF CatchUp, Becomes
  <2> HIDE DEF m, i
  <2>6. CASE v \in braid.recs
    <3>1. i = m
      BY <2>2, <2>6 DEF insert, i
    <3> QED
      BY <2>2, <2>5, <2>6, <3>1
  <2>7. CASE v \notin braid.recs
    <3>1. MissingOf(m, v) = {}
      <4> SUFFICES ASSUME NEW p \in Parents(v) PROVE known_height(m, p) # Unknown
        BY DEF MissingOf
      <4>1. p \in Hash /\ (p = View[v].parent \/ p \in ToSet(View[v].merge))
        BY <2>1 DEF Hash, Parents
      <4>2. \A w \in braid.recs : View[w].height # Unknown
        BY <2>1, Fields, BlockFacts DEF Unknown
      <4>3. saturating_sub(View[v].height, 1) # Unknown
        BY <2>1 DEF saturating_sub, Unknown
      <4>4. CASE p \in braid.recs
        BY <2>2, <4>2, <4>4 DEF known_height
      <4>5. CASE p \notin braid.recs /\ p = View[v].parent
        <5>1. braid.emitted_at[p] # Unknown
          BY <2>1, <4>5 DEF known_height
        <5> QED
          BY <2>2, <2>4, <4>1, <4>5, <5>1 DEF known_height
      <4>6. CASE p \notin braid.recs /\ p \in ToSet(View[v].merge)
        <5>1. p \notin Parked(braid)
          BY <4>6
        <5> QED
          BY <2>2, <2>4, <4>1, <4>3, <4>6, <5>1 DEF known_height
      <4> QED
        BY <4>1, <4>4, <4>5, <4>6
    <3>2. Admission(m, v) = "Ok"
      BY <2>1, <2>2, <2>3, <3>1, KnownIsAdmissible
    <3>3. ~BelowFinal(m, v)
      <4>1. computed_final(m) = computed_final(braid)
        BY <2>2, LineReads
      <4> QED
        BY <4>1 DEF BelowFinal
    <3>4. v \notin m.recs \union Parked(m)
      BY <2>1, <2>2, <2>7
    <3>5. i = CASE BelowFinal(m, v) -> LateParent(m, v)
               [] ~BelowFinal(m, v) /\ Admission(m, v) = "Ok" ->
                    cascade_unpark(Accept(m, v), v)
               [] ~BelowFinal(m, v) /\ Admission(m, v) = "Missing" -> ParkNew(m, v)
               [] ~BelowFinal(m, v) /\ Admission(m, v) \in {"Bad", "WindowFull"} -> m
      BY <2>1, <3>4 DEF insert, i
    <3>6. i = cascade_unpark(Accept(m, v), v)
      BY <3>2, <3>3, <3>5
    <3>7. Accept(m, v) \in BraidType /\ v \in Accept(m, v).recs
      BY <2>1, <2>2, AcceptIs
    <3>8. v \in i.recs
      BY <2>1, <3>6, <3>7, CascadeKnows
    <3> QED
      BY <2>5, <3>8
  <2> QED
    BY <2>6, <2>7
<1>4. Inv /\ Room /\ [Next]_vars => [Joined]_vars
  BY <1>3
<1>5. CaughtUpJoins <=> [][Joined]_vars
  BY DEF CaughtUpJoins
<1> HIDE DEF Inv, Room, Joined
<1>6. Spec /\ []Room => [][Joined]_vars
  BY <1>1, <1>2, <1>4, PTL DEF Spec
<1> QED
  BY <1>5, <1>6 DEF Room

-----------------------------------------------------------------------------
(* The parent walk and the frozen spine.                                    *)

\* The parents of v one after the other, as long as they are in R.
Walk(R, v) ==
    LET walk[n \in Nat] ==
            IF n = 0 THEN v
            ELSE LET below == walk[n - 1]
                 IN IF below \in R THEN View[below].parent ELSE NoBlock
    IN walk

LEMMA AncestorIs ==
    ASSUME NEW b, NEW v, NEW h
    PROVE  AncestorAt(b, v, h) =
             IF View[v].height - h >= 0 /\ Walk(b.recs, v)[View[v].height - h] \in b.recs
             THEN Walk(b.recs, v)[View[v].height - h] ELSE NoBlock
BY DEF AncestorAt, Walk

\* What holds at 0 and is passed on holds of every number.
LEMMA AllNaturals ==
    ASSUME NEW P, 0 \in P, \A n \in Nat : n \in P => n + 1 \in P
    PROVE  \A n \in Nat : n \in P
<1> DEFINE Bad == {n \in Nat : n \notin P}
<1> SUFFICES ASSUME Bad # {} PROVE FALSE
  OBVIOUS
<1>1. PICK n \in Bad : \A m \in Bad : n <= m
  BY LeastNatural
<1>2. n - 1 \in Nat /\ ~(n <= n - 1)
  BY <1>1
<1>3. n - 1 \in P
  BY <1>1, <1>2
<1>4. (n - 1) + 1 = n
  BY <1>1
<1> QED
  BY <1>1, <1>2, <1>3, <1>4

\* The walk has a value, like every other loop.
LEMMA WalkIs ==
    ASSUME NEW R, NEW v
    PROVE  LET w == Walk(R, v)
           IN /\ w[0] = v
              /\ \A n \in Nat : w[n + 1] = IF w[n] \in R THEN View[w[n]].parent ELSE NoBlock
<1> DEFINE step(x) == IF x \in R THEN View[x].parent ELSE NoBlock
           T == {v, NoBlock} \union {View[x].parent : x \in R}
           G == [x \in T |-> step(x)]
           Eq(f) == f = [n \in Nat |-> IF n = 0 THEN v ELSE step(f[n - 1])]
           F == CHOOSE f : Eq(f)
           r(n) == CHOOSE f : Iteration(T, G, v, n, f)
           g == [n \in Nat |-> r(n)[n]]
<1>1. Walk(R, v) = F
  BY DEF Walk
<1>2. G \in [T -> T] /\ v \in T
  OBVIOUS
<1>3. \A x \in T : G[x] = step(x)
  OBVIOUS
<1> HIDE DEF step, T, G
<1>4. ASSUME NEW n \in Nat PROVE Iteration(T, G, v, n, r(n))
  <2>1. \E f : Iteration(T, G, v, n, f)
    BY <1>2, Iterated, Zenon
  <2> QED
    BY <2>1
<1> HIDE DEF r
<1>5. ASSUME NEW n \in Nat, NEW i \in 0 .. n PROVE r(n)[i] = g[i]
  <2> DEFINE Same == {j \in Nat : \A m \in Nat : j <= m => r(m)[j] = r(j)[j]}
  <2>1. 0 \in Same
    <3>1. \A m \in Nat : r(m)[0] = v
      BY <1>4 DEF Iteration
    <3> QED
      BY <3>1
  <2>2. ASSUME NEW j \in Nat, j \in Same PROVE j + 1 \in Same
    <3>1. ASSUME NEW m \in Nat, j + 1 <= m PROVE r(m)[j + 1] = G[r(j)[j]]
      <4>1. j + 1 \in 1 .. m /\ j <= m /\ (j + 1) - 1 = j
        BY <3>1
      <4>2. r(m)[j + 1] = G[r(m)[j]]
        BY <1>4, <4>1 DEF Iteration
      <4> QED
        BY <2>2, <4>1, <4>2
    <3> QED
      BY <3>1
  <2>3. i \in Same
    <3> HIDE DEF Same
    <3> QED
      BY <2>1, <2>2, AllNaturals
  <2> QED
    BY <2>3
<1>6. Eq(g)
  <2>1. ASSUME NEW n \in Nat PROVE g[n] = IF n = 0 THEN v ELSE step(g[n - 1])
    <3>1. CASE n = 0
      BY <1>4, <3>1 DEF Iteration
    <3>2. CASE n # 0
      <4>1. n \in 1 .. n /\ n - 1 \in 0 .. n /\ n - 1 \in Nat
        BY <3>2
      <4>2. r(n)[n] = G[r(n)[n - 1]] /\ r(n)[n - 1] \in T
        BY <1>4, <4>1 DEF Iteration
      <4>3. r(n)[n - 1] = g[n - 1]
        BY <1>5, <4>1
      <4>4. g[n] = r(n)[n]
        OBVIOUS
      <4> HIDE DEF g
      <4> QED
        BY <1>3, <3>2, <4>2, <4>3, <4>4
    <3> QED
      BY <3>1, <3>2
  <2>2. g = [n \in Nat |-> g[n]]
    OBVIOUS
  <2> HIDE DEF g
  <2> QED
    BY <2>1, <2>2
<1>7. Eq(F)
  <2> HIDE DEF g, Eq
  <2> QED
    BY <1>6
<1> HIDE DEF F
<1>8. F[0] = v /\ \A n \in Nat : F[n + 1] = step(F[n])
  <2>1. \A n \in Nat : n + 1 \in Nat /\ n + 1 # 0 /\ (n + 1) - 1 = n
    OBVIOUS
  <2> QED
    BY <1>7, <2>1
<1> QED
  BY <1>1, <1>8 DEF step

\* A walk that has left R stays out of it.
LEMMA WalkLeaves ==
    ASSUME NEW R, NoBlock \notin R, NEW v, NEW n \in Nat, Walk(R, v)[n] \in R,
           NEW i \in 0 .. n
    PROVE  Walk(R, v)[i] \in R
<1> DEFINE w == Walk(R, v)
           P == {k \in Nat : w[i + k] \notin R}
<1> SUFFICES ASSUME w[i] \notin R PROVE FALSE
  OBVIOUS
<1>1. \A k \in Nat : w[k + 1] = IF w[k] \in R THEN View[w[k]].parent ELSE NoBlock
  BY WalkIs
<1> HIDE DEF w
<1>2. 0 \in P
  OBVIOUS
<1>3. ASSUME NEW k \in Nat, k \in P PROVE k + 1 \in P
  <2>1. i + k \in Nat /\ (i + k) + 1 = i + (k + 1)
    OBVIOUS
  <2>2. w[(i + k) + 1] = NoBlock
    BY <1>1, <1>3, <2>1
  <2> QED
    BY <2>1, <2>2
<1>4. n - i \in P
  <2> HIDE DEF P
  <2>1. n - i \in Nat
    OBVIOUS
  <2> QED
    BY <1>2, <1>3, <2>1, AllNaturals
<1>5. i + (n - i) = n
  OBVIOUS
<1> QED
  BY <1>4, <1>5 DEF w

\* A walk goes on from any block it passes as a walk from that block does.
LEMMA WalkFrom ==
    ASSUME NEW R, NEW v, NEW n \in Nat, NEW m \in Nat,
           NEW x, Walk(R, v)[n] = x
    PROVE  Walk(R, v)[n + m] = Walk(R, x)[m]
<1> DEFINE w == Walk(R, v)
           u == Walk(R, x)
           P == {k \in Nat : w[n + k] = u[k]}
<1>1. \A k \in Nat : w[k + 1] = IF w[k] \in R THEN View[w[k]].parent ELSE NoBlock
  BY WalkIs
<1>2. u[0] = x /\ \A k \in Nat : u[k + 1] = IF u[k] \in R THEN View[u[k]].parent ELSE NoBlock
  BY WalkIs
<1> HIDE DEF w, u
<1>3. 0 \in P
  <2>1. n + 0 = n /\ w[n] = x
    BY DEF w
  <2> QED
    BY <1>2, <2>1
<1>4. ASSUME NEW k \in Nat, k \in P PROVE k + 1 \in P
  <2>1. n + k \in Nat /\ (n + k) + 1 = n + (k + 1)
    OBVIOUS
  <2> QED
    BY <1>1, <1>2, <1>4, <2>1
<1>5. m \in P
  <2> HIDE DEF P
  <2> QED
    BY <1>3, <1>4, AllNaturals
<1> QED
  BY <1>5 DEF w, u

\* Two windows that both hold the n-th parent of v agree on it.
LEMMA WalksAgree ==
    ASSUME NEW R, NEW S, NoBlock \notin R, NoBlock \notin S, NEW v, NEW n \in Nat,
           Walk(R, v)[n] \in R, Walk(S, v)[n] \in S
    PROVE  Walk(R, v)[n] = Walk(S, v)[n]
<1> DEFINE w == Walk(R, v)
           u == Walk(S, v)
           P == {k \in Nat : k <= n => w[k] = u[k]}
<1>1. w[0] = v /\ \A k \in Nat : w[k + 1] = IF w[k] \in R THEN View[w[k]].parent ELSE NoBlock
  BY WalkIs
<1>2. u[0] = v /\ \A k \in Nat : u[k + 1] = IF u[k] \in S THEN View[u[k]].parent ELSE NoBlock
  BY WalkIs
<1>3. \A k \in 0 .. n : w[k] \in R /\ u[k] \in S
  BY WalkLeaves
<1> HIDE DEF w, u
<1>4. 0 \in P
  BY <1>1, <1>2
<1>5. ASSUME NEW k \in Nat, k \in P PROVE k + 1 \in P
  <2> SUFFICES ASSUME k + 1 <= n PROVE w[k + 1] = u[k + 1]
    OBVIOUS
  <2>1. k \in 0 .. n /\ w[k] = u[k]
    BY <1>5
  <2> QED
    BY <1>1, <1>2, <1>3, <2>1
<1>6. n \in P
  <2> HIDE DEF P
  <2> QED
    BY <1>4, <1>5, AllNaturals
<1> QED
  BY <1>6 DEF w, u

\* So two braids that know the ancestor of v at a height name the same block.
LEMMA AncestorsAgree ==
    ASSUME NEW b, NEW c, b.recs \in SUBSET Block, c.recs \in SUBSET Block,
           NEW v \in Block, NEW h \in Nat,
           AncestorAt(b, v, h) # NoBlock, AncestorAt(c, v, h) # NoBlock
    PROVE  AncestorAt(b, v, h) = AncestorAt(c, v, h)
<1> DEFINE up == View[v].height - h
<1>1. /\ up >= 0 /\ Walk(b.recs, v)[up] \in b.recs /\ AncestorAt(b, v, h) = Walk(b.recs, v)[up]
      /\ Walk(c.recs, v)[up] \in c.recs /\ AncestorAt(c, v, h) = Walk(c.recs, v)[up]
  BY AncestorIs
<1>2. up \in Nat /\ NoBlock \notin b.recs /\ NoBlock \notin c.recs
  BY <1>1, BlockFacts
<1> QED
  BY <1>1, <1>2, WalksAgree

\* An edge to the parent goes down one height (the height check of try_accept).
Climbs(b) ==
    \A e \in b.children :
        e[1] = View[e[2]].parent => View[e[2]].height = View[e[1]].height + 1

\* A candidate of the anchored fork choice has the anchor among its parents, as far
\* down as it is high.
LEMMA CandidatesDescend ==
    ASSUME NEW b, b.recs \in SUBSET Block, AnchorResident(b), Climbs(b),
           NEW k \in anchored_candidates(b)
    PROVE  LET a == fork_anchor(b)
           IN /\ View[k].height - View[a].height \in Nat
              /\ Walk(b.recs, k)[View[k].height - View[a].height] = a
<1> DEFINE a == fork_anchor(b)
           ha == View[a].height
           P == {x \in b.recs : /\ View[x].height - ha \in Nat
                                /\ Walk(b.recs, x)[View[x].height - ha] = a}
<1>1. a \in b.recs /\ ha \in Nat
  BY BlockFacts DEF AnchorResident
<1>2. fork_anchor(b) \in P
  <2>1. ha - ha = 0 /\ Walk(b.recs, a)[0] = a
    BY <1>1, WalkIs
  <2> HIDE DEF a
  <2> QED
    BY <1>1, <2>1 DEF a
<1> HIDE DEF a, ha
<1>3. ASSUME NEW x \in b.recs, View[x].parent \in P, <<View[x].parent, x>> \in b.children
      PROVE  x \in P
  <2> DEFINE p == View[x].parent
             n == View[p].height - ha
  <2>1. /\ p \in b.recs /\ n \in Nat /\ Walk(b.recs, p)[n] = a
        /\ View[p].height \in Nat /\ View[x].height \in Nat
    BY <1>3, BlockFacts
  <2>2. View[x].height = View[p].height + 1
    <3>1. <<p, x>>[1] = p /\ <<p, x>>[2] = x
      OBVIOUS
    <3> QED
      BY <1>3, <3>1 DEF Climbs
  <2>3. View[x].height - ha = 1 + n
    BY <1>1, <2>1, <2>2
  <2>4. Walk(b.recs, x)[1] = p
    <3>1. Walk(b.recs, x)[0] = x /\ Walk(b.recs, x)[0 + 1] = p
      BY WalkIs
    <3> QED
      BY <3>1
  <2> HIDE DEF n, p
  <2>5. Walk(b.recs, x)[1 + n] = a
    <3>1. 1 \in Nat /\ n \in Nat
      BY <2>1
    <3>2. Walk(b.recs, x)[1 + n] = Walk(b.recs, p)[n]
      BY <2>4, <3>1, WalkFrom
    <3> QED
      BY <2>1, <3>2
  <2> QED
    BY <2>1, <2>3, <2>5
<1>4. anchored_candidates(b) \subseteq P
  <2>1. P \in SUBSET b.recs
    OBVIOUS
  <2> HIDE DEF P
  <2> QED
    BY <1>2, <1>3, <2>1, AnchoredIn
<1> QED
  BY <1>4 DEF a, ha

\* Up to the height of a resident certificate the spine is the certificate's own
\* past, whatever the tip.
LEMMA SpineUnderCert ==
    ASSUME NEW b, Sound(b), CertForkChoice, b.certified \in b.recs, Climbs(b),
           NEW h \in Nat, h <= View[b.certified].height
    PROVE  spine_block_at(b, h) = AncestorAt(b, b.certified, h)
<1> DEFINE a == b.certified
           t == b.sel_tip
           n == View[t].height - View[a].height
           m == View[a].height - h
<1>1. /\ b \in BraidType /\ b.recs \in SUBSET Block /\ t = selected_tip(b)
      /\ AnchorResident(b) /\ fork_anchor(b) = a
  BY Fields DEF Sound, AnchorResident, fork_anchor
<1>2. t \in anchored_candidates(b) /\ t \in Block
  BY <1>1, SelectedTip DEF TipChoices
<1>3. n \in Nat /\ Walk(b.recs, t)[n] = a
  BY <1>1, <1>2, CandidatesDescend
<1>4. /\ a \in Block /\ View[a].height \in Nat /\ View[t].height \in Nat /\ t # NoBlock
      /\ m \in Nat
  BY <1>1, <1>2, BlockFacts
<1>5. View[t].height - h = n + m
  BY <1>4
<1>6. Walk(b.recs, t)[n + m] = Walk(b.recs, a)[m]
  <2>1. n \in Nat /\ m \in Nat
    BY <1>3, <1>4
  <2> HIDE DEF n, m, t, a
  <2> QED
    BY <1>3, <2>1, WalkFrom
<1>7. AncestorAt(b, t, h) = AncestorAt(b, a, h)
  <2>1. n + m >= 0 /\ m >= 0
    BY <1>3, <1>4
  <2> HIDE DEF n
  <2> QED
    BY <1>5, <1>6, <2>1, AncestorIs
<1> QED
  BY <1>4, <1>7 DEF spine_block_at

\* An admitted block is one above its parent, if that is resident.
LEMMA AdmittedClimbs ==
    ASSUME NEW b, Climbs(b), NEW v \in Block, Admission(b, v) = "Ok",
           NEW a, a.children = b.children \union ((Parents(v) \intersect b.recs) \X {v})
    PROVE  Climbs(a)
<1>1. View[v].height > 0 => known_height(b, View[v].parent) + 1 = View[v].height
  <2>1. Admission(b, v) # "Bad" /\ Admission(b, v) # "Missing"
    OBVIOUS
  <2> QED
    BY <2>1 DEF Admission
<1> SUFFICES ASSUME NEW e \in (Parents(v) \intersect b.recs) \X {v}, e[1] = View[e[2]].parent
             PROVE  View[e[2]].height = View[e[1]].height + 1
  BY DEF Climbs
<1>2. e[2] = v /\ e[1] \in Parents(v) /\ e[1] \in b.recs
  OBVIOUS
<1>3. View[v].height > 0
  BY <1>2, BlockFacts DEF Parents
<1>4. known_height(b, e[1]) = View[e[1]].height
  BY <1>2 DEF known_height
<1> QED
  BY <1>1, <1>2, <1>3, <1>4

LEMMA CascadeClimbs ==
    ASSUME NEW b \in BraidType, NEW v \in Block, Climbs(b)
    PROVE  Climbs(cascade_unpark(b, v))
<1> DEFINE b0    == [b EXCEPT !.waiters[v] = <<>>]
           P     == {s \in Cascades : Climbs(s.braid)}
           Q     == {c \in BraidType : Climbs(c)}
           start == [braid |-> b0, work |-> b.waiters[v]]
<1>1. start \in P
  <2>1. v \in Hash /\ <<>> \in Seq(Block) /\ b.waiters[v] \in Seq(Block)
    BY Fields, BlockFacts
  <2>2. b0 \in BraidType /\ b0.children = b.children
    BY <2>1 DEF BraidType
  <2> HIDE DEF b0
  <2> QED
    BY <2>1, <2>2 DEF Cascades, Climbs
<1>2. ASSUME NEW s \in P, s \notin Ended PROVE NextTurn[s] \in P
  <2> DEFINE c     == s.braid
             child == Head(s.work)
             taken == unpark_take(c, child)
             n     == NextTurn[s]
  <2>1. /\ s \in Cascades /\ c \in BraidType /\ child \in Block
        /\ Turned(s, n) /\ n \in Cascades /\ Climbs(c)
    BY <1>2, TurnIs, TurnsDescend DEF Descends
  <2>2. taken \in BraidType /\ taken.children = c.children /\ taken.recs = c.recs
    BY <2>1, UnparkIs DEF SameWindow
  <2>3. Climbs(taken)
    BY <2>1, <2>2 DEF Climbs
  <2>4. CASE Woken(s, n)
    <3>1. n.braid.children = taken.children \union ((Parents(child) \intersect taken.recs) \X {child})
      BY <1>2, <2>1, <2>2, <2>4, WokenIs
    <3>2. Admission(taken, child) = "Ok"
      BY <2>4 DEF Woken
    <3> HIDE DEF taken, child, n
    <3> QED
      BY <2>1, <2>3, <3>1, <3>2, AdmittedClimbs DEF n
  <2>5. CASE n.braid = ParkOn(taken, child, MissingOf(taken, child))
    <3>1. n.braid.children = taken.children
      BY <2>1, <2>2, <2>5, ParkOnIs DEF SameWindow
    <3> QED
      BY <2>1, <2>3, <3>1 DEF Climbs
  <2>6. CASE n.braid = c \/ n.braid = taken
    BY <2>1, <2>3, <2>6
  <2> QED
    BY <2>1, <2>4, <2>5, <2>6 DEF Turned
<1>3. \A s \in P : s \in Ended => s.braid \in Q
  BY DEF Cascades
<1>4. cascade_unpark(b, v) \in Q
  <2>1. P \in SUBSET Cascades
    OBVIOUS
  <2> HIDE DEF P, Q
  <2> QED
    BY <1>1, <1>2, <1>3, <2>1, CascadeKeeps
<1> QED
  BY <1>4

LEMMA InsertClimbs ==
    ASSUME NEW b \in BraidType, NEW v \in Block, Climbs(b)
    PROVE  Climbs(insert(b, v))
<1> DEFINE i == insert(b, v)
<1>1. CASE i.children = b.children
  BY <1>1 DEF Climbs
<1>2. CASE i = cascade_unpark(anchor_trusted(b, v, View[v].height), v)
  <2> DEFINE t == anchor_trusted(b, v, View[v].height)
  <2>1. t \in BraidType /\ t.children = b.children
    BY BlockFacts, AnchorTrustedIs, AnchorTrustedOrder
  <2> HIDE DEF t
  <2> QED
    BY <1>2, <2>1, CascadeClimbs DEF Climbs, t
<1>3. CASE Admission(b, v) = "Ok" /\ i = cascade_unpark(Accept(b, v), v)
  <2>1. Accept(b, v) \in BraidType /\ Climbs(Accept(b, v))
    BY <1>3, AcceptIs, AdmittedClimbs
  <2> QED
    BY <1>3, <2>1, CascadeClimbs
<1>4. CASE i = ParkOn(b, v, MissingOf(b, v))
  <2>1. i.children = b.children
    BY <1>4, ParkOnIs DEF SameWindow
  <2> QED
    BY <1>1, <2>1
<1>5. CASE b.pending # <<>> /\ i = ParkOn(evict_oldest_parked(b), v, MissingOf(b, v))
  <2> DEFINE e == evict_oldest_parked(b)
  <2>1. e \in BraidType /\ e.children = b.children
    BY <1>5, EvictOldestIs DEF SameWindow
  <2> HIDE DEF e
  <2>2. i.children = b.children
    BY <1>5, <2>1, ParkOnIs DEF SameWindow, e
  <2> QED
    BY <1>1, <2>2
<1> HIDE DEF i
<1>6. \/ i = b
      \/ i = cascade_unpark(anchor_trusted(b, v, View[v].height), v)
      \/ Admission(b, v) = "Ok" /\ i = cascade_unpark(Accept(b, v), v)
      \/ i = ParkOn(b, v, MissingOf(b, v))
      \/ b.pending # <<>> /\ i = ParkOn(evict_oldest_parked(b), v, MissingOf(b, v))
  BY InsertIs, Zenon DEF i
<1> QED
  BY <1>1, <1>2, <1>3, <1>4, <1>5, <1>6 DEF i

LEMMA DrainClimbs ==
    ASSUME NEW b \in BraidType, Climbs(b)
    PROVE  Climbs(drain_ordered(b))
<1> DEFINE e == evict_stale_pending(b)
           f == computed_final(e)
           d == drain_ordered(b)
<1>1. e \in BraidType /\ e.children = b.children
  <2>1. Forgets(b, e)
    BY EvictStaleIs
  <2> HIDE DEF e
  <2> QED
    BY <2>1 DEF Forgets, SameWindow
<1>2. f \in Nat \union {Unknown}
  BY <1>1, LineParts
<1>3. d = IF f = Unknown THEN e ELSE EmitThrough(cleanup(e, f), f)
  BY DEF drain_ordered
<1> HIDE DEF e, f, d
<1>4. CASE f = Unknown
  BY <1>1, <1>3, <1>4 DEF Climbs, d
<1>5. CASE f \in Nat
  <2> DEFINE m == IF e.last_heavy = 0 \/ f >= e.last_heavy + CleanupStride
                  THEN cleanup_heavy(e, f) ELSE e
             c == cleanup_light(m, f)
  <2>1. cleanup(e, f) = c
    BY DEF cleanup
  <2>2. m \in BraidType /\ m.children \subseteq e.children
    BY <1>1, <1>5, CleanupHeavyIs
  <2> HIDE DEF m
  <2>3. c \in BraidType /\ c.children = m.children
    BY <1>5, <2>2, CleanupLightIs DEF Forgets, SameWindow
  <2> HIDE DEF c
  <2>4. EmitThrough(c, f).children = c.children
    BY <2>3, EmitThroughIs DEF Emits
  <2>5. f # Unknown
    BY <1>5 DEF Unknown
  <2> QED
    BY <1>1, <1>3, <2>1, <2>2, <2>3, <2>4, <2>5 DEF Climbs, d
<1> QED
  BY <1>2, <1>4, <1>5

LEMMA ClimbsStep ==
    ASSUME WindowInv, Climbs(braid), [Next]_vars
    PROVE  Climbs(braid')
<1>1. braid \in BraidType
  BY DEF WindowInv, Sound
<1>2. ASSUME NEW v \in Block, Insert(v) PROVE Climbs(braid')
  BY <1>1, <1>2, InsertClimbs DEF Insert, Becomes
<1>3. ASSUME NEW v \in CaughtUp, CatchUp(v) PROVE Climbs(braid')
  <2> DEFINE m == AnchorMerges(braid, v)
  <2>1. v \in Block
    BY BraidAssumption
  <2>2. m \in BraidType /\ m.children = braid.children
    BY <1>1, <2>1, AnchorMergesIs
  <2>3. braid' = insert(m, v)
    BY <1>3 DEF CatchUp, Becomes
  <2> HIDE DEF m
  <2> QED
    BY <2>1, <2>2, <2>3, InsertClimbs DEF Climbs
<1>4. ASSUME NEW c \in Certifiable, SetCertified(c) PROVE Climbs(braid')
  <2>1. c \in Block
    BY BraidAssumption
  <2>2. braid'.children = braid.children
    BY <1>1, <1>4, <2>1, SetCertifiedIs DEF SetCertified, Becomes
  <2> QED
    BY <2>2 DEF Climbs
<1>5. CASE Drain
  BY <1>1, <1>5, DrainClimbs DEF Drain, Becomes
<1>6. CASE UNCHANGED vars
  BY <1>6 DEF vars
<1> QED
  BY <1>2, <1>3, <1>4, <1>5, <1>6 DEF Next

\* Only set_certified touches the certificate.
LEMMA CertificateStep ==
    ASSUME WindowInv, [Next]_vars
    PROVE  \/ braid'.certified = braid.certified
           \/ \E c \in Certifiable : /\ braid' = set_certified(braid, c)
                                     /\ braid' # braid /\ braid'.certified = c
<1>1. braid \in BraidType
  BY DEF WindowInv, Sound
<1>2. ASSUME NEW v \in Block, Insert(v) PROVE braid'.certified = braid.certified
  BY <1>1, <1>2, InsertJoins DEF Insert, Becomes, Joins
<1>3. ASSUME NEW v \in CaughtUp, CatchUp(v) PROVE braid'.certified = braid.certified
  <2> DEFINE m == AnchorMerges(braid, v)
  <2>1. v \in Block
    BY BraidAssumption
  <2>2. m \in BraidType /\ m.certified = braid.certified
    BY <1>1, <2>1, AnchorMergesIs
  <2>3. braid' = insert(m, v)
    BY <1>3 DEF CatchUp, Becomes
  <2> HIDE DEF m
  <2> QED
    BY <2>1, <2>2, <2>3, InsertJoins DEF Joins
<1>4. ASSUME NEW c \in Certifiable, SetCertified(c), braid' # braid
      PROVE  braid' = set_certified(braid, c) /\ braid'.certified = c
  <2>1. c \in Block
    BY BraidAssumption
  <2> QED
    BY <1>1, <1>4, <2>1, SetCertifiedIs DEF SetCertified, Becomes
<1>5. CASE Drain
  BY <1>1, <1>5, DrainIs DEF Drain, Becomes
<1>6. CASE UNCHANGED vars
  BY <1>6 DEF vars
<1> QED
  BY <1>2, <1>3, <1>4, <1>5, <1>6 DEF Next

\* Below a block of v's past, v's past is that block's past.
LEMMA AncestorOf ==
    ASSUME NEW b, NEW v \in Block, NEW x \in Block, NEW h \in Nat, h <= View[x].height,
           AncestorAt(b, v, View[x].height) = x
    PROVE  AncestorAt(b, v, h) = AncestorAt(b, x, h)
<1> DEFINE n == View[v].height - View[x].height
           m == View[x].height - h
           w == Walk(b.recs, v)
<1>1. x # NoBlock /\ View[v].height \in Nat /\ View[x].height \in Nat
  BY BlockFacts
<1>2. n >= 0 /\ w[n] = x
  BY <1>1, AncestorIs
<1>3. n \in Nat /\ m \in Nat
  BY <1>1, <1>2
<1>4. View[v].height - h = n + m
  BY <1>1
<1>5. w[n + m] = Walk(b.recs, x)[m]
  <2> HIDE DEF n, m
  <2> QED
    BY <1>2, <1>3, WalkFrom
<1>6. n + m >= 0 /\ m >= 0
  BY <1>3
<1> HIDE DEF n
<1> QED
  BY <1>4, <1>5, <1>6, AncestorIs

\* A certificate that moves the anchor keeps the old one in its past.
LEMMA FollowedDescends ==
    ASSUME NEW b, Sound(b), CertForkChoice, ~DepthFinality, CertGrace = 0, FinalQuorum <= 1,
           Climbs(b), b.certified \in b.recs, View[b.certified].height > 0,
           NEW c \in Block, set_certified(b, c) # b
    PROVE  AncestorAt(b, c, View[b.certified].height) = b.certified
<1> DEFINE a  == b.certified
           ha == View[a].height
           hc == View[c].height
           t  == b.sel_tip
<1>1. /\ b \in BraidType /\ a \in Block /\ a # NoBlock /\ ha \in Nat /\ hc \in Nat /\ ha > 0
      /\ t \in Block \union {NoBlock}
  BY Fields, BlockFacts DEF Sound
<1>2. ha <= tip_height(b) /\ tip_height(b) \in Int
  BY <1>1, CertUnderTip, TipHeightIs
<1>3. hc > ha
  BY <1>1, SetCertifiedIs
<1>4. spine_block_at(b, hc) = c \/ ~ConflictsWithFinal(b, c)
  BY DEF set_certified
<1>5. spine_block_at(b, ha) = a
  <2>1. AncestorAt(b, a, ha) = a
    <3>1. ha - ha = 0 /\ Walk(b.recs, a)[0] = a
      BY <1>1, WalkIs
    <3> HIDE DEF a
    <3> QED
      BY <3>1, AncestorIs DEF a
  <2> QED
    BY <1>1, <2>1, SpineUnderCert
<1>6. CASE spine_block_at(b, hc) = c
  <2>1. t \in Block /\ AncestorAt(b, t, hc) = c /\ AncestorAt(b, t, ha) = a
    BY <1>1, <1>5, <1>6, BlockFacts DEF spine_block_at
  <2>2. AncestorAt(b, t, ha) = AncestorAt(b, c, ha)
    <3> HIDE DEF t
    <3> QED
      BY <1>1, <1>3, <2>1, AncestorOf
  <2> QED
    BY <2>1, <2>2
<1>7. CASE ~ConflictsWithFinal(b, c)
  <2>1. CertLine(b) = ha
    <3>1. ~(ha > tip_height(b))
      BY <1>1, <1>2
    <3>2. cert_line_held(b, ha) = ha
      <4> HIDE DEF ha
      <4> QED
        BY <1>1, HeldLine
    <3> QED
      BY <1>1, <3>1, <3>2 DEF CertLine
  <2>2. computed_final(b) = ha
    <3>1. DepthLine(b) = Unknown /\ quorum_final(b) = Unknown
      BY <1>1, QuorumLine DEF DepthLine
    <3>2. /\ computed_final(b) \in {CertLine(b), DepthLine(b), quorum_final(b)}
          /\ computed_final(b) >= CertLine(b)
      BY <1>1, LineParts
    <3> QED
      BY <1>1, <2>1, <3>1, <3>2 DEF Unknown
  <2>3. Max({computed_final(b), 0}) = ha
    BY <1>1, <2>2, MaxOfTwo
  <2>4. spine_block_at(b, ha) = AncestorAt(b, c, ha)
    <3> HIDE DEF ha
    <3> QED
      BY <1>1, <1>7, <2>3 DEF ConflictsWithFinal, ha
  <2> QED
    BY <1>5, <2>4
<1> QED
  BY <1>4, <1>6, <1>7

\* Fork choice by certificate never moves the spine at a height a drain has frozen
\* (set_certified, anchored_candidates, spine_block_at).  A certificate outside the
\* past of the last one is refused at the line, which is where the last one is: so
\* it must be without grace and with no other rule, and certificates start above
\* height 0, because no certificate is refused while the line is there.
THEOREM SpineStays ==
    ASSUME CertForkChoice, ~DepthFinality, CertGrace = 0, FinalQuorum <= 1,
           \A c \in Certifiable : View[c].height > 0
    PROVE  Spec => FrozenSpineStable
<1> DEFINE Inv == /\ WindowInv /\ HoldsLine(braid, drainLine) /\ Climbs(braid)
                  /\ braid.certified \in Certifiable \union {NoBlock}
<1>1. Init => Inv
  <2> SUFFICES ASSUME Init PROVE Inv
    OBVIOUS
  <2>1. braid.children = {} /\ braid.certified = NoBlock
    BY DEF Init
  <2> QED
    BY <2>1, InitIsSound, InitHoldsLine DEF Climbs
<1>2. Inv /\ [Next]_vars => Inv'
  <2> SUFFICES ASSUME Inv, [Next]_vars PROVE Inv'
    OBVIOUS
  <2>1. WindowInv' /\ HoldsLine(braid', drainLine') /\ Climbs(braid')
    BY WindowStep, HoldsLineStep, ClimbsStep
  <2>2. braid'.certified \in Certifiable \union {NoBlock}
    BY CertificateStep
  <2> QED
    BY <2>1, <2>2, Zenon
<1>3. ASSUME Inv, Inv', [Next]_vars, NEW h \in 0 .. drainLine,
             spine_block_at(braid, h) # NoBlock, spine_block_at(braid', h) # NoBlock
      PROVE  spine_block_at(braid, h) = spine_block_at(braid', h)
  <2> DEFINE b == braid
             n == braid'
             a == braid.certified
  <2>1. /\ Sound(b) /\ b \in BraidType /\ drainLine \in Nat \union {Unknown}
        /\ HoldsLine(b, drainLine) /\ Climbs(b)
    BY <1>3 DEF WindowInv, Sound
  <2>2. h \in Nat /\ drainLine \in Nat /\ h <= drainLine
    BY <2>1 DEF Unknown
  <2>3. a # NoBlock /\ a \in b.recs /\ View[a].height >= drainLine
    BY <2>1, <2>2 DEF HoldsLine, Unknown
  <2>4. /\ a \in Block /\ View[a].height \in Nat /\ h <= View[a].height /\ View[a].height > 0
    BY <1>3, <2>1, <2>2, <2>3, Fields, BlockFacts
  <2>5. spine_block_at(b, h) = AncestorAt(b, a, h)
    BY <2>1, <2>2, <2>3, <2>4, SpineUnderCert
  <2>6. /\ Sound(n) /\ Climbs(n) /\ n \in BraidType
        /\ n.certified # NoBlock => n.certified \in n.recs
    <3>1. (WindowInv /\ HoldsLine(braid, drainLine) /\ Climbs(braid))'
      BY <1>3
    <3> QED
      BY <3>1 DEF WindowInv, Sound, HoldsLine
  <2>7. b.recs \in SUBSET Block /\ n.recs \in SUBSET Block
    BY <2>1, <2>6, Fields
  <2>8. CASE n.certified = a
    <3>1. spine_block_at(n, h) = AncestorAt(n, a, h)
      BY <2>2, <2>3, <2>4, <2>6, <2>8, SpineUnderCert
    <3> QED
      BY <1>3, <2>2, <2>4, <2>5, <2>7, <3>1, AncestorsAgree
  <2>9. CASE n.certified # a
    <3>1. PICK c \in Certifiable : n = set_certified(b, c) /\ n # b /\ n.certified = c
      BY <1>3, <2>9, CertificateStep
    <3>2. c \in Block /\ c # NoBlock /\ View[c].height \in Nat
      BY BraidAssumption, BlockFacts
    <3>3. n.recs = b.recs /\ View[c].height > View[a].height
      <4> HIDE DEF n
      <4> QED
        BY <2>1, <2>3, <3>1, <3>2, SetCertifiedIs
    <3>4. spine_block_at(n, h) = AncestorAt(n, c, h)
      BY <2>2, <2>4, <2>6, <3>1, <3>2, <3>3, SpineUnderCert
    <3>5. AncestorAt(n, c, h) = AncestorAt(b, c, h)
      BY <1>3, <3>3, AncestorIs
    <3>6. AncestorAt(b, c, View[a].height) = a
      BY <2>1, <2>3, <2>4, <3>1, <3>2, FollowedDescends
    <3>7. AncestorAt(b, c, h) = AncestorAt(b, a, h)
      BY <2>2, <2>4, <3>2, <3>6, AncestorOf
    <3> QED
      BY <2>5, <3>4, <3>5, <3>7
  <2> QED
    BY <2>8, <2>9
<1>4. Inv /\ Inv' /\ [Next]_vars
        => [\A h \in 0 .. drainLine :
              LET before == spine_block_at(braid, h)
                  after  == spine_block_at(braid', h)
              IN before # NoBlock /\ after # NoBlock
                   => \/ before = after
                      \/ /\ CertGrace > 0 /\ h > computed_final(braid)
                         /\ braid'.certified # braid.certified]_vars
  <2> HIDE DEF Inv
  <2> QED
    BY <1>3
<1> HIDE DEF Inv
<1> QED
  BY <1>1, <1>2, <1>4, PTL DEF Spec, FrozenSpineStable

=============================================================================
