------------------------- MODULE SpineFinalityProofs -------------------------
(***************************************************************************)
(* Proofs about SpineFinality for every committee, block tree and set of    *)
(* producing or restarting validators.                                      *)
(***************************************************************************)
EXTENDS SpineFinality, CommitteeProofs

-----------------------------------------------------------------------------
(* The block tree.                                                          *)

\* A chain is made of blocks and runs from its block to the root.
LEMMA ChainOf ==
    ASSUME NEW b \in Block
    PROVE  /\ Chain[b] \in SUBSET Block /\ Chain[b] \subseteq Block
           /\ b \in Chain[b] /\ Root \in Chain[b] /\ Root \in Block
           /\ Height[b] \in Nat /\ Height[Root] = 0
  BY ChainAssumption, SpineAssumption

\* An ancestor's chain is inside, its height below.
LEMMA Ancestor ==
    ASSUME NEW b \in Block, NEW a \in Chain[b]
    PROVE  /\ a \in Block /\ Chain[a] \subseteq Chain[b]
           /\ Height[a] <= Height[b] /\ (Height[a] = Height[b] => a = b)
  BY ChainAssumption

\* Two ancestors of one block are on one branch, by height.
LEMMA OneChain ==
    ASSUME NEW b \in Block, NEW a \in Chain[b], NEW c \in Chain[b],
           Height[c] <= Height[a]
    PROVE  c \in Chain[a]
  BY ChainAssumption

\* A chain has one block at each height.
LEMMA BlockAtIs ==
    ASSUME NEW b \in Block, NEW h \in 0 .. Height[b]
    PROVE  /\ BlockAt(b, h) \in Chain[b] /\ BlockAt(b, h) \in Block
           /\ Height[BlockAt(b, h)] = h
           /\ \A a \in Chain[b] : Height[a] = h => a = BlockAt(b, h)
<1>1. \E a \in Chain[b] : Height[a] = h
  BY ChainAssumption
<1>2. BlockAt(b, h) \in Chain[b] /\ Height[BlockAt(b, h)] = h
  BY <1>1 DEF BlockAt
<1>3. ASSUME NEW a \in Chain[b], Height[a] = h
      PROVE  a = BlockAt(b, h)
  <2>1. a \in Chain[BlockAt(b, h)]
    BY <1>2, <1>3, OneChain, Ancestor, ChainOf
  <2> QED
    BY <1>2, <1>3, <2>1, Ancestor
<1> QED
  BY <1>2, <1>3, Ancestor

\* The order of the fork choice: greater height, then smaller hash.
Beats(b, c) == Height[b] > Height[c] \/ (Height[b] = Height[c] /\ b <= c)

LEMMA BeatsOrder ==
    ASSUME NEW a \in Block, NEW b \in Block, NEW c \in Block
    PROVE  /\ Beats(a, a)
           /\ Beats(a, b) \/ Beats(b, a)
           /\ Beats(a, b) /\ Beats(b, c) => Beats(a, c)
<1>1. /\ a \in Nat /\ b \in Nat /\ c \in Nat
      /\ Height[a] \in Nat /\ Height[b] \in Nat /\ Height[c] \in Nat
  BY ChainOf, SpineAssumption
<1> QED
  BY <1>1 DEF Beats

\* Among finitely many blocks one beats all: the least set without one would have
\* one again after a block is taken away.
LEMMA BestExists ==
    ASSUME NEW W \in SUBSET Block, W # {}
    PROVE  \E b \in W : \A c \in W : Beats(b, c)
<1> DEFINE Best(T) == \E b \in T : \A c \in T : Beats(b, c)
           Bad == {k \in Nat : \E T \in SUBSET Block :
                       T # {} /\ Cardinality(T) = k /\ ~Best(T)}
<1>1. \A T \in SUBSET Block : IsFiniteSet(T) /\ Cardinality(T) \in Nat
  BY SpineAssumption, FS_Subset, FS_CardinalityType
<1> SUFFICES ASSUME ~Best(W)
             PROVE  FALSE
  OBVIOUS
<1>2. Cardinality(W) \in Bad
  BY <1>1
<1>3. PICK k \in Bad : \A j \in Bad : k <= j
  BY <1>2, LeastNatural, Bad \in SUBSET Nat
<1>4. PICK T \in SUBSET Block : T # {} /\ Cardinality(T) = k /\ ~Best(T)
  BY <1>3
<1>5. PICK x \in T : TRUE
  BY <1>4
<1> DEFINE U == T \ {x}
<1>6. Cardinality(U) = k - 1 /\ k \in Nat
  BY <1>1, <1>3, <1>4, <1>5, FS_RemoveElement
<1>7. U \in SUBSET Block /\ Cardinality(U) \in Nat
  BY <1>1
<1>8. CASE U = {}
  <2>1. T = {x} /\ x \in Block
    BY <1>5, <1>8
  <2>2. Best(T)
    BY <2>1, BeatsOrder
  <2> QED
    BY <2>2, <1>4
<1>9. CASE U # {}
  <2>1. Best(U)
    <3>1. SUFFICES ASSUME ~Best(U) PROVE FALSE
      OBVIOUS
    <3>2. k - 1 \in Bad
      BY <3>1, <1>6, <1>7, <1>9
    <3> QED
      BY <3>2, <1>3, <1>6
  <2>2. PICK b \in U : \A c \in U : Beats(b, c)
    BY <2>1
  <2>3. b \in Block /\ x \in Block /\ T = U \union {x}
    BY <1>5
  <2>4. CASE Beats(b, x)
    BY <2>2, <2>3, <2>4, <1>4
  <2>5. CASE Beats(x, b)
    <3>1. \A c \in U : Beats(x, c)
      BY <2>2, <2>3, <2>5, BeatsOrder
    <3>2. \A c \in T : Beats(x, c)
      BY <3>1, <2>3, BeatsOrder
    <3> QED
      BY <3>2, <1>5, <1>4
  <2> QED
    BY <2>3, <2>4, <2>5, BeatsOrder
<1> QED
  BY <1>8, <1>9

-----------------------------------------------------------------------------
(* One node.                                                                *)

\* TypeOK for one node.
NodeOK(n) ==
    /\ n \in NodeType
    /\ {Root, n.certified} \subseteq n.window
    /\ \A b \in n.window : Chain[b] \subseteq n.window

LEMMA TypeOKIs ==
    TypeOK <=> /\ node \in [Honest -> NodeType]
               /\ signed \subseteq Validator \X Block
               /\ \A v \in Honest : NodeOK(node[v])
  BY DEF TypeOK, NodeOK

LEMMA NodeFields ==
    ASSUME NEW n, NodeOK(n)
    PROVE  /\ n.window \in SUBSET Block /\ n.certified \in Block /\ n.settled \in Block
           /\ n.last \in Block /\ n.newest \in Block
           /\ Root \in n.window /\ n.certified \in n.window
           /\ \A b \in n.window : Chain[b] \subseteq n.window
  BY DEF NodeOK, NodeType

\* The fork choice selects a block of the window, above the certificate if it steers.
LEMMA TipIs ==
    ASSUME NEW n, NodeOK(n)
    PROVE  /\ Tip(n) \in n.window /\ Tip(n) \in Block
           /\ Chain[Tip(n)] \subseteq n.window /\ Height[Tip(n)] \in Nat
           /\ CertForkChoice => n.certified \in Chain[Tip(n)]
<1> DEFINE cands == Candidates(n)
<1>1. n.certified \in cands /\ cands \in SUBSET Block /\ cands \subseteq n.window
  BY NodeFields, ChainOf DEF Candidates
<1>2. \E b \in cands : \A c \in cands : Beats(b, c)
  BY <1>1, BestExists
<1>3. Tip(n) = CHOOSE b \in cands : \A c \in cands : Beats(b, c)
  BY DEF Tip, Beats
<1>4. Tip(n) \in cands
  BY <1>2, <1>3
<1>5. CertForkChoice => n.certified \in Chain[Tip(n)]
  BY <1>4 DEF Candidates
<1> HIDE DEF cands
<1> QED
  BY <1>1, <1>4, <1>5, NodeFields, ChainOf

\* The finality line is at most the tip's height, and the certificate's own height
\* when certificates alone make it.
LEMMA LineIs ==
    ASSUME NEW n, NodeOK(n)
    PROVE  /\ Line(n) \in 0 .. Height[Tip(n)]
           /\ CertForkChoice /\ ~DepthFinality => Line(n) = Height[n.certified]
<1>1. Height[Tip(n)] \in Nat /\ Height[n.certified] \in Nat /\ FinalDepth \in Nat
  BY TipIs, NodeFields, ChainOf, SpineAssumption
<1>2. CertForkChoice => Height[n.certified] <= Height[Tip(n)]
  BY TipIs, Ancestor
<1> QED
  BY <1>1, <1>2 DEF Line

\* A block of the spine at or below the tip's height.
LEMMA SpineBlock ==
    ASSUME NEW n, NodeOK(n), NEW h \in 0 .. Height[Tip(n)]
    PROVE  /\ BlockAt(Tip(n), h) \in Chain[Tip(n)] /\ BlockAt(Tip(n), h) \in Block
           /\ BlockAt(Tip(n), h) \in n.window
           /\ Height[BlockAt(Tip(n), h)] = h
  BY TipIs, BlockAtIs

-----------------------------------------------------------------------------
(* The handlers keep a node well formed.                                    *)

LEMMA InsertOK ==
    ASSUME NEW n, NodeOK(n), NEW b \in Block, Admissible(n, b)
    PROVE  /\ NodeOK(insert(n, b))
           /\ insert(n, b) = [n EXCEPT !.window = n.window \union {b}]
<1> DEFINE m == insert(n, b)
<1>1. m = [n EXCEPT !.window = n.window \union {b}]
  BY DEF insert
<1>2. m \in NodeType
  BY <1>1, NodeFields DEF NodeType, NodeOK
<1>3. m.window = n.window \union {b} /\ m.certified = n.certified
  BY <1>1 DEF NodeOK, NodeType
<1>4. Chain[b] \ {b} \subseteq n.window
  BY DEF Admissible
<1> HIDE DEF m
<1>5. \A c \in m.window : Chain[c] \subseteq m.window
  BY <1>3, <1>4, NodeFields
<1> QED
  BY <1>1, <1>2, <1>3, <1>5, NodeFields DEF NodeOK, m

\* A vote and a newer certificate touch neither window nor certificate.
LEMMA VotedOK ==
    ASSUME NEW n, NodeOK(n), NEW t \in Block, NEW c \in Block
    PROVE  LET m == [Voted(n, t) EXCEPT !.newest = c]
           IN  /\ NodeOK(m) /\ m.newest = c /\ m.last = IF t = Root THEN n.last ELSE t
               /\ m.settled = n.settled /\ m.certified = n.certified
<1> DEFINE l == IF t = Root THEN n.last ELSE t
           m == [Voted(n, t) EXCEPT !.newest = c]
<1>1. l \in Block
  BY NodeFields
<1>2. m = [n EXCEPT !.last = l, !.newest = c]
  BY DEF Voted, NodeOK, NodeType
<1>3. m \in NodeType /\ m.window = n.window
  BY <1>1, <1>2 DEF NodeOK, NodeType
<1>4. m.newest = c /\ m.last = l /\ m.settled = n.settled /\ m.certified = n.certified
  BY <1>2 DEF NodeOK, NodeType
<1> HIDE DEF m
<1>5. NodeOK(m)
  BY <1>3, <1>4, NodeFields DEF NodeOK
<1> QED
  BY <1>4, <1>5 DEF m

\* The certificate moves to a block of the window or stays.
LEMMA GateOK ==
    ASSUME NEW n, NodeOK(n), NEW c \in Block
    PROVE  /\ NodeOK(set_certified(n, c))
           /\ \/ set_certified(n, c) = n
              \/ set_certified(n, c) = [n EXCEPT !.certified = c]
<1>1. CASE set_certified(n, c) = n
  BY <1>1
<1>2. CASE set_certified(n, c) # n
  <2> DEFINE m == [n EXCEPT !.certified = c]
  <2>1. /\ set_certified(n, c) = m
        /\ c \in Chain[Tip(n)] \/ c \in n.window
    BY <1>2 DEF set_certified
  <2>2. c \in n.window
    BY <2>1, TipIs
  <2>3. m \in NodeType /\ m.window = n.window /\ m.certified = c
    BY DEF NodeOK, NodeType
  <2> HIDE DEF m
  <2>4. NodeOK(m)
    BY <2>2, <2>3, NodeFields DEF NodeOK
  <2> QED
    BY <2>1, <2>4 DEF m
<1> QED
  BY <1>1, <1>2

\* The drain moves the settled tip along the spine, at most to the line.
LEMMA DrainOK ==
    ASSUME NEW n, NodeOK(n), NEW m \in dag_drain_apply(n)
    PROVE  /\ NodeOK(m)
           /\ \/ m = n
              \/ \E h \in 0 .. Line(n) :
                    /\ m = [n EXCEPT !.settled = BlockAt(Tip(n), h)]
                    /\ n.settled \in Chain[Tip(n)] /\ Height[n.settled] <= h
<1>1. CASE m = n
  BY <1>1
<1>2. CASE m # n
  <2>1. PICK h \in Height[n.settled] .. Line(n) :
          /\ n.settled \in Chain[Tip(n)]
          /\ m = [n EXCEPT !.settled = BlockAt(Tip(n), h)]
    BY <1>2 DEF dag_drain_apply
  <2>2. Height[n.settled] \in Nat /\ Height[Tip(n)] \in Nat
    BY NodeFields, ChainOf, TipIs
  <2>3. h \in 0 .. Line(n) /\ h \in 0 .. Height[Tip(n)] /\ Height[n.settled] <= h
    BY <2>1, <2>2, LineIs
  <2>4. BlockAt(Tip(n), h) \in Block
    BY <2>3, SpineBlock
  <2>5. m \in NodeType /\ m.window = n.window /\ m.certified = n.certified
    BY <2>1, <2>4 DEF NodeOK, NodeType
  <2>6. NodeOK(m)
    BY <2>5, NodeFields DEF NodeOK
  <2> QED
    BY <2>1, <2>3, <2>6
<1> QED
  BY <1>1, <1>2

\* A rebuilt braid is the settled chain.
LEMMA SeedOK ==
    ASSUME NEW n, NodeOK(n)
    PROVE  /\ NodeOK(dag_seed_braid(n))
           /\ dag_seed_braid(n).settled = n.settled
           /\ dag_seed_braid(n).last = n.last /\ dag_seed_braid(n).newest = n.newest
           /\ AnchorSeed /\ CertForkChoice => dag_seed_braid(n).certified = n.settled
<1> DEFINE m == dag_seed_braid(n)
<1>0. n.settled \in Block /\ Root \in Block
  BY NodeFields, ChainOf
<1>1. /\ m \in NodeType /\ m.window = Chain[n.settled]
      /\ m.certified = IF AnchorSeed /\ CertForkChoice THEN n.settled ELSE Root
      /\ m.settled = n.settled /\ m.last = n.last /\ m.newest = n.newest
  BY <1>0, ChainOf DEF dag_seed_braid, NodeOK, NodeType
<1> HIDE DEF m
<1>2. NodeOK(m)
  BY <1>0, <1>1, ChainOf, Ancestor DEF NodeOK
<1> QED
  BY <1>1, <1>2 DEF m

\* Catch-up extends the settled chain and offers its blocks, ancestors first.
LEMMA CaughtUpOK ==
    ASSUME NEW n, NodeOK(n), NEW top \in Block
    PROVE  /\ NodeOK(CaughtUp(n, top))
           /\ CaughtUp(n, top).last = n.last /\ CaughtUp(n, top).newest = n.newest
<1> DEFINE joins(b) == \A a \in Chain[b] :
                          Height[a] >= Height[n.settled] => a \in n.window \/ Height[a] > Line(n)
           m == CaughtUp(n, top)
<1>1. m = [n EXCEPT !.settled = top,
                    !.window = n.window \union {b \in Chain[top] : joins(b)}]
  BY DEF CaughtUp
<1>2. m.window = n.window \union {b \in Chain[top] : joins(b)} /\ m.certified = n.certified
  BY <1>1 DEF NodeOK, NodeType
<1>3. n.window \union {b \in Chain[top] : joins(b)} \in SUBSET Block
  BY NodeFields, ChainOf
<1>4. m \in NodeType /\ m.last = n.last /\ m.newest = n.newest
  BY <1>1, <1>3 DEF NodeOK, NodeType
<1>5. ASSUME NEW b \in m.window, NEW a \in Chain[b]
      PROVE  a \in m.window
  <2>1. CASE b \in n.window
    BY <2>1, <1>2, NodeFields
  <2>2. CASE b \in Chain[top] /\ joins(b)
    <3>1. a \in Chain[top] /\ Chain[a] \subseteq Chain[b]
      BY <2>2, Ancestor
    <3>2. joins(a)
      BY <2>2, <3>1
    <3> QED
      BY <3>1, <3>2, <1>2
  <2> QED
    BY <2>1, <2>2, <1>2
<1> HIDE DEF m
<1> QED
  BY <1>2, <1>4, <1>5, NodeFields DEF NodeOK, m

LEMMA ReseededOK ==
    ASSUME NEW n, NodeOK(n)
    PROVE  /\ NodeOK(Reseeded(n))
           /\ Reseeded(n).last = n.last /\ Reseeded(n).newest = n.newest
  BY SeedOK DEF Reseeded

-----------------------------------------------------------------------------
(* Settlement under the certificate: with certificates alone making finality *)
(* and steering the fork choice, and braids rebuilt on the settled tip, what *)
(* a node settled stays under its certificate, hence on its spine.           *)

Anchored(n) == n.settled \in Chain[n.certified]

CertificatesDecide == CertForkChoice /\ ~DepthFinality /\ AnchorSeed /\ ~RangeSync

LEMMA AnchoredTip ==
    ASSUME NEW n, NodeOK(n), Anchored(n), CertificatesDecide
    PROVE  n.settled \in Chain[Tip(n)]
  BY TipIs, Ancestor DEF Anchored, CertificatesDecide

\* A raised certificate is above the old one on the spine; a followed one holds the
\* block of our spine at the line, which is the old certificate.
LEMMA GateRaises ==
    ASSUME NEW n, NodeOK(n), NEW c \in Block, CertificatesDecide,
           set_certified(n, c) # n
    PROVE  n.certified \in Chain[c]
<1> DEFINE a == n.certified
           tip == Tip(n)
<1>1. /\ a \in Block /\ a \in Chain[tip] /\ tip \in Block /\ Height[a] \in Nat
      /\ Height[c] \in Nat
  BY NodeFields, TipIs, ChainOf DEF CertificatesDecide
<1>2. /\ Height[a] < Height[c]
      /\ c \in Chain[tip] \/ ~ConflictsWithFinal(n, c)
  BY DEF set_certified, Considered
<1>3. CASE c \in Chain[tip]
  BY <1>1, <1>2, <1>3, OneChain
<1>4. CASE ~ConflictsWithFinal(n, c)
  <2>1. Line(n) = Height[a]
    BY LineIs DEF CertificatesDecide
  <2>2. CASE Height[a] = 0
    <3>1. Root \in Chain[a] /\ Height[Root] = 0
      BY <1>1, ChainOf
    <3>2. a = Root
      BY <1>1, <2>2, <3>1, Ancestor
    <3> QED
      BY <3>2, ChainOf
  <2>3. CASE Height[a] > 0
    <3>1. BlockAt(tip, Height[a]) = BlockAt(c, Height[a])
      BY <1>4, <2>1, <2>3 DEF ConflictsWithFinal
    <3>2. a = BlockAt(tip, Height[a])
      BY <1>1, BlockAtIs, Ancestor, ChainOf
    <3>3. BlockAt(c, Height[a]) \in Chain[c]
      BY <1>1, <1>2, BlockAtIs
    <3> QED
      BY <3>1, <3>2, <3>3
  <2> QED
    BY <1>1, <2>2, <2>3
<1> QED
  BY <1>2, <1>3, <1>4

LEMMA GateAnchored ==
    ASSUME NEW n, NodeOK(n), NEW c \in Block, Anchored(n), CertificatesDecide
    PROVE  /\ Anchored(set_certified(n, c))
           /\ set_certified(n, c).settled = n.settled
<1>1. CASE set_certified(n, c) = n
  BY <1>1
<1>2. CASE set_certified(n, c) # n
  <2>1. set_certified(n, c) = [n EXCEPT !.certified = c]
    BY <1>2, GateOK
  <2>2. set_certified(n, c).certified = c /\ set_certified(n, c).settled = n.settled
    BY <2>1 DEF NodeOK, NodeType
  <2>3. n.certified \in Chain[c] /\ n.settled \in Chain[n.certified]
    BY <1>2, GateRaises DEF Anchored
  <2> QED
    BY <2>2, <2>3, Ancestor DEF Anchored
<1> QED
  BY <1>1, <1>2

LEMMA DrainAnchored ==
    ASSUME NEW n, NodeOK(n), NEW m \in dag_drain_apply(n), Anchored(n), CertificatesDecide
    PROVE  Anchored(m) /\ n.settled \in Chain[m.settled]
<1>1. CASE m = n
  BY <1>1, NodeFields, ChainOf
<1>2. ASSUME NEW h \in 0 .. Line(n),
             m = [n EXCEPT !.settled = BlockAt(Tip(n), h)],
             n.settled \in Chain[Tip(n)], Height[n.settled] <= h
      PROVE  Anchored(m) /\ n.settled \in Chain[m.settled]
  <2> DEFINE b == BlockAt(Tip(n), h)
  <2>1. m.settled = b /\ m.certified = n.certified
    BY <1>2 DEF NodeOK, NodeType
  <2>2. Line(n) = Height[n.certified] /\ h \in 0 .. Height[Tip(n)]
    BY LineIs, TipIs DEF CertificatesDecide
  <2>3. b \in Chain[Tip(n)] /\ Height[b] = h
    BY <2>2, SpineBlock
  <2>4. n.certified \in Chain[Tip(n)] /\ Tip(n) \in Block /\ Height[n.certified] \in Nat
    BY TipIs, NodeFields, ChainOf DEF CertificatesDecide
  <2>5. b \in Chain[n.certified]
    BY <2>2, <2>3, <2>4, OneChain
  <2>6. n.settled \in Chain[b]
    BY <1>2, <2>3, <2>4, OneChain
  <2> QED
    BY <2>1, <2>5, <2>6 DEF Anchored
<1> QED
  BY <1>1, <1>2, DrainOK

LEMMA SeedAnchored ==
    ASSUME NEW n, NodeOK(n), CertificatesDecide
    PROVE  Anchored(dag_seed_braid(n))
  BY SeedOK, NodeFields, ChainOf DEF Anchored, CertificatesDecide

-----------------------------------------------------------------------------
(* The vote.                                                                *)

\* A vote is higher than the last one and extends it, or stands on one branch with a
\* certificate the voter knows that is not lower than its last vote.
Justified(n, t) ==
    t # Root =>
        /\ Height[t] > Height[n.last]
        /\ \/ n.last \in Chain[t]
           \/ /\ n.newest # Root /\ Height[n.newest] >= Height[n.last]
              /\ \E p \in Block : t \in Chain[p] /\ n.newest \in Chain[p]

LEMMA VoteIs ==
    ASSUME NEW n, NodeOK(n), NEW t \in spine_vote(n)
    PROVE  /\ t \in Block
           /\ t # Root => /\ t \in Chain[Tip(n)]
                          /\ Height[t] > Height[n.last] /\ extends(n)
<1>1. CASE t = Root
  BY <1>1, SpineAssumption
<1>2. CASE t # Root
  <2>1. extends(n) /\ \E h \in Due(n) : t = BlockAt(Tip(n), h)
    BY <1>2 DEF spine_vote
  <2>2. PICK h \in Due(n) : t = BlockAt(Tip(n), h)
    BY <2>1
  <2>3. h \in 0 .. Height[Tip(n)] /\ h > Height[n.last]
    BY TipIs DEF Due
  <2> QED
    BY <2>1, <2>2, <2>3, SpineBlock
<1> QED
  BY <1>1, <1>2

LEMMA VoteJustified ==
    ASSUME NEW n, NodeOK(n), NEW t \in spine_vote(n), Anchored(n), CertificatesDecide
    PROVE  Justified(n, t)
<1> SUFFICES ASSUME t # Root
             PROVE  /\ Height[t] > Height[n.last]
                    /\ \/ n.last \in Chain[t]
                       \/ /\ n.newest # Root /\ Height[n.newest] >= Height[n.last]
                          /\ \E p \in Block : t \in Chain[p] /\ n.newest \in Chain[p]
  BY DEF Justified
<1>1. /\ t \in Chain[Tip(n)] /\ Height[t] > Height[n.last] /\ extends(n)
      /\ Tip(n) \in Block /\ n.last \in Block
      /\ Height[t] \in Nat /\ Height[n.last] \in Nat
  BY VoteIs, TipIs, NodeFields, ChainOf
<1>2. CASE n.last \in Chain[Tip(n)]
  BY <1>1, <1>2, OneChain
<1>3. CASE n.last \in Chain[n.settled]
  BY <1>1, <1>2, <1>3, AnchoredTip, Ancestor
<1>4. CASE /\ n.newest # Root /\ Height[n.newest] >= Height[n.last]
           /\ n.newest \in Chain[Tip(n)]
  BY <1>1, <1>4
<1> QED
  BY <1>1, <1>2, <1>3, <1>4 DEF extends

-----------------------------------------------------------------------------
(* What an event does to its node.                                          *)

\* Certifiable blocks only become more.
LEMMA CertifiableGrows ==
    ASSUME NEW S \in SUBSET (Validator \X Block), NEW T \in SUBSET (Validator \X Block),
           S \subseteq T
    PROVE  Certifiable(S) \subseteq Certifiable(T) /\ Certifiable(T) \subseteq Block \ {Root}
<1> SUFFICES ASSUME NEW b \in Certifiable(S)
             PROVE  b \in Certifiable(T)
  BY DEF Certifiable
<1> DEFINE A == {v \in Validator : <<v, b>> \in S}
           C == {v \in Validator : <<v, b>> \in T}
<1>1. A \subseteq C /\ IsFiniteSet(C) /\ IsFiniteSet(A)
  BY SpineAssumption, FS_Subset
<1>2. Cardinality(A) <= Cardinality(C) /\ Cardinality(A) \in Nat /\ Cardinality(C) \in Nat
  BY <1>1, FS_Subset, FS_CardinalityType
<1>3. Cardinality(A) >= Quorum /\ b \in Block \ {Root}
  BY DEF Certifiable
<1>4. Quorum \in Int
  BY SpineAssumption, CommitteeSize DEF Quorum
<1>5. Cardinality(C) >= Quorum
  BY <1>2, <1>3, <1>4
<1> QED
  BY <1>3, <1>5 DEF Certifiable

LEMMA LearnableIs ==
    ASSUME NEW n, NodeOK(n), NEW S, NEW c \in Learnable(n, S)
    PROVE  c \in Block /\ c \in {n.newest} \union Certifiable(S)
  BY NodeFields DEF Learnable, Certifiable

LEMMA GateKeeps ==
    ASSUME NEW n, NodeOK(n)
    PROVE  /\ NodeOK(apply_finality_gate(n))
           /\ apply_finality_gate(n).last = n.last
           /\ apply_finality_gate(n).newest = n.newest
           /\ apply_finality_gate(n).certified \in {n.certified, n.newest}
<1>1. n.newest \in Block
  BY NodeFields
<1>2. NodeOK(apply_finality_gate(n))
  BY <1>1, GateOK DEF apply_finality_gate
<1>3. \/ apply_finality_gate(n) = n
      \/ apply_finality_gate(n) = [n EXCEPT !.certified = n.newest]
  BY <1>1, GateOK DEF apply_finality_gate
<1> QED
  BY <1>2, <1>3 DEF NodeOK, NodeType

LEMMA DrainKeeps ==
    ASSUME NEW n, NodeOK(n), NEW m \in dag_drain_apply(n)
    PROVE  /\ NodeOK(m) /\ m.last = n.last /\ m.newest = n.newest
           /\ m.certified = n.certified
<1>1. NodeOK(m) /\ (m = n \/ \E b : m = [n EXCEPT !.settled = b])
  BY DrainOK
<1> QED
  BY <1>1 DEF NodeOK, NodeType

LEMMA InsertKeeps ==
    ASSUME NEW n, NodeOK(n), NEW b \in Block, Admissible(n, b)
    PROVE  /\ NodeOK(insert(n, b)) /\ insert(n, b).last = n.last
           /\ insert(n, b).newest = n.newest /\ insert(n, b).settled = n.settled
           /\ insert(n, b).certified = n.certified
  BY InsertOK DEF NodeOK, NodeType

LEMMA GateAnchors ==
    ASSUME NEW n, NodeOK(n), Anchored(n), CertificatesDecide
    PROVE  /\ Anchored(apply_finality_gate(n))
           /\ apply_finality_gate(n).settled = n.settled
  BY NodeFields, GateAnchored DEF apply_finality_gate

\* An event of v: v votes t (Root: no vote) and its node becomes m.
Effect(v, t, m) ==
    /\ node' = [node EXCEPT ![v] = m] /\ signed' = Signed(v, t)
    /\ NodeOK(m) /\ t \in Block
    /\ m.last = IF t = Root THEN node[v].last ELSE t
    /\ m.newest \in {Root, node[v].newest} \union Certifiable(signed')

\* What it is when certificates decide: the settled chain grows under the certificate.
AnchoredEffect(v, t, m) ==
    /\ Anchored(m) /\ Justified(node[v], t)
    /\ node[v].settled \in Chain[m.settled]
    /\ m.certified \in {node[v].certified, node[v].settled, m.newest}

Event(v) ==
    \E t \in Block : \E m \in NodeType :
        /\ Effect(v, t, m)
        /\ CertificatesDecide /\ Anchored(node[v]) => AnchoredEffect(v, t, m)

LEMMA OnBlockEvent ==
    ASSUME TypeOK, NEW v \in Honest, NEW b \in Block, OnBlock(v, b)
    PROVE  Event(v)
<1> DEFINE n == node[v]
           in == insert(n, b)
<1>1. NodeOK(n) /\ Admissible(n, b)
  BY TypeOKIs DEF OnBlock
<1>2. /\ NodeOK(in) /\ in.last = n.last /\ in.newest = n.newest
      /\ in.settled = n.settled /\ in.certified = n.certified
  BY <1>1, InsertKeeps
<1>3. PICK t \in spine_vote(in) :
        /\ signed' = Signed(v, t)
        /\ \E c \in Learnable(in, signed') :
              \E m \in dag_drain_apply(apply_finality_gate([Voted(in, t) EXCEPT !.newest = c])) :
                  node' = [node EXCEPT ![v] = m]
  BY DEF OnBlock
<1>4. PICK c \in Learnable(in, signed') :
        \E m \in dag_drain_apply(apply_finality_gate([Voted(in, t) EXCEPT !.newest = c])) :
            node' = [node EXCEPT ![v] = m]
  BY <1>3
<1> DEFINE vd == [Voted(in, t) EXCEPT !.newest = c]
           gd == apply_finality_gate(vd)
<1>5. PICK m \in dag_drain_apply(gd) : node' = [node EXCEPT ![v] = m]
  BY <1>4
<1> HIDE DEF n, in
<1>6. t \in Block /\ c \in Block /\ c \in {in.newest} \union Certifiable(signed')
  BY <1>2, VoteIs, LearnableIs
<1>7. /\ NodeOK(vd) /\ vd.newest = c /\ vd.last = IF t = Root THEN in.last ELSE t
      /\ vd.settled = in.settled /\ vd.certified = in.certified
  BY <1>2, <1>6, VotedOK
<1> HIDE DEF vd
<1>8. /\ NodeOK(gd) /\ gd.last = vd.last /\ gd.newest = vd.newest
      /\ gd.certified \in {vd.certified, vd.newest}
  BY <1>7, GateKeeps
<1> HIDE DEF gd
<1>9. NodeOK(m) /\ m.last = gd.last /\ m.newest = gd.newest /\ m.certified = gd.certified
  BY <1>8, DrainKeeps
<1>10. Effect(v, t, m)
  BY <1>2, <1>3, <1>5, <1>6, <1>7, <1>8, <1>9 DEF Effect, n
<1>11. ASSUME CertificatesDecide, Anchored(n)
       PROVE  AnchoredEffect(v, t, m)
  <2>1. Anchored(in) /\ Anchored(vd)
    BY <1>2, <1>7, <1>11 DEF Anchored
  <2>2. Justified(n, t)
    BY <1>2, <1>11, <2>1, VoteJustified DEF Justified
  <2>3. Anchored(gd) /\ gd.settled = n.settled
    BY <1>2, <1>7, <1>11, <2>1, GateAnchors DEF gd
  <2>4. Anchored(m) /\ n.settled \in Chain[m.settled]
    BY <1>8, <1>11, <2>3, DrainAnchored
  <2> QED
    BY <1>2, <1>7, <1>8, <1>9, <2>2, <2>4 DEF AnchoredEffect, n
<1> QED
  BY <1>6, <1>9, <1>10, <1>11 DEF Event, NodeOK, n

LEMMA OnMintEvent ==
    ASSUME TypeOK, NEW v \in Honest, NEW b \in Block, OnMint(v, b)
    PROVE  Event(v)
<1> DEFINE n == node[v]
           new == insert(n, b)
<1>1. NodeOK(n) /\ Admissible(n, b)
  BY TypeOKIs DEF OnMint
<1>2. /\ NodeOK(new) /\ new.last = n.last /\ new.newest = n.newest
      /\ new.settled = n.settled /\ new.certified = n.certified
  BY <1>1, InsertKeeps
<1>3. PICK in \in dag_drain_apply(new) :
        \E t \in spine_vote(in) :
           /\ signed' = Signed(v, t)
           /\ \E c \in Learnable(in, signed') :
                node' = [node EXCEPT ![v] =
                   apply_finality_gate([Voted(in, t) EXCEPT !.newest = c])]
  BY DEF OnMint
<1>4. PICK t \in spine_vote(in) :
        /\ signed' = Signed(v, t)
        /\ \E c \in Learnable(in, signed') :
             node' = [node EXCEPT ![v] = apply_finality_gate([Voted(in, t) EXCEPT !.newest = c])]
  BY <1>3
<1>5. PICK c \in Learnable(in, signed') :
        node' = [node EXCEPT ![v] = apply_finality_gate([Voted(in, t) EXCEPT !.newest = c])]
  BY <1>4
<1> DEFINE vd == [Voted(in, t) EXCEPT !.newest = c]
           m == apply_finality_gate(vd)
<1> HIDE DEF n, new
<1>6. /\ NodeOK(in) /\ in.last = new.last /\ in.newest = new.newest
      /\ in.certified = new.certified
  BY <1>2, DrainKeeps
<1>7. t \in Block /\ c \in Block /\ c \in {in.newest} \union Certifiable(signed')
  BY <1>6, VoteIs, LearnableIs
<1>8. /\ NodeOK(vd) /\ vd.newest = c /\ vd.last = IF t = Root THEN in.last ELSE t
      /\ vd.settled = in.settled /\ vd.certified = in.certified
  BY <1>6, <1>7, VotedOK
<1>9. node' = [node EXCEPT ![v] = m]
  BY <1>5
<1> HIDE DEF vd
<1>10. /\ NodeOK(m) /\ m.last = vd.last /\ m.newest = vd.newest
       /\ m.certified \in {vd.certified, vd.newest}
  BY <1>8, GateKeeps
<1> HIDE DEF m
<1>11. Effect(v, t, m)
  BY <1>2, <1>4, <1>6, <1>7, <1>8, <1>9, <1>10 DEF Effect, n
<1>12. ASSUME CertificatesDecide, Anchored(n)
       PROVE  AnchoredEffect(v, t, m)
  <2>1. Anchored(new)
    BY <1>2, <1>12 DEF Anchored
  <2>2. Anchored(in) /\ n.settled \in Chain[in.settled]
    BY <1>2, <1>12, <2>1, DrainAnchored
  <2>3. Justified(n, t)
    BY <1>2, <1>6, <1>12, <2>2, VoteJustified DEF Justified
  <2>4. Anchored(vd)
    BY <1>8, <2>2 DEF Anchored
  <2>5. Anchored(m) /\ m.settled = vd.settled
    BY <1>8, <1>12, <2>4, GateAnchors DEF m
  <2> QED
    BY <1>2, <1>6, <1>8, <1>10, <2>2, <2>3, <2>5 DEF AnchoredEffect, n
<1> QED
  BY <1>7, <1>10, <1>11, <1>12 DEF Event, NodeOK, n

\* An event without a vote that gives node v the value m.
LEMMA SilentEvent ==
    ASSUME TypeOK, NEW v \in Honest, NEW m, NodeOK(m), m.last = node[v].last,
           m.newest \in {Root, node[v].newest} \union Certifiable(signed),
           node' = [node EXCEPT ![v] = m], UNCHANGED signed,
           CertificatesDecide /\ Anchored(node[v]) =>
               /\ Anchored(m) /\ node[v].settled \in Chain[m.settled]
               /\ m.certified \in {node[v].certified, node[v].settled, m.newest}
    PROVE  Event(v)
<1>1. Root \in Block /\ m \in NodeType
  BY SpineAssumption DEF NodeOK
<1>2. Effect(v, Root, m)
  BY <1>1 DEF Effect, Signed
<1>3. CertificatesDecide /\ Anchored(node[v]) => AnchoredEffect(v, Root, m)
  BY DEF AnchoredEffect, Justified
<1> QED
  BY <1>1, <1>2, <1>3 DEF Event

LEMMA OnFetchedEvent ==
    ASSUME TypeOK, NEW v \in Honest, NEW b \in Block, OnFetched(v, b)
    PROVE  Event(v)
<1> DEFINE n == node[v]
           m == insert(n, b)
<1>1. NodeOK(n) /\ Admissible(n, b) /\ node' = [node EXCEPT ![v] = m] /\ UNCHANGED signed
  BY TypeOKIs DEF OnFetched
<1>2. /\ NodeOK(m) /\ m.last = n.last /\ m.newest = n.newest
      /\ m.settled = n.settled /\ m.certified = n.certified
  BY <1>1, InsertKeeps
<1>3. n.settled \in Chain[n.settled]
  BY <1>1, NodeFields, ChainOf
<1>4. Anchored(n) => Anchored(m)
  BY <1>2 DEF Anchored
<1> HIDE DEF m
<1> QED
  BY <1>1, <1>2, <1>3, <1>4, SilentEvent

LEMMA OnVotesEvent ==
    ASSUME TypeOK, NEW v \in Honest, OnVotes(v)
    PROVE  Event(v)
<1> DEFINE n == node[v]
<1>1. NodeOK(n)
  BY TypeOKIs
<1>2. PICK c \in Learnable(n, signed) :
        LET gated == apply_finality_gate([n EXCEPT !.newest = c])
        IN  /\ \E m \in IF v \in Producer THEN dag_drain_apply(gated) ELSE {gated} :
                  node' = [node EXCEPT ![v] = m]
            /\ UNCHANGED signed
  BY DEF OnVotes
<1> DEFINE vd == [n EXCEPT !.newest = c]
           gd == apply_finality_gate(vd)
<1>3. UNCHANGED signed /\ \E m \in dag_drain_apply(gd) : node' = [node EXCEPT ![v] = m]
  BY <1>2 DEF dag_drain_apply
<1>4. PICK m \in dag_drain_apply(gd) : node' = [node EXCEPT ![v] = m]
  BY <1>3
<1> HIDE DEF n
<1>5. c \in Block /\ c \in {n.newest} \union Certifiable(signed)
  BY <1>1, LearnableIs
<1>6. /\ NodeOK(vd) /\ vd.newest = c /\ vd.last = n.last
      /\ vd.settled = n.settled /\ vd.certified = n.certified
  <2>1. /\ vd \in NodeType /\ vd.window = n.window /\ vd.newest = c /\ vd.last = n.last
        /\ vd.settled = n.settled /\ vd.certified = n.certified
    BY <1>1, <1>5 DEF NodeOK, NodeType
  <2> HIDE DEF vd
  <2> QED
    BY <1>1, <2>1 DEF NodeOK
<1> HIDE DEF vd
<1>7. /\ NodeOK(gd) /\ gd.last = vd.last /\ gd.newest = vd.newest
      /\ gd.certified \in {vd.certified, vd.newest}
  BY <1>6, GateKeeps
<1>8. ASSUME CertificatesDecide, Anchored(n)
      PROVE  Anchored(gd) /\ gd.settled = n.settled
  BY <1>6, <1>8, GateAnchors DEF Anchored
<1> HIDE DEF gd
<1>9. NodeOK(m) /\ m.last = gd.last /\ m.newest = gd.newest /\ m.certified = gd.certified
  BY <1>7, DrainKeeps
<1>10. ASSUME CertificatesDecide, Anchored(n)
       PROVE  Anchored(m) /\ n.settled \in Chain[m.settled]
  BY <1>7, <1>8, <1>10, DrainAnchored
<1> QED
  BY <1>3, <1>4, <1>5, <1>6, <1>7, <1>9, <1>10, SilentEvent DEF n

LEMMA OnRangeEvent ==
    ASSUME TypeOK, NEW v \in Honest, NEW w \in Honest, OnRange(v, w)
    PROVE  Event(v)
<1> DEFINE n == node[v]
<1>1. NodeOK(n) /\ NodeOK(node[w]) /\ RangeSync /\ UNCHANGED signed
  BY TypeOKIs DEF OnRange
<1>2. PICK top \in Chain[node[w].settled] :
        \E m \in dag_drain_apply(Reseeded(CaughtUp(n, top))) : node' = [node EXCEPT ![v] = m]
  BY DEF OnRange
<1> DEFINE cu == CaughtUp(n, top)
           rs == Reseeded(cu)
<1>3. PICK m \in dag_drain_apply(rs) : node' = [node EXCEPT ![v] = m]
  BY <1>2
<1> HIDE DEF n
<1>4. top \in Block
  BY <1>1, NodeFields, ChainOf
<1>5. NodeOK(cu) /\ cu.last = n.last /\ cu.newest = n.newest
  BY <1>1, <1>4, CaughtUpOK
<1> HIDE DEF cu
<1>6. NodeOK(rs) /\ rs.last = cu.last /\ rs.newest = cu.newest
  BY <1>5, ReseededOK
<1> HIDE DEF rs
<1>7. NodeOK(m) /\ m.last = rs.last /\ m.newest = rs.newest
  BY <1>6, DrainKeeps
<1>8. ~CertificatesDecide
  BY <1>1 DEF CertificatesDecide
<1> QED
  BY <1>1, <1>3, <1>5, <1>6, <1>7, <1>8, SilentEvent DEF n

\* A braid rebuilt from disk, with or without the certificates the observer held.
LEMMA SeedEvent ==
    ASSUME TypeOK, NEW v \in Honest, Restart(v) \/ ReAnchor(v)
    PROVE  Event(v)
<1> DEFINE n == node[v]
           sd == dag_seed_braid(n)
<1>1. NodeOK(n) /\ UNCHANGED signed
  BY TypeOKIs DEF Restart, ReAnchor
<1>2. /\ NodeOK(sd) /\ sd.settled = n.settled /\ sd.last = n.last /\ sd.newest = n.newest
      /\ CertificatesDecide => Anchored(sd) /\ sd.certified = n.settled
  BY <1>1, SeedOK, SeedAnchored DEF CertificatesDecide
<1>3. n.settled \in Chain[n.settled] /\ Root \in Block
  BY <1>1, NodeFields, ChainOf
<1>4. PICK m \in {sd, [sd EXCEPT !.newest = Root]} : node' = [node EXCEPT ![v] = m]
  BY DEF Restart, ReAnchor
<1> HIDE DEF n, sd
<1>5. /\ m \in NodeType /\ m.window = sd.window /\ m.certified = sd.certified
      /\ m.settled = sd.settled /\ m.last = sd.last /\ m.newest \in {Root, sd.newest}
  BY <1>2, <1>3, <1>4 DEF NodeOK, NodeType
<1>6. NodeOK(m)
  BY <1>2, <1>5 DEF NodeOK
<1>7. CertificatesDecide => Anchored(m)
  BY <1>2, <1>5 DEF Anchored
<1> QED
  BY <1>1, <1>2, <1>3, <1>4, <1>5, <1>6, <1>7, SilentEvent DEF n

\* Every step is an event of one honest validator.
LEMMA NextIsEvent ==
    ASSUME TypeOK, Next
    PROVE  \E v \in Honest : Event(v)
<1>1. ASSUME NEW v \in Honest, NEW b \in Block, OnBlock(v, b) PROVE Event(v)
  BY <1>1, OnBlockEvent
<1>2. ASSUME NEW v \in Producer, NEW b \in Block, OnMint(v, b)
      PROVE  v \in Honest /\ Event(v)
  BY <1>2, OnMintEvent, SpineAssumption
<1>3. ASSUME NEW v \in Honest, NEW b \in Block, OnFetched(v, b) PROVE Event(v)
  BY <1>3, OnFetchedEvent
<1>4. ASSUME NEW v \in Honest, OnVotes(v) PROVE Event(v)
  BY <1>4, OnVotesEvent
<1>5. ASSUME NEW v \in Honest, NEW w \in Honest, OnRange(v, w) PROVE Event(v)
  BY <1>5, OnRangeEvent
<1>6. ASSUME NEW v \in CrashProne, Restart(v) \/ ReAnchor(v)
      PROVE  v \in Honest /\ Event(v)
  BY <1>6, SeedEvent, SpineAssumption
<1> QED
  BY <1>1, <1>2, <1>3, <1>4, <1>5, <1>6 DEF Next

-----------------------------------------------------------------------------
(* Type correctness.                                                        *)

LEMMA InitOK ==
    ASSUME Init
    PROVE  /\ TypeOK
           /\ \A v \in Honest : /\ node[v].certified = Root /\ node[v].settled = Root
                                /\ node[v].last = Root /\ node[v].newest = Root
           /\ signed = Byzantine \X Block
<1> DEFINE n0 == [window |-> {Root}, certified |-> Root, settled |-> Root,
                  last |-> Root, newest |-> Root]
<1>1. Root \in Block /\ Byzantine \subseteq Validator
  BY SpineAssumption
<1>2. Chain[Root] \subseteq {Root}
  <2> SUFFICES ASSUME NEW a \in Chain[Root]
               PROVE  a = Root
    OBVIOUS
  <2>1. Height[a] <= 0 /\ a \in Block
    BY <1>1, Ancestor, ChainOf
  <2>2. Height[a] = Height[Root]
    BY <1>1, <2>1, ChainOf
  <2> QED
    BY <1>1, <2>2, Ancestor
<1>3. node = [v \in Honest |-> n0] /\ signed = Byzantine \X Block
  BY DEF Init
<1>4. n0 \in NodeType
  BY <1>1 DEF NodeType
<1>5. NodeOK(n0)
  BY <1>2, <1>4 DEF NodeOK
<1>6. \A v \in Honest : node[v] = n0
  BY <1>3
<1>7. TypeOK
  BY <1>1, <1>3, <1>4, <1>5, <1>6, TypeOKIs
<1> QED
  BY <1>3, <1>6, <1>7

LEMMA EventTypeOK ==
    ASSUME TypeOK, NEW v \in Honest, NEW t \in Block, NEW m, Effect(v, t, m)
    PROVE  /\ TypeOK' /\ signed \subseteq signed'
           /\ signed' \subseteq signed \union {<<v, t>>}
           /\ node'[v] = m /\ \A w \in Honest \ {v} : node'[w] = node[w]
<1>1. node' = [node EXCEPT ![v] = m] /\ NodeOK(m) /\ node \in [Honest -> NodeType]
  BY TypeOKIs DEF Effect
<1>2. m \in NodeType
  BY <1>1 DEF NodeOK
<1>3. node' \in [Honest -> NodeType]
  BY <1>1, <1>2
<1>4. node'[v] = m /\ \A w \in Honest \ {v} : node'[w] = node[w]
  BY <1>1
<1>5. \A w \in Honest : NodeOK(node'[w])
  BY <1>1, <1>4, TypeOKIs
<1>6. signed \subseteq signed' /\ signed' \subseteq signed \union {<<v, t>>}
  BY DEF Effect, Signed
<1>7. signed' \subseteq Validator \X Block
  BY <1>6, TypeOKIs DEF Honest
<1>8. TypeOK'
  BY <1>3, <1>5, <1>7 DEF TypeOK, NodeOK
<1> QED
  BY <1>4, <1>6, <1>8

\* The windows of all nodes stay closed under ancestors and hold the certificate, in
\* every configuration, through gossip, mint, by-hash fetch, catch-up and restart.
THEOREM TypeCorrect == Spec => []TypeOK
<1>1. Init => TypeOK
  BY InitOK
<1>2. TypeOK /\ [Next]_vars => TypeOK'
  <2>1. ASSUME TypeOK, Next PROVE TypeOK'
    BY <2>1, NextIsEvent, EventTypeOK DEF Event
  <2>2. ASSUME TypeOK, UNCHANGED vars PROVE TypeOK'
    BY <2>2 DEF vars, TypeOK
  <2> QED
    BY <2>1, <2>2
<1> QED
  BY <1>1, <1>2, PTL DEF Spec

-----------------------------------------------------------------------------
(* Settlement.                                                              *)

AnchoredInv == \A v \in Honest : Anchored(node[v])

LEMMA AnchoredInit ==
    ASSUME Init
    PROVE  AnchoredInv
  BY InitOK, SpineAssumption, ChainOf DEF AnchoredInv, Anchored

LEMMA AnchoredStep ==
    ASSUME TypeOK, AnchoredInv, CertificatesDecide, [Next]_vars
    PROVE  AnchoredInv'
<1>1. CASE Next
  <2>1. PICK v \in Honest, t \in Block, m \in NodeType :
          Effect(v, t, m) /\ AnchoredEffect(v, t, m)
    BY <1>1, NextIsEvent DEF Event, AnchoredInv
  <2>2. node'[v] = m /\ \A w \in Honest \ {v} : node'[w] = node[w]
    BY <2>1, EventTypeOK
  <2> QED
    BY <2>1, <2>2 DEF AnchoredInv, AnchoredEffect, Anchored
<1>2. CASE UNCHANGED vars
  BY <1>2 DEF vars, AnchoredInv, Anchored
<1> QED
  BY <1>1, <1>2

\* Where certificates decide, the chain a node settled never leaves the spine it
\* votes and mints on, whatever blocks and certificates reach it and however often
\* it rebuilds its braid.
THEOREM SettledStays ==
    ASSUME CertificatesDecide
    PROVE  Spec => []SettledOnSpine
<1>1. Init => AnchoredInv
  BY AnchoredInit
<1>2. TypeOK /\ AnchoredInv /\ [Next]_vars => AnchoredInv'
  BY AnchoredStep
<1>3. TypeOK /\ AnchoredInv => SettledOnSpine
  BY TypeOKIs, AnchoredTip DEF AnchoredInv, SettledOnSpine
<1>4. Spec => []TypeOK
  BY TypeCorrect
<1> QED
  BY <1>1, <1>2, <1>3, <1>4, PTL DEF Spec

-----------------------------------------------------------------------------
(* The lock.  A validator that leaves a branch it voted for does so under a *)
(* certificate of another one, whose honest voters then never complete a    *)
(* quorum for what was left: every vote is on the branch of its voter's     *)
(* last vote or for a block that is dead.                                   *)

FewByzantine == Cardinality(Byzantine) <= max_byzantine(Cardinality(Validator))

\* Honest validators that did not vote b and never will, their last vote being higher.
Passed(b) == {w \in Honest : <<w, b>> \notin signed /\ Height[node[w].last] >= Height[b]}

Dead(b) == Cardinality(Passed(b)) > max_byzantine(Cardinality(Validator))

NewestCertified == \A v \in Honest : node[v].newest \in {Root} \union Certifiable(signed)

VotesLocked ==
    \A v \in Honest, b \in Block : <<v, b>> \in signed =>
        /\ Height[b] <= Height[node[v].last]
        /\ b \in Chain[node[v].last] \/ Dead(b)

CertifiedFinal == \A v \in Honest : node[v].certified \in FinalBlocks

\* The inductive invariant.
LockInv ==
    /\ TypeOK /\ AnchoredInv
    /\ NewestCertified /\ VotesLocked /\ CertifiedFinal

\* Who voted c.
Voters(c) == {v \in Validator : <<v, c>> \in signed}

LEMMA CertifiableIs ==
    ASSUME NEW c \in Certifiable(signed)
    PROVE  /\ c \in Block /\ c # Root /\ Voters(c) \in SUBSET Validator
           /\ Cardinality(Voters(c)) >= availability_quorum(Cardinality(Validator))
  BY DEF Certifiable, Voters, Quorum

\* Nothing dead is certified.
LEMMA NotDead ==
    ASSUME NEW c \in Certifiable(signed)
    PROVE  ~Dead(c)
<1> SUFFICES ASSUME Dead(c) PROVE FALSE
  OBVIOUS
<1>1. /\ Passed(c) \in SUBSET Validator
      /\ Voters(c) \intersect Passed(c) = {}
  BY DEF Passed, Voters, Honest
<1> QED
  BY <1>1, CertifiableIs, Withheld, SpineAssumption DEF Dead

LEMMA DeadStays ==
    ASSUME TypeOK, NEW v \in Honest, NEW t \in Block, NEW m, Effect(v, t, m),
           Justified(node[v], t), NEW b \in Block, Dead(b)
    PROVE  Dead(b)'
<1>1. Passed(b) \subseteq Passed(b)'
  <2> SUFFICES ASSUME NEW w \in Passed(b)
               PROVE  <<w, b>> \notin signed' /\ Height[node'[w].last] >= Height[b]
    BY DEF Passed
  <2>1. /\ w \in Honest /\ <<w, b>> \notin signed /\ Height[node[w].last] >= Height[b]
        /\ Height[b] \in Nat /\ Height[node[w].last] \in Nat
    BY TypeOKIs, NodeFields, ChainOf DEF Passed
  <2>2. CASE w # v
    BY <2>1, <2>2, EventTypeOK
  <2>3. CASE w = v /\ t = Root
    BY <2>1, <2>3, EventTypeOK DEF Effect, Signed
  <2>4. CASE w = v /\ t # Root
    <3>1. Height[t] > Height[node[v].last] /\ node'[v].last = t
      BY <2>4, EventTypeOK DEF Effect, Justified
    <3>2. t # b /\ Height[t] \in Nat
      BY <2>1, <2>4, <3>1, ChainOf
    <3> QED
      BY <2>1, <2>4, <3>1, <3>2, EventTypeOK
  <2> QED
    BY <2>2, <2>3, <2>4
<1>2. IsFiniteSet(Passed(b)') /\ IsFiniteSet(Passed(b))
  BY SpineAssumption, FS_Subset, Passed(b) \in SUBSET Validator,
     Passed(b)' \in SUBSET Validator DEF Passed, Honest
<1>3. /\ Cardinality(Passed(b)) <= Cardinality(Passed(b)')
      /\ Cardinality(Passed(b)) \in Nat /\ Cardinality(Passed(b)') \in Nat
  BY <1>1, <1>2, FS_Subset, FS_CardinalityType
<1>4. max_byzantine(Cardinality(Validator)) \in Nat
  BY SpineAssumption, CommitteeSize
<1> QED
  BY <1>3, <1>4 DEF Dead

\* Once c is certified, every block not above it that is not on its branch is dead:
\* its honest voters either passed over the block or, having voted it too, left it.
LEMMA Outvoted ==
    ASSUME TypeOK, VotesLocked, FewByzantine, NEW c \in Certifiable(signed),
           NEW b \in Block, Height[b] <= Height[c], b \notin Chain[c]
    PROVE  Dead(b)
<1> DEFINE H == Voters(c) \ Byzantine
<1>1. c \in Block /\ Height[b] \in Nat /\ Height[c] \in Nat
  BY CertifiableIs, ChainOf
<1>2. ASSUME NEW w \in H
      PROVE  /\ w \in Honest /\ node[w].last \in Block
             /\ c \in Chain[node[w].last] /\ Height[b] <= Height[node[w].last]
  <2>1. w \in Honest /\ <<w, c>> \in signed
    BY DEF Voters, Honest
  <2>2. node[w].last \in Block /\ Height[node[w].last] \in Nat
    BY <2>1, TypeOKIs, NodeFields, ChainOf
  <2>3. Height[c] <= Height[node[w].last] /\ c \in Chain[node[w].last]
    BY <1>1, <2>1, NotDead DEF VotesLocked
  <2> QED
    BY <1>1, <2>1, <2>2, <2>3
<1>3. CASE \E w \in H : <<w, b>> \in signed
  <2>1. PICK w \in H : <<w, b>> \in signed
    BY <1>3
  <2>2. b \in Chain[node[w].last] \/ Dead(b)
    BY <1>2, <2>1 DEF VotesLocked
  <2>3. CASE b \in Chain[node[w].last]
    BY <1>2, <2>3, OneChain
  <2> QED
    BY <2>2, <2>3
<1>4. CASE \A w \in H : <<w, b>> \notin signed
  <2>1. H \subseteq Passed(b) /\ Passed(b) \in SUBSET Validator
    BY <1>1, <1>2, <1>4 DEF Passed, Honest
  <2>2. Cardinality(H) > max_byzantine(Cardinality(Validator))
    BY CertifiableIs, HonestQuorum, SpineAssumption DEF FewByzantine
  <2>3. IsFiniteSet(Passed(b)) /\ IsFiniteSet(H)
    BY <2>1, SpineAssumption, FS_Subset
  <2>4. /\ Cardinality(H) <= Cardinality(Passed(b))
        /\ Cardinality(H) \in Nat /\ Cardinality(Passed(b)) \in Nat
    BY <2>1, <2>3, FS_Subset, FS_CardinalityType
  <2>5. max_byzantine(Cardinality(Validator)) \in Nat
    BY SpineAssumption, CommitteeSize
  <2> HIDE DEF H
  <2> QED
    BY <2>2, <2>4, <2>5 DEF Dead
<1> QED
  BY <1>3, <1>4

LEMMA OneBranchIs ==
    ASSUME TypeOK, VotesLocked, FewByzantine
    PROVE  CertificatesOneBranch
<1> SUFFICES ASSUME NEW a \in Certifiable(signed), NEW b \in Certifiable(signed)
             PROVE  a \in Chain[b] \/ b \in Chain[a]
  BY DEF CertificatesOneBranch
<1>1. a \in Block /\ b \in Block /\ Height[a] \in Nat /\ Height[b] \in Nat
  BY CertifiableIs, ChainOf
<1>2. CASE Height[b] <= Height[a]
  BY <1>1, <1>2, Outvoted, NotDead
<1>3. CASE Height[a] <= Height[b]
  BY <1>1, <1>3, Outvoted, NotDead
<1> QED
  BY <1>1, <1>2, <1>3

\* Final blocks are closed under ancestors.
LEMMA FinalDown ==
    ASSUME NEW b \in FinalBlocks, TypeOK
    PROVE  b \in Block /\ Chain[b] \subseteq FinalBlocks
<1>1. CASE b = Root
  <2>1. Root \in Block
    BY SpineAssumption
  <2>2. ASSUME NEW a \in Chain[Root] PROVE a = Root
    <3>1. Height[a] <= 0 /\ Height[a] \in Nat
      BY <2>1, Ancestor, ChainOf
    <3> QED
      BY <2>1, <3>1, Ancestor, ChainOf
  <2> QED
    BY <1>1, <2>1, <2>2 DEF FinalBlocks
<1>2. ASSUME NEW c \in Certifiable(signed), b \in Chain[c]
      PROVE  b \in Block /\ Chain[b] \subseteq FinalBlocks
  BY <1>2, CertifiableIs, Ancestor DEF FinalBlocks
<1> QED
  BY <1>1, <1>2 DEF FinalBlocks

LEMMA FinalGrows ==
    ASSUME TypeOK, TypeOK', signed \subseteq signed'
    PROVE  /\ FinalBlocks \subseteq FinalBlocks'
           /\ Certifiable(signed) \subseteq Certifiable(signed')
           /\ {Root} \union Certifiable(signed') \subseteq FinalBlocks'
<1>1. /\ Certifiable(signed) \subseteq Certifiable(signed')
      /\ Certifiable(signed') \subseteq Block
  BY CertifiableGrows DEF TypeOK
<1> QED
  BY <1>1, ChainOf DEF FinalBlocks

-----------------------------------------------------------------------------
(* The invariant holds initially and each event keeps it.                   *)

LEMMA LockInit ==
    ASSUME Init
    PROVE  LockInv
<1>1. /\ TypeOK /\ signed = Byzantine \X Block
      /\ \A v \in Honest : node[v].certified = Root /\ node[v].newest = Root
  BY InitOK
<1>2. VotesLocked
  BY <1>1 DEF VotesLocked, Honest
<1>3. NewestCertified /\ CertifiedFinal
  BY <1>1 DEF NewestCertified, CertifiedFinal, FinalBlocks
<1> QED
  BY <1>1, <1>2, <1>3, AnchoredInit DEF LockInv

LEMMA VotesLockedStep ==
    ASSUME LockInv, FewByzantine, NEW v \in Honest, NEW t \in Block, NEW m,
           Effect(v, t, m), Justified(node[v], t)
    PROVE  VotesLocked'
<1>0. TypeOK /\ VotesLocked /\ NewestCertified
  BY DEF LockInv
<1>1. SUFFICES ASSUME NEW w \in Honest, NEW b \in Block, <<w, b>> \in signed'
               PROVE  /\ Height[b] <= Height[node'[w].last]
                      /\ b \in Chain[node'[w].last] \/ Dead(b)'
  BY DEF VotesLocked
<1>2. /\ node'[v] = m /\ \A u \in Honest \ {v} : node'[u] = node[u]
      /\ signed' \subseteq signed \union {<<v, t>>}
  BY <1>0, EventTypeOK
<1>3. Dead(b) => Dead(b)'
  BY <1>0, DeadStays
<1>4. <<w, b>> \in signed =>
          /\ Height[b] <= Height[node[w].last]
          /\ b \in Chain[node[w].last] \/ Dead(b)
  BY <1>0 DEF VotesLocked
<1>5. CASE w # v
  BY <1>1, <1>2, <1>3, <1>4, <1>5
<1>6. CASE w = v /\ t = Root
  <2>1. signed' = signed /\ m.last = node[v].last
    BY <1>6 DEF Effect, Signed
  <2> QED
    BY <1>1, <1>2, <1>3, <1>4, <1>6, <2>1
<1>7. CASE w = v /\ t # Root
  <2> DEFINE l == node[v].last
  <2>1. m.last = t /\ l \in Block /\ Height[t] > Height[l]
    BY <1>0, <1>7, TypeOKIs, NodeFields DEF Effect, Justified
  <2>2. Height[t] \in Nat /\ Height[l] \in Nat /\ Height[b] \in Nat
    BY <2>1, ChainOf
  <2>3. CASE b = t
    BY <1>2, <1>7, <2>1, <2>2, <2>3, ChainOf
  <2>4. CASE b # t
    <3>1. <<v, b>> \in signed
      BY <1>1, <1>2, <1>7, <2>4
    <3>2. Height[b] <= Height[l] /\ (b \in Chain[l] \/ Dead(b))
      BY <1>4, <1>7, <3>1
    <3>3. Height[b] <= Height[t]
      BY <2>1, <2>2, <3>2
    <3>4. CASE l \in Chain[t]
      BY <1>2, <1>3, <1>7, <2>1, <3>2, <3>3, <3>4, Ancestor
    <3>5. CASE /\ node[v].newest # Root /\ Height[node[v].newest] >= Height[l]
               /\ \E p \in Block : t \in Chain[p] /\ node[v].newest \in Chain[p]
      <4> DEFINE c == node[v].newest
      <4>1. c \in Certifiable(signed) /\ c \in Block /\ Height[c] \in Nat
        BY <1>0, <3>5, CertifiableIs, ChainOf DEF NewestCertified
      <4>2. PICK p \in Block : t \in Chain[p] /\ c \in Chain[p]
        BY <3>5
      <4>3. Height[b] <= Height[c]
        BY <2>2, <3>2, <3>5, <4>1
      <4>4. CASE b \in Chain[c]
        <5>1. b \in Chain[p]
          BY <4>2, <4>4, Ancestor
        <5>2. b \in Chain[t]
          BY <3>3, <4>2, <5>1, OneChain
        <5> QED
          BY <1>2, <1>7, <2>1, <3>3, <5>2
      <4>5. CASE b \notin Chain[c]
        <5>1. Dead(b)'
          BY <1>0, <1>3, <4>1, <4>3, <4>5, Outvoted
        <5> QED
          BY <1>2, <1>7, <2>1, <3>3, <5>1
      <4> QED
        BY <4>4, <4>5
    <3> QED
      BY <1>7, <3>4, <3>5 DEF Justified
  <2> QED
    BY <2>3, <2>4
<1> QED
  BY <1>5, <1>6, <1>7

LEMMA CertifiedFinalStep ==
    ASSUME LockInv, NEW v \in Honest, NEW t \in Block, NEW m,
           Effect(v, t, m), AnchoredEffect(v, t, m)
    PROVE  NewestCertified' /\ CertifiedFinal'
<1>0. TypeOK /\ AnchoredInv /\ NewestCertified /\ CertifiedFinal
  BY DEF LockInv
<1>1. /\ TypeOK' /\ signed \subseteq signed'
      /\ node'[v] = m /\ \A w \in Honest \ {v} : node'[w] = node[w]
  BY <1>0, EventTypeOK
<1>2. /\ FinalBlocks \subseteq FinalBlocks'
      /\ Certifiable(signed) \subseteq Certifiable(signed')
      /\ {Root} \union Certifiable(signed') \subseteq FinalBlocks'
  BY <1>0, <1>1, FinalGrows
<1>3. m.newest \in {Root} \union Certifiable(signed')
  BY <1>0, <1>2 DEF Effect, NewestCertified
<1>4. node[v].certified \in FinalBlocks /\ node[v].settled \in FinalBlocks
  BY <1>0, FinalDown DEF CertifiedFinal, AnchoredInv, Anchored
<1>5. m.certified \in FinalBlocks'
  BY <1>2, <1>3, <1>4 DEF AnchoredEffect
<1>6. NewestCertified'
  BY <1>0, <1>1, <1>2, <1>3 DEF NewestCertified
<1>7. CertifiedFinal'
  BY <1>0, <1>1, <1>2, <1>5 DEF CertifiedFinal
<1> QED
  BY <1>6, <1>7

LEMMA LockStep ==
    ASSUME LockInv, CertificatesDecide, FewByzantine, [Next]_vars
    PROVE  LockInv'
<1>0. TypeOK /\ AnchoredInv
  BY DEF LockInv
<1>1. CASE Next
  <2>1. PICK v \in Honest, t \in Block, m \in NodeType :
          Effect(v, t, m) /\ AnchoredEffect(v, t, m)
    BY <1>0, <1>1, NextIsEvent DEF Event, AnchoredInv
  <2>2. TypeOK' /\ AnchoredInv'
    BY <1>0, <2>1, EventTypeOK, AnchoredStep
  <2>3. VotesLocked'
    BY <2>1, VotesLockedStep DEF AnchoredEffect
  <2>4. NewestCertified' /\ CertifiedFinal'
    BY <2>1, CertifiedFinalStep
  <2> QED
    BY <2>2, <2>3, <2>4 DEF LockInv
<1>2. CASE UNCHANGED vars
  BY <1>2 DEF vars, LockInv, TypeOK, AnchoredInv, Anchored, NewestCertified, VotesLocked,
     CertifiedFinal, FinalBlocks, Dead, Passed
<1> QED
  BY <1>1, <1>2

LEMMA LockHolds ==
    ASSUME CertificatesDecide, FewByzantine
    PROVE  Spec => []LockInv
<1>1. Init => LockInv
  BY LockInit
<1>2. LockInv /\ [Next]_vars => LockInv'
  BY LockStep
<1> QED
  BY <1>1, <1>2, PTL DEF Spec

-----------------------------------------------------------------------------
(* What follows.                                                            *)

\* With at most f Byzantine members of n = 3f + 1, certificates of different heights
\* never contradict each other: all certified blocks are on one branch.
THEOREM OneBranchCertified ==
    ASSUME CertificatesDecide, FewByzantine
    PROVE  Spec => []CertificatesOneBranch
<1>1. Spec => []LockInv
  BY LockHolds
<1>2. LockInv => CertificatesOneBranch
  BY OneBranchIs DEF LockInv
<1> QED
  BY <1>1, <1>2, PTL

\* Any two final blocks are on one branch.
LEMMA FinalOneBranch ==
    ASSUME LockInv, FewByzantine, NEW a \in FinalBlocks, NEW b \in FinalBlocks
    PROVE  a \in Chain[b] \/ b \in Chain[a]
<1>0. TypeOK /\ CertificatesOneBranch
  BY OneBranchIs DEF LockInv
<1>1. a \in Block /\ b \in Block /\ Height[a] \in Nat /\ Height[b] \in Nat
  BY <1>0, FinalDown, ChainOf
<1>2. ASSUME NEW d \in Block, a \in Chain[d], b \in Chain[d]
      PROVE  a \in Chain[b] \/ b \in Chain[a]
  BY <1>1, <1>2, OneChain
<1>3. CASE a = Root \/ b = Root
  BY <1>1, <1>3, ChainOf
<1>4. ASSUME NEW c \in Certifiable(signed), NEW d \in Certifiable(signed),
             a \in Chain[c], b \in Chain[d]
      PROVE  a \in Chain[b] \/ b \in Chain[a]
  <2>1. c \in Block /\ d \in Block /\ (c \in Chain[d] \/ d \in Chain[c])
    BY <1>0, CertifiableIs DEF CertificatesOneBranch
  <2>2. (a \in Chain[d] /\ b \in Chain[d]) \/ (a \in Chain[c] /\ b \in Chain[c])
    BY <1>4, <2>1, Ancestor
  <2> QED
    BY <1>2, <2>1, <2>2
<1> QED
  BY <1>3, <1>4 DEF FinalBlocks

\* A node settles nothing that is not at or below a certificate.
THEOREM SettledFinal ==
    ASSUME CertificatesDecide, FewByzantine
    PROVE  Spec => []SettledIsFinal
<1>1. Spec => []LockInv
  BY LockHolds
<1>2. LockInv => SettledIsFinal
  BY FinalDown DEF LockInv, CertifiedFinal, AnchoredInv, Anchored, SettledIsFinal
<1> QED
  BY <1>1, <1>2, PTL

\* No certificate a node learns contradicts what it finalized, so the gate's refusal of
\* such a certificate is never taken.
THEOREM GateConsistent ==
    ASSUME CertificatesDecide, FewByzantine
    PROVE  Spec => []GateNeverConflicts
<1>1. Spec => []LockInv
  BY LockHolds
<1>2. ASSUME LockInv PROVE GateNeverConflicts
  <2> SUFFICES ASSUME NEW v \in Honest, Considered(node[v], node[v].newest),
                      ConflictsWithFinal(node[v], node[v].newest)
               PROVE  FALSE
    BY DEF GateNeverConflicts
  <2> DEFINE n == node[v]
             a == n.certified
             c == n.newest
  <2>0. TypeOK /\ NodeOK(n) /\ a \in FinalBlocks /\ c \in FinalBlocks
    <3>1. TypeOK /\ NodeOK(n) /\ a \in FinalBlocks /\ c \in {Root} \union Certifiable(signed)
      BY <1>2, TypeOKIs DEF LockInv, CertifiedFinal, NewestCertified
    <3> QED
      BY <3>1, CertifiableIs, ChainOf DEF FinalBlocks
  <2> HIDE DEF n
  <2>1. a \in Block /\ c \in Block /\ Height[a] \in Nat /\ Height[c] \in Nat
    BY <2>0, NodeFields, ChainOf
  <2>2. Height[a] < Height[c]
    BY DEF Considered, n
  <2>3. a \in Chain[c]
    BY <1>2, <2>0, <2>1, <2>2, FinalOneBranch, Ancestor
  <2>4. Line(n) = Height[a] /\ a \in Chain[Tip(n)] /\ Tip(n) \in Block
    BY <2>0, LineIs, TipIs DEF CertificatesDecide
  <2>5. a = BlockAt(Tip(n), Height[a]) /\ a = BlockAt(c, Height[a])
    BY <2>1, <2>2, <2>3, <2>4, BlockAtIs, Ancestor, ChainOf
  <2> QED
    BY <2>1, <2>2, <2>4, <2>5 DEF ConflictsWithFinal, n
<1> QED
  BY <1>1, <1>2, PTL

\* The lock that spine_vote documents is kept where no peer's range is applied: a vote
\* off the branch of the last one stands on a branch with a certificate not below it.
THEOREM LockKept ==
    ASSUME CertificatesDecide, FewByzantine
    PROVE  Spec => LockReleasedOnlyByCertificate
<1> DEFINE Kept(v) ==
             LET old == node[v].last
                 new == node'[v].last
             IN new = old \/ old \in Chain[new]
                  \/ \E c \in Certifiable(signed') : Height[c] >= Height[old]
                        /\ (c \in Chain[new] \/ new \in Chain[c])
<1>1. Spec => []LockInv
  BY LockHolds
<1>2. ASSUME LockInv, Next PROVE \A v \in Honest : Kept(v)
  <2>0. TypeOK /\ AnchoredInv /\ NewestCertified
    BY <1>2 DEF LockInv
  <2>1. PICK u \in Honest, t \in Block, m \in NodeType :
          Effect(u, t, m) /\ AnchoredEffect(u, t, m)
    BY <2>0, <1>2, NextIsEvent DEF Event, AnchoredInv
  <2>2. /\ TypeOK' /\ signed \subseteq signed'
        /\ node'[u] = m /\ \A w \in Honest \ {u} : node'[w] = node[w]
    BY <2>0, <2>1, EventTypeOK
  <2> SUFFICES Kept(u)
    BY <2>2
  <2>3. CASE t = Root
    BY <2>1, <2>2, <2>3 DEF Effect
  <2>4. CASE t # Root
    <3> DEFINE old == node[u].last
               c == node[u].newest
    <3>1. node'[u].last = t
      BY <2>1, <2>2, <2>4 DEF Effect
    <3>2. CASE old \in Chain[t]
      BY <3>1, <3>2
    <3>3. CASE /\ c # Root /\ Height[c] >= Height[old]
               /\ \E p \in Block : t \in Chain[p] /\ c \in Chain[p]
      <4>1. c \in Certifiable(signed') /\ c \in Block
        BY <2>0, <2>2, <3>3, FinalGrows, CertifiableIs DEF NewestCertified
      <4>2. c \in Chain[t] \/ t \in Chain[c]
        BY <3>3, <4>1, OneChain, ChainOf
      <4> QED
        BY <3>1, <3>3, <4>1, <4>2
    <3> QED
      BY <2>1, <2>4, <3>2, <3>3 DEF AnchoredEffect, Justified
  <2> QED
    BY <2>3, <2>4
<1>3. LockInv /\ [Next]_vars => [\A v \in Honest : Kept(v)]_vars
  BY <1>2
<1> QED
  BY <1>1, <1>3, PTL DEF Spec, LockReleasedOnlyByCertificate

-----------------------------------------------------------------------------
(* Refinement: the nodes together are a FinalChain.                         *)

\* The Byzantine members alone certify nothing, so only the root is final at first.
LEMMA InitRefines ==
    ASSUME Init, FewByzantine
    PROVE  Abstract!Init
<1>1. signed = Byzantine \X Block /\ \A v \in Honest : node[v].settled = Root
  BY InitOK
<1>2. Certifiable(signed) = {}
  <2> SUFFICES ASSUME NEW c \in Certifiable(signed)
               PROVE  FALSE
    OBVIOUS
  <2>1. Voters(c) \subseteq Byzantine /\ IsFiniteSet(Byzantine)
    BY <1>1, SpineAssumption, FS_Subset DEF Voters
  <2>2. Voters(c) \ Byzantine = {} /\ Byzantine \in SUBSET Validator
    BY <2>1, SpineAssumption
  <2>3. Cardinality({}) > max_byzantine(Cardinality(Validator))
    BY <2>2, CertifiableIs, HonestQuorum, SpineAssumption DEF FewByzantine
  <2>4. max_byzantine(Cardinality(Validator)) \in Nat
    BY SpineAssumption, CommitteeSize
  <2> QED
    BY <2>3, <2>4, FS_EmptySet
<1>3. FinalBlocks = {Root}
  BY <1>2 DEF FinalBlocks
<1> QED
  BY <1>1, <1>3 DEF Abstract!Init

\* The final blocks are one branch and hold what is settled.
OneFinalChain ==
    /\ FinalBlocks \in SUBSET Block /\ Abstract!OneBranch(FinalBlocks)
    /\ \A v \in Honest : node[v].settled \in FinalBlocks

LEMMA FinalFacts == FewByzantine /\ LockInv => OneFinalChain
<1> SUFFICES ASSUME FewByzantine, LockInv
             PROVE  OneFinalChain
  OBVIOUS
<1>1. FinalBlocks \in SUBSET Block
  BY FinalDown DEF LockInv
<1>2. Abstract!OneBranch(FinalBlocks)
  BY FinalOneBranch DEF Abstract!OneBranch
<1>3. \A v \in Honest : node[v].settled \in FinalBlocks
  BY FinalDown DEF LockInv, CertifiedFinal, AnchoredInv, Anchored
<1> QED
  BY <1>1, <1>2, <1>3 DEF OneFinalChain

\* A step is an advance of the node it belongs to: certificates may add final blocks, on
\* the same branch, and the node may settle further up.
LEMMA NextRefines ==
    ASSUME LockInv, CertificatesDecide, FewByzantine, [Next]_vars
    PROVE  [Abstract!Next]_(Abstract!vars)
<1>0. TypeOK /\ AnchoredInv
  BY DEF LockInv
<1>1. LockInv'
  BY LockStep
<1>2. CASE Next
  <2>1. PICK v \in Honest, t \in Block, m \in NodeType :
          Effect(v, t, m) /\ AnchoredEffect(v, t, m)
    BY <1>0, <1>2, NextIsEvent DEF Event, AnchoredInv
  <2>2. /\ TypeOK' /\ signed \subseteq signed'
        /\ node'[v] = m /\ \A w \in Honest \ {v} : node'[w] = node[w]
    BY <1>0, <2>1, EventTypeOK
  <2>3. FinalBlocks \subseteq FinalBlocks'
    BY <1>0, <2>2, FinalGrows
  <2>4. OneFinalChain'
    BY <1>1, FinalFacts, PTL
  <2>5. FinalBlocks' \in SUBSET Block /\ Abstract!OneBranch(FinalBlocks')
    BY <2>4 DEF OneFinalChain, Abstract!OneBranch
  <2>6. m.settled \in FinalBlocks' /\ m.settled \in Block
    BY <2>2, <2>4, <2>5 DEF OneFinalChain
  <2>7. node[v].settled \in Chain[m.settled]
    BY <2>1 DEF AnchoredEffect
  <2>8. [w \in Honest |-> node'[w].settled]
           = [[w \in Honest |-> node[w].settled] EXCEPT ![v] = m.settled]
    BY <2>2
  <2>9. Abstract!Advance(v, m.settled)
    BY <2>3, <2>5, <2>6, <2>7, <2>8 DEF Abstract!Advance
  <2> QED
    BY <2>6, <2>9 DEF Abstract!Next
<1>3. CASE UNCHANGED vars
  BY <1>3 DEF vars, Abstract!vars, FinalBlocks
<1> QED
  BY <1>2, <1>3

\* Together the nodes implement one growing chain of final blocks along which each node
\* settles and never goes back.
THEOREM RefinesFinalChain ==
    ASSUME CertificatesDecide, FewByzantine
    PROVE  Spec => ImplementsFinalChain
<1>1. Init => Abstract!Init
  BY InitRefines
<1>2. LockInv /\ [Next]_vars => [Abstract!Next]_(Abstract!vars)
  BY NextRefines
<1>3. Spec => []LockInv
  BY LockHolds
<1> QED
  BY <1>1, <1>2, <1>3, PTL DEF Spec, Abstract!Spec, ImplementsFinalChain

=============================================================================
