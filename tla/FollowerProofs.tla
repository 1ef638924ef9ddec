----------------------------- MODULE FollowerProofs -----------------------------
(***************************************************************************)
(* Proofs about Follower, for every height the producer reaches, number of  *)
(* rewinds, stops and answers on their way, ring and index stride.          *)
(***************************************************************************)
EXTENDS Follower, SequenceTheorems, CommitteeProofs

-----------------------------------------------------------------------------
(* Chains as sequences.                                                     *)

\* The chains of a scenario.
Chains(l) == {c \in Seq(0 .. l.rewinds) : Len(c) \in 1 .. l.height + 1}

\* The bounds are numbers.
LEMMA LimitsAreNumbers ==
    ASSUME NEW l \in Limits
    PROVE  /\ l.height \in Nat /\ l.rewinds \in Nat
           /\ l.stops \in Nat /\ l.answers \in Nat
  BY FollowerAssumption

\* What a chain is, as Follower's type says it.
LEMMA ChainOfIs ==
    ASSUME limits \in Limits
    PROVE  ChainOf = Chains(limits)
<1>1. limits.height \in Nat /\ limits.rewinds \in Nat
  BY LimitsAreNumbers
<1>2. ASSUME NEW c \in ChainOf
      PROVE  c \in Chains(limits)
  <2>1. PICK n \in 1 .. limits.height + 1 : c \in [1 .. n -> 0 .. limits.rewinds]
    BY DEF ChainOf
  <2>2. c \in Seq(0 .. limits.rewinds) /\ Len(c) = n
    BY <1>1, <2>1
  <2> QED
    BY <2>1, <2>2 DEF Chains
<1>3. ASSUME NEW c \in Chains(limits)
      PROVE  c \in ChainOf
  <2>1. c \in Seq(0 .. limits.rewinds) /\ Len(c) \in 1 .. limits.height + 1
    BY DEF Chains
  <2>2. c \in [1 .. Len(c) -> 0 .. limits.rewinds]
    BY <2>1, LenProperties
  <2> QED
    BY <2>1, <2>2 DEF ChainOf
<1> QED
  BY <1>2, <1>3

\* Length and height of a chain.
LEMMA ChainSize ==
    ASSUME NEW l \in Limits, NEW c \in Chains(l)
    PROVE  /\ c \in Seq(Nat) /\ c \in Seq(0 .. l.rewinds)
           /\ Len(c) \in Nat /\ Len(c) >= 1 /\ Len(c) <= l.height + 1
           /\ Height(c) \in Nat /\ Height(c) <= l.height /\ Height(c) = Len(c) - 1
           /\ c # NoBlock
<1>1. /\ l.height \in Nat /\ l.rewinds \in Nat
      /\ c \in Seq(0 .. l.rewinds) /\ Len(c) \in 1 .. l.height + 1
  BY LimitsAreNumbers DEF Chains
<1>2. c \in Seq(Nat)
  BY <1>1, SeqMonotonic
<1> QED
  BY <1>1, <1>2 DEF Height, NoBlock

\* A part of a chain from genesis on.
LEMMA PartOf ==
    ASSUME NEW l \in Limits, NEW c \in Chains(l), NEW h \in 0 .. Height(c)
    PROVE  /\ UpTo(c, h) \in Chains(l)
           /\ Height(UpTo(c, h)) = h /\ Len(UpTo(c, h)) = h + 1
           /\ \A i \in 1 .. h + 1 : UpTo(c, h)[i] = c[i]
<1>1. /\ c \in Seq(0 .. l.rewinds) /\ Len(c) \in Nat /\ h + 1 \in 1 .. Len(c)
      /\ l.height \in Nat /\ Len(c) <= l.height + 1 /\ h \in Nat
  BY ChainSize, LimitsAreNumbers
<1>2. /\ SubSeq(c, 1, h + 1) \in Seq(0 .. l.rewinds)
      /\ Len(SubSeq(c, 1, h + 1)) = h + 1
      /\ \A i \in 1 .. h + 1 : SubSeq(c, 1, h + 1)[i] = c[i]
  <2>1. 1 \in Int /\ h + 1 \in Int /\ \A i \in 1 .. h + 1 : c[i] \in 0 .. l.rewinds
    <3>1. \A i \in 1 .. Len(c) : c[i] \in 0 .. l.rewinds
      BY <1>1, ElementOfSeq
    <3> QED
      BY <1>1, <3>1
  <2>2. /\ SubSeq(c, 1, h + 1) \in Seq(0 .. l.rewinds)
        /\ Len(SubSeq(c, 1, h + 1)) = IF 1 <= h + 1 THEN h + 1 - 1 + 1 ELSE 0
        /\ \A i \in 1 .. h + 1 - 1 + 1 : SubSeq(c, 1, h + 1)[i] = c[1 + i - 1]
    BY <2>1, SubSeqProperties
  <2> QED
    BY <1>1, <2>2
<1> QED
  BY <1>1, <1>2 DEF UpTo, Chains, Height

\* One chain is part of another when they agree on the first's length.
LEMMA PrefixIs ==
    ASSUME NEW l \in Limits, NEW c \in Chains(l), NEW d \in Chains(l)
    PROVE  IsPrefix(c, d) <=>
               Len(c) <= Len(d) /\ \A i \in 1 .. Len(c) : c[i] = d[i]
<1>1. c \in Seq(Nat) /\ d \in Seq(Nat) /\ Len(c) \in Nat /\ Len(d) \in Nat
  BY ChainSize
<1>2. SubSeq(c, 1, Len(c)) = c
  BY <1>1, SubSeqFull
<1>3. ASSUME Len(c) <= Len(d)
      PROVE  /\ SubSeq(d, 1, Len(c)) \in Seq(Nat)
             /\ Len(SubSeq(d, 1, Len(c))) = Len(c)
             /\ \A i \in 1 .. Len(c) : SubSeq(d, 1, Len(c))[i] = d[i]
  BY <1>1, <1>3
<1>4. ASSUME Len(c) <= Len(d), \A i \in 1 .. Len(c) : c[i] = d[i]
      PROVE  c = SubSeq(d, 1, Len(c))
  BY <1>1, <1>3, <1>4, SeqEqual
<1> QED
  BY <1>2, <1>3, <1>4 DEF IsPrefix

\* Being part of is reflexive and transitive, and the part below a height of the
\* longer one is that of the shorter.
LEMMA PrefixOrder ==
    ASSUME NEW l \in Limits, NEW c \in Chains(l), NEW d \in Chains(l), NEW e \in Chains(l)
    PROVE  /\ IsPrefix(c, c)
           /\ IsPrefix(c, d) /\ IsPrefix(d, e) => IsPrefix(c, e)
           /\ IsPrefix(c, e) /\ IsPrefix(d, e) /\ Height(c) <= Height(d) => IsPrefix(c, d)
           /\ IsPrefix(c, d) => Height(c) <= Height(d)
<1>1. /\ Len(c) \in Nat /\ Len(d) \in Nat /\ Len(e) \in Nat
      /\ Height(c) = Len(c) - 1 /\ Height(d) = Len(d) - 1
  BY ChainSize
<1> QED
  BY <1>1, PrefixIs

\* Below the height of a chain, what extends it has the same parts.
LEMMA SamePart ==
    ASSUME NEW l \in Limits, NEW c \in Chains(l), NEW d \in Chains(l), IsPrefix(c, d),
           NEW h \in 0 .. Height(c)
    PROVE  UpTo(d, h) = UpTo(c, h) /\ h \in 0 .. Height(d)
<1>1. /\ Len(c) <= Len(d) /\ \A i \in 1 .. Len(c) : c[i] = d[i]
      /\ Len(c) \in Nat /\ Len(d) \in Nat
      /\ Height(c) = Len(c) - 1 /\ Height(d) = Len(d) - 1
  BY PrefixIs, ChainSize
<1>2. h \in 0 .. Height(d) /\ h + 1 <= Len(c) /\ h \in Nat
  BY <1>1
<1>3. /\ UpTo(c, h) \in Seq(Nat) /\ UpTo(d, h) \in Seq(Nat)
      /\ Len(UpTo(c, h)) = h + 1 /\ Len(UpTo(d, h)) = h + 1
  BY <1>2, PartOf, ChainSize
<1>4. \A i \in 1 .. h + 1 : UpTo(c, h)[i] = UpTo(d, h)[i]
  BY <1>1, <1>2, PartOf
<1> QED
  BY <1>2, <1>3, <1>4, SeqEqual

\* A part is a prefix; up to its own height a chain is itself.
LEMMA PartIsPrefix ==
    ASSUME NEW l \in Limits, NEW c \in Chains(l), NEW h \in 0 .. Height(c)
    PROVE  IsPrefix(UpTo(c, h), c) /\ UpTo(c, Height(c)) = c
<1>1. c \in Seq(Nat) /\ Len(c) \in Nat /\ Height(c) = Len(c) - 1
  BY ChainSize
<1>2. UpTo(c, Height(c)) = c
  BY <1>1, SubSeqFull DEF UpTo
<1> QED
  BY <1>1, <1>2, PartOf, PrefixIs

\* A parent is the part one below; of genesis, nothing.
LEMMA ParentIs ==
    ASSUME NEW l \in Limits, NEW c \in Chains(l)
    PROVE  /\ Height(c) >= 1 => Parent(c) = UpTo(c, Height(c) - 1)
           /\ Height(c) = 0 => Parent(c) = NoBlock
<1>1. c \in Seq(Nat) /\ Len(c) \in Nat /\ Height(c) = Len(c) - 1 /\ Len(c) >= 1
  BY ChainSize
<1>2. ASSUME Height(c) = 0 PROVE SubSeq(c, 1, Len(c) - 1) = <<>>
  BY <1>1, <1>2, SubSeqEmpty
<1>3. ASSUME Height(c) >= 1 PROVE Height(c) - 1 + 1 = Len(c) - 1
  BY <1>1
<1> QED
  BY <1>1, <1>2, <1>3 DEF Parent, Front, UpTo, NoBlock

-----------------------------------------------------------------------------
(* What a boot applies.                                                     *)

\* One record offered to a tip.
Step(c, b, from) == IF Height(b) >= from /\ Parent(b) = c THEN b ELSE c

\* The tips after the first m records, in order.
IsTrace(g, m, chain_, records, from) ==
    g = [n \in 0 .. m |-> IF n = 0 THEN chain_ ELSE Step(g[n - 1], records[n].block, from)]

\* There is such a list for every number of records: the least number without
\* one would have one, the list before it and a step.
LEMMA TraceExists ==
    ASSUME NEW c, NEW records, NEW from, NEW m \in Nat
    PROVE  \E g : IsTrace(g, m, c, records, from)
<1> DEFINE None == {k \in Nat : ~\E g : IsTrace(g, k, c, records, from)}
<1>1. SUFFICES ASSUME None # {}
               PROVE  FALSE
  OBVIOUS
<1>2. PICK k \in None : \A j \in None : k <= j
  BY <1>1, LeastNatural
<1>3. CASE k = 0
  <2> DEFINE g == [n \in 0 .. 0 |-> c]
  <2>1. IsTrace(g, 0, c, records, from)
    BY DEF IsTrace
  <2> QED
    BY <1>3, <2>1
<1>4. CASE k # 0
  <2>1. k \in Nat /\ k - 1 \in Nat /\ ~(k <= k - 1)
    BY <1>4
  <2>2. k - 1 \notin None
    BY <1>2, <2>1
  <2>3. PICK g : IsTrace(g, k - 1, c, records, from)
    BY <2>1, <2>2
  <2> DEFINE f == [n \in 0 .. k |-> IF n = k THEN Step(g[k - 1], records[k].block, from)
                                    ELSE g[n]]
  <2>4. \A n \in 0 .. k - 1 :
            g[n] = IF n = 0 THEN c ELSE Step(g[n - 1], records[n].block, from)
    BY <2>3 DEF IsTrace
  <2>5. \A n \in 0 .. k :
            f[n] = IF n = 0 THEN c ELSE Step(f[n - 1], records[n].block, from)
    <3>1. TAKE n \in 0 .. k
    <3>2. CASE n = k
      <4>1. f[k] = Step(g[k - 1], records[k].block, from) /\ f[k - 1] = g[k - 1]
        BY <2>1
      <4> QED
        BY <1>4, <3>2, <4>1
    <3>3. CASE n # k /\ n # 0
      <4>1. f[n] = g[n] /\ f[n - 1] = g[n - 1] /\ n \in 0 .. k - 1
        BY <2>1, <3>1, <3>3
      <4> QED
        BY <2>4, <3>3, <4>1
    <3>4. CASE n = 0
      <4>1. f[n] = g[n] /\ n \in 0 .. k - 1
        BY <1>4, <2>1, <3>4
      <4> QED
        BY <2>4, <3>4, <4>1
    <3> QED
      BY <3>2, <3>3, <3>4
  <2>6. IsTrace(f, k, c, records, from)
    <3> HIDE DEF f
    <3>1. f = [n \in 0 .. k |-> f[n]]
      BY DEF f
    <3> QED
      BY <2>5, <3>1 DEF IsTrace
  <2> QED
    BY <2>1, <2>6
<1> QED
  BY <1>3, <1>4

\* So the recursive definition is what it says.
LEMMA TipsAre ==
    ASSUME NEW c, NEW records, NEW from, Len(records) \in Nat
    PROVE  /\ Tips(c, records, from)[0] = c
           /\ \A n \in 1 .. Len(records) :
                 Tips(c, records, from)[n] =
                    Step(Tips(c, records, from)[n - 1], records[n].block, from)
<1> DEFINE t == Tips(c, records, from)
<1>1. \E g : IsTrace(g, Len(records), c, records, from)
  BY TraceExists
<1>2. t = CHOOSE g : IsTrace(g, Len(records), c, records, from)
  BY DEF Tips, IsTrace, Step
<1>3. IsTrace(t, Len(records), c, records, from)
  BY <1>1, <1>2
<1> HIDE DEF t
<1>4. \A n \in 0 .. Len(records) :
          t[n] = IF n = 0 THEN c ELSE Step(t[n - 1], records[n].block, from)
  BY <1>3 DEF IsTrace
<1>5. t[0] = c /\ \A n \in 1 .. Len(records) : t[n] = Step(t[n - 1], records[n].block, from)
  BY <1>4
<1> QED
  BY <1>5 DEF t

\* From some record on every tip is in a set that holds the records.
LEMMA AppliedIn ==
    ASSUME NEW S, NEW c, NEW records, NEW from, Len(records) \in Nat,
           \A p \in 1 .. Len(records) : records[p].block \in S,
           NEW m \in 0 .. Len(records), Tips(c, records, from)[m] \in S
    PROVE  ApplyAll(c, records, from) \in S
<1> DEFINE t == Tips(c, records, from)
           Out == {k \in Nat : m <= k /\ k <= Len(records) /\ t[k] \notin S}
<1>1. \A n \in 1 .. Len(records) : t[n] = Step(t[n - 1], records[n].block, from)
  BY TipsAre
<1> HIDE DEF t
<1>2. SUFFICES ASSUME Out # {}
               PROVE  FALSE
  BY DEF ApplyAll, t
<1>3. PICK k \in Out : \A j \in Out : k <= j
  BY <1>2, LeastNatural
<1>4. k # m /\ k \in 1 .. Len(records) /\ k - 1 \in Nat /\ m <= k - 1 /\ ~(k <= k - 1)
  BY <1>3 DEF t
<1>5. t[k - 1] \in S
  BY <1>3, <1>4
<1>6. t[k] \in S
  BY <1>1, <1>4, <1>5 DEF Step
<1> QED
  BY <1>3, <1>6

-----------------------------------------------------------------------------
(* The log.                                                                 *)

ItemsOf(l) == {Rec(b) : b \in Chains(l)} \union {Torn(k) : k \in Tears}

\* A log begins with genesis, and the parent of a record is a record before it.
GoodLog(lg, l) ==
    /\ lg \in Seq(ItemsOf(l)) /\ Len(lg) >= 1 /\ lg[1] = Rec(genesis)
    /\ \A p \in 2 .. Len(lg) : IsRec(lg[p]) =>
          /\ Height(lg[p].block) >= 1
          /\ \E q \in 1 .. p - 1 : IsRec(lg[q]) /\ lg[q].block = Parent(lg[p].block)

\* The chains a log accounts for from genesis on.
Logged(lg, l) ==
    {c \in Chains(l) : \A h \in 0 .. Height(c) : UpTo(c, h) \in RecordsOf(lg)}

\* Genesis is a chain of every scenario.
LEMMA GenesisIs ==
    ASSUME NEW l \in Limits
    PROVE  genesis \in Chains(l) /\ Height(genesis) = 0 /\ Len(genesis) = 1
<1>1. l.height \in Nat /\ l.rewinds \in Nat
  BY LimitsAreNumbers
<1>2. genesis \in Seq(0 .. l.rewinds) /\ Len(genesis) = 1
  BY <1>1 DEF genesis
<1>3. Len(genesis) \in 1 .. l.height + 1
  BY <1>1, <1>2
<1>4. genesis \in Chains(l)
  BY <1>2, <1>3 DEF Chains
<1> QED
  BY <1>2, <1>4 DEF Height

\* An item is a chain's record, or torn.
LEMMA ItemIs ==
    ASSUME NEW l \in Limits, NEW i \in ItemsOf(l)
    PROVE  IsRec(i) => i.block \in Chains(l) /\ i = Rec(i.block)
<1>1. CASE i \in {Rec(b) : b \in Chains(l)}
  BY <1>1 DEF Rec
<1>2. CASE i \in {Torn(k) : k \in Tears}
  BY <1>2 DEF Tears, Torn, IsRec
<1> QED
  BY <1>1, <1>2 DEF ItemsOf

\* Records of a log, by position.
LEMMA RecordsAre ==
    ASSUME NEW l \in Limits, NEW lg \in Seq(ItemsOf(l))
    PROVE  /\ Len(lg) \in Nat /\ DOMAIN lg = 1 .. Len(lg)
           /\ \A p \in 1 .. Len(lg) : lg[p] \in ItemsOf(l)
           /\ \A p \in 1 .. Len(lg) : IsRec(lg[p]) => lg[p].block \in RecordsOf(lg)
           /\ \A b \in RecordsOf(lg) :
                 b \in Chains(l) /\ \E p \in 1 .. Len(lg) : IsRec(lg[p]) /\ lg[p].block = b
<1>1. Len(lg) \in Nat /\ DOMAIN lg = 1 .. Len(lg)
  BY LenProperties
<1>2. \A p \in 1 .. Len(lg) : lg[p] \in ItemsOf(l)
  BY ElementOfSeq
<1>3. \A b \in RecordsOf(lg) : \E p \in 1 .. Len(lg) : IsRec(lg[p]) /\ lg[p].block = b
  BY <1>1 DEF RecordsOf
<1>4. \A p \in 1 .. Len(lg) : IsRec(lg[p]) => lg[p].block \in RecordsOf(lg)
  BY <1>1 DEF RecordsOf
<1> QED
  BY <1>1, <1>2, <1>3, <1>4, ItemIs

\* A block whose parent is accounted for is so too once it is recorded.
LEMMA LoggedStep ==
    ASSUME NEW l \in Limits, NEW lg, NEW c \in Logged(lg, l), NEW b \in Chains(l),
           Height(b) >= 1, Parent(b) = c, b \in RecordsOf(lg)
    PROVE  b \in Logged(lg, l)
<1>1. Height(b) \in Nat /\ Height(b) - 1 \in 0 .. Height(b) /\ c = UpTo(b, Height(b) - 1)
  BY ChainSize, ParentIs
<1>2. IsPrefix(c, b) /\ Height(c) = Height(b) - 1 /\ c \in Chains(l)
  BY <1>1, PartIsPrefix, PartOf
<1>3. ASSUME NEW h \in 0 .. Height(b)
      PROVE  UpTo(b, h) \in RecordsOf(lg)
  <2>1. CASE h = Height(b)
    BY <2>1, PartIsPrefix, <1>3
  <2>2. CASE h # Height(b)
    <3>1. h \in 0 .. Height(c)
      BY <1>1, <1>2, <2>2
    <3> QED
      BY <1>2, <3>1, SamePart DEF Logged
  <2> QED
    BY <2>1, <2>2
<1> QED
  BY <1>3 DEF Logged

\* Genesis is accounted for wherever it is recorded.
LEMMA LoggedGenesis ==
    ASSUME NEW l \in Limits, NEW lg, genesis \in RecordsOf(lg)
    PROVE  genesis \in Logged(lg, l)
<1>1. genesis \in Chains(l) /\ Height(genesis) = 0 /\ 0 \in 0 .. Height(genesis)
  BY GenesisIs
<1>2. UpTo(genesis, 0) = genesis
  BY <1>1, PartIsPrefix
<1> QED
  BY <1>1, <1>2 DEF Logged

\* Every record of a good log is the end of a chain it accounts for.
LEMMA RecordsLogged ==
    ASSUME NEW l \in Limits, NEW lg, GoodLog(lg, l)
    PROVE  RecordsOf(lg) \subseteq Logged(lg, l)
<1>0. lg \in Seq(ItemsOf(l)) /\ Len(lg) \in Nat /\ Len(lg) >= 1
  BY RecordsAre DEF GoodLog
<1> DEFINE Lost == {p \in Nat : p \in 1 .. Len(lg) /\ IsRec(lg[p])
                                  /\ lg[p].block \notin Logged(lg, l)}
<1>1. SUFFICES ASSUME Lost # {}
               PROVE  FALSE
  BY <1>0, RecordsAre
<1>2. PICK p \in Lost : \A q \in Lost : p <= q
  BY <1>1, LeastNatural
<1>3. /\ p \in 1 .. Len(lg) /\ IsRec(lg[p]) /\ lg[p].block \in Chains(l)
      /\ lg[p].block \in RecordsOf(lg)
  BY <1>0, <1>2, RecordsAre, ItemIs
<1>4. CASE p = 1
  BY <1>0, <1>2, <1>3, <1>4, LoggedGenesis DEF GoodLog, Rec
<1>5. CASE p # 1
  <2>1. p \in 2 .. Len(lg)
    BY <1>0, <1>3, <1>5
  <2>2. PICK q \in 1 .. p - 1 : IsRec(lg[q]) /\ lg[q].block = Parent(lg[p].block)
    BY <1>3, <2>1 DEF GoodLog
  <2>3. q \in Nat /\ q \in 1 .. Len(lg) /\ ~(p <= q)
    BY <1>0, <1>3
  <2>4. lg[q].block \in Logged(lg, l)
    BY <1>2, <2>2, <2>3
  <2>5. lg[p].block \in Logged(lg, l)
    BY <1>3, <2>1, <2>2, <2>4, LoggedStep DEF GoodLog
  <2> QED
    BY <1>2, <2>5
<1> QED
  BY <1>4, <1>5

\* What is readable of a good log is an initial part of records.
LEMMA ReadableIs ==
    ASSUME NEW l \in Limits, NEW lg, GoodLog(lg, l)
    PROVE  /\ Readable(lg) \in Seq(ItemsOf(l))
           /\ Len(Readable(lg)) \in 1 .. Len(lg) /\ DOMAIN Readable(lg) = 1 .. Len(Readable(lg))
           /\ \A p \in 1 .. Len(Readable(lg)) : Readable(lg)[p] = lg[p] /\ IsRec(lg[p])
<1>1. /\ lg \in Seq(ItemsOf(l)) /\ Len(lg) \in Nat /\ Len(lg) >= 1
      /\ \A p \in 1 .. Len(lg) : lg[p] \in ItemsOf(l)
  BY RecordsAre DEF GoodLog
<1> DEFINE Bad == {i \in 1 .. Len(lg) : ~IsRec(lg[i])}
           t == IF Bad # {} THEN Min(Bad) ELSE 0
<1>2. Readable(lg) = IF t = 0 THEN lg ELSE SubSeq(lg, 1, t - 1)
  BY DEF Readable, SelectInSeq
<1>3. CASE Bad = {}
  BY <1>1, <1>2, <1>3, LenProperties
<1>4. CASE Bad # {}
  <2>1. Bad \in SUBSET Nat
    BY <1>1
  <2>2. t \in Bad /\ \A y \in Bad : t <= y
    BY <1>4, <2>1, LeastNatural DEF Min
  <2>3. t # 1
    BY <2>2 DEF GoodLog, Rec, IsRec
  <2> HIDE DEF t
  <2>4. t \in 2 .. Len(lg) /\ t \in Nat
    BY <1>1, <2>2, <2>3
  <2>5. \A i \in 1 .. t - 1 : lg[i] \in ItemsOf(l)
    BY <1>1, <2>4
  <2>6. /\ SubSeq(lg, 1, t - 1) \in Seq(ItemsOf(l))
        /\ Len(SubSeq(lg, 1, t - 1)) = IF 1 <= t - 1 THEN t - 1 - 1 + 1 ELSE 0
        /\ \A i \in 1 .. t - 1 - 1 + 1 : SubSeq(lg, 1, t - 1)[i] = lg[1 + i - 1]
    BY <2>4, <2>5, SubSeqProperties
  <2>7. \A i \in 1 .. t - 1 : IsRec(lg[i])
    BY <1>1, <2>2, <2>4
  <2>8. Readable(lg) = SubSeq(lg, 1, t - 1)
    BY <1>2, <2>4
  <2> QED
    BY <1>1, <2>4, <2>6, <2>7, <2>8, LenProperties
<1> QED
  BY <1>3, <1>4

\* Nothing of a log without torn items is out of reach.
LEMMA IntactReads ==
    ASSUME NEW lg, Intact(lg), DOMAIN lg = 1 .. Len(lg)
    PROVE  Readable(lg) = lg
<1> DEFINE Bad == {i \in 1 .. Len(lg) : ~IsRec(lg[i])}
           t == IF Bad # {} THEN Min(Bad) ELSE 0
<1>1. Readable(lg) = IF t = 0 THEN lg ELSE SubSeq(lg, 1, t - 1)
  BY DEF Readable, SelectInSeq
<1>2. Bad = {}
  BY DEF Intact
<1> QED
  BY <1>1, <1>2

-----------------------------------------------------------------------------
(* The boot.                                                                *)

\* The index leads to a position of the log, or nowhere.
LEMMA SeekIs ==
    ASSUME NEW l \in Limits, NEW lg, GoodLog(lg, l), NEW ix, NEW from
    PROVE  idx_seek_offset(ix, lg, from) \in Nat
<1>1. DOMAIN Readable(lg) \subseteq Nat
  BY ReadableIs
<1> QED
  BY <1>1 DEF idx_seek_offset, Unusable

\* What is found by height is a record of the log.
LEMMA FoundIsRecord ==
    ASSUME NEW l \in Limits, NEW lg, GoodLog(lg, l), NEW ix, NEW h
    PROVE  get_by_height(lg, ix, h) \in RecordsOf(lg) \union {NoBlock}
<1> DEFINE seek  == idx_seek_offset(ix, lg, h)
           start == IF seek = Unusable THEN 1 ELSE seek
           R     == Readable(lg)
           read  == {p \in start .. Len(R) : p < start + 4 * IdxEvery /\ Height(R[p].block) >= h}
           first == CHOOSE p \in read : \A q \in read : p <= q
<1>1. seek \in Nat /\ start \in Nat
  BY SeekIs
<1>2. /\ Len(R) \in 1 .. Len(lg) /\ \A p \in 1 .. Len(R) : R[p] = lg[p] /\ IsRec(lg[p])
      /\ lg \in Seq(ItemsOf(l)) /\ Len(lg) \in Nat
  BY ReadableIs, RecordsAre DEF GoodLog
<1>3. ASSUME read # {}, start # 0
      PROVE  R[first].block \in RecordsOf(lg)
  <2>1. read \in SUBSET Nat
    BY <1>1, <1>2
  <2>2. first \in read
    BY <1>3, <2>1, LeastNatural
  <2>3. first \in 1 .. Len(R)
    BY <1>1, <1>2, <1>3, <2>2
  <2> HIDE DEF first
  <2>4. first \in 1 .. Len(lg)
    BY <1>2, <2>3
  <2> QED
    BY <1>2, <2>3, <2>4, RecordsAre
<1>4. start # 0
  BY DEF Unusable
<1>5. get_by_height(lg, ix, h) =
        IF read # {} /\ Height(R[first].block) = h THEN R[first].block ELSE NoBlock
  BY DEF get_by_height
<1> QED
  BY <1>3, <1>4, <1>5

\* What replay hands on are records of the log.
LEMMA ReplayIs ==
    ASSUME NEW l \in Limits, NEW lg, GoodLog(lg, l), NEW ix, NEW from
    PROVE  /\ Len(replay_from(lg, ix, from)) \in Nat
           /\ \A p \in 1 .. Len(replay_from(lg, ix, from)) :
                 replay_from(lg, ix, from)[p].block \in RecordsOf(lg)
           /\ Len(replay(lg)) \in Nat /\ Len(replay(lg)) >= 1
           /\ \A p \in 1 .. Len(replay(lg)) : replay(lg)[p].block \in RecordsOf(lg)
           /\ replay(lg)[1].block = genesis
<1> DEFINE seek  == idx_seek_offset(ix, lg, from)
           start == IF seek = Unusable THEN 1 ELSE seek
           R     == Readable(lg)
           Recs  == {i \in ItemsOf(l) : i.block \in RecordsOf(lg)}
<1>1. start \in Nat /\ start >= 1
  BY SeekIs DEF Unusable
<1>2. /\ Len(R) \in 1 .. Len(lg) /\ \A p \in 1 .. Len(R) : R[p] = lg[p] /\ IsRec(lg[p])
      /\ lg \in Seq(ItemsOf(l)) /\ Len(lg) \in Nat /\ lg[1] = Rec(genesis)
  BY ReadableIs, RecordsAre DEF GoodLog
<1> HIDE DEF start, R
<1>3. \A p \in 1 .. Len(R) : R[p] \in Recs
  <2>1. \A p \in 1 .. Len(R) : p \in 1 .. Len(lg)
    BY <1>2
  <2> QED
    BY <1>2, <2>1, RecordsAre
<1>4. \A p \in start .. Len(R) : R[p] \in Recs
  BY <1>1, <1>2, <1>3
<1>5. Len(R) \in Int /\ start \in Int
  BY <1>1, <1>2
<1>6. SubSeq(R, start, Len(R)) \in Seq(Recs)
  BY <1>4, <1>5, SubSeqProperties
<1>7. /\ Len(SubSeq(R, start, Len(R))) \in Nat
      /\ \A p \in 1 .. Len(SubSeq(R, start, Len(R))) : SubSeq(R, start, Len(R))[p] \in Recs
  BY <1>6, LenProperties, ElementOfSeq
<1>8. replay_from(lg, ix, from) = SubSeq(R, start, Len(R)) /\ replay(lg) = R
  BY DEF replay_from, replay, R, start
<1>9. Len(R) \in Nat /\ Len(R) >= 1 /\ R[1].block = genesis
  BY <1>2 DEF Rec
<1> QED
  BY <1>3, <1>7, <1>8, <1>9

\* Whichever way it takes, a boot ends on a chain the log accounts for.
LEMMA BootIsLogged ==
    ASSUME NEW l \in Limits, NEW lg, GoodLog(lg, l), NEW ix, NEW sn
    PROVE  BootedChain(lg, ix, sn) \in Logged(lg, l)
<1>1. RecordsOf(lg) \subseteq Logged(lg, l)
  BY RecordsLogged
<1>2. CASE SnapshotBoots(lg, ix, sn)
  <2> DEFINE from == Height(sn) + 1
             tail == replay_from(lg, ix, from)
  <2>1. sn \in RecordsOf(lg)
    BY <1>2, FoundIsRecord DEF SnapshotBoots
  <2>2. /\ Len(tail) \in Nat /\ \A p \in 1 .. Len(tail) : tail[p].block \in Logged(lg, l)
    BY <1>1, ReplayIs
  <2> HIDE DEF from, tail
  <2>3. 0 \in 0 .. Len(tail) /\ Tips(sn, tail, from)[0] \in Logged(lg, l)
    BY <1>1, <2>1, <2>2, TipsAre
  <2>4. ApplyAll(sn, tail, from) \in Logged(lg, l)
    BY <2>2, <2>3, AppliedIn
  <2> QED
    BY <1>2, <2>4 DEF BootedChain, Restored, from, tail
<1>3. CASE ~SnapshotBoots(lg, ix, sn)
  <2> DEFINE all == replay(lg)
  <2>1. /\ Len(all) \in Nat /\ Len(all) >= 1 /\ all[1].block = genesis
        /\ \A p \in 1 .. Len(all) : all[p].block \in RecordsOf(lg)
    BY ReplayIs
  <2> HIDE DEF all
  <2>2. 1 \in 1 .. Len(all) /\ 1 \in 0 .. Len(all) /\ 1 - 1 = 0
    BY <2>1
  <2>3. Tips(NoBlock, all, 0)[1] = Step(NoBlock, genesis, 0)
    BY <2>1, <2>2, TipsAre
  <2>4. Step(NoBlock, genesis, 0) = genesis
    BY GenesisIs, ParentIs DEF Step
  <2>5. genesis \in Logged(lg, l)
    BY <1>1, <2>1, <2>2
  <2>6. ApplyAll(NoBlock, all, 0) \in Logged(lg, l)
    BY <1>1, <2>1, <2>2, <2>3, <2>4, <2>5, AppliedIn
  <2> QED
    BY <1>3, <2>6 DEF BootedChain, all
<1> QED
  BY <1>2, <1>3

-----------------------------------------------------------------------------
(* The ring.                                                                *)

Rings(l) == [ckpts : Seq(Chains(l)), last_capture : Nat, ceiling : Int, hits : Nat]

\* The checkpoints q are ancestors of c, oldest first, no more than the cap.
Ascending(q, c) ==
    /\ Len(q) <= RingCap
    /\ \A k \in 1 .. Len(q) :
          /\ IsPrefix(q[k], c)
          /\ \A j \in 1 .. k - 1 : Height(q[j]) <= Height(q[k])

GoodRing(r, c, l) == r \in Rings(l) /\ Ascending(r.ckpts, c)

\* The empty ring is good for any chain.
LEMMA EmptyRingGood ==
    ASSUME NEW l \in Limits, NEW c
    PROVE  GoodRing(EmptyRing, c, l)
<1>1. <<>> \in Seq(Chains(l)) /\ Len(<<>>) = 0
  BY EmptySeq
<1> QED
  BY <1>1, RingAssumption DEF GoodRing, Rings, Ascending, EmptyRing, NoHeight

\* The chain may grow under a ring.
LEMMA RingGrows ==
    ASSUME NEW l \in Limits, NEW c \in Chains(l), NEW d \in Chains(l), IsPrefix(c, d),
           NEW r, GoodRing(r, c, l)
    PROVE  GoodRing(r, d, l)
<1>1. r.ckpts \in Seq(Chains(l))
  BY DEF GoodRing, Rings
<1>2. \A k \in 1 .. Len(r.ckpts) : r.ckpts[k] \in Chains(l)
  BY <1>1, ElementOfSeq
<1> QED
  BY <1>2, PrefixOrder DEF GoodRing, Ascending

\* Counting mismatches leaves the checkpoints alone.
LEMMA HitsKeepRing ==
    ASSUME NEW l \in Limits, NEW c, NEW r, GoodRing(r, c, l)
    PROVE  GoodRing(clear_fork_hits(r), c, l) /\ GoodRing(note_fork_hit(r), c, l)
<1>1. r \in Rings(l)
  BY DEF GoodRing
<1>2. /\ clear_fork_hits(r) \in Rings(l) /\ clear_fork_hits(r).ckpts = r.ckpts
      /\ note_fork_hit(r) \in Rings(l) /\ note_fork_hit(r).ckpts = r.ckpts
  BY <1>1 DEF Rings, clear_fork_hits, note_fork_hit
<1> QED
  BY <1>2 DEF GoodRing

\* A capture adds the tip and lets the oldest go at the cap.
LEMMA PushKeeps ==
    ASSUME NEW l \in Limits, NEW c \in Chains(l), NEW q \in Seq(Chains(l)), Ascending(q, c)
    PROVE  push(q, c) \in Seq(Chains(l)) /\ Ascending(push(q, c), c)
<1> DEFINE a == Append(q, c)
<1>1. /\ Len(q) \in Nat /\ RingCap \in Nat /\ RingCap >= 2
      /\ \A k \in 1 .. Len(q) : q[k] \in Chains(l)
  BY LenProperties, ElementOfSeq, RingAssumption
<1>2. /\ a \in Seq(Chains(l)) /\ a # <<>> /\ Len(a) = Len(q) + 1
      /\ \A i \in 1 .. Len(q) : a[i] = q[i]
      /\ a[Len(q) + 1] = c
  BY AppendProperties
<1>3. \A k \in 1 .. Len(q) : Height(q[k]) <= Height(c)
  BY <1>1, PrefixOrder DEF Ascending
<1> HIDE DEF a
<1>4. ASSUME NEW k \in 1 .. Len(a)
      PROVE  IsPrefix(a[k], c) /\ \A j \in 1 .. k - 1 : Height(a[j]) <= Height(a[k])
  <2>1. CASE k = Len(q) + 1
    <3>1. \A j \in 1 .. k - 1 : j \in 1 .. Len(q) /\ a[j] = q[j]
      BY <1>1, <1>2, <2>1
    <3> QED
      BY <1>2, <1>3, <2>1, <3>1, PrefixOrder
  <2>2. CASE k # Len(q) + 1
    <3>1. k \in 1 .. Len(q) /\ a[k] = q[k] /\ \A j \in 1 .. k - 1 : a[j] = q[j]
      BY <1>1, <1>2, <2>2
    <3> QED
      BY <3>1 DEF Ascending
  <2> QED
    BY <2>1, <2>2
<1>5. CASE Len(q) < RingCap
  <2>1. push(q, c) = a
    BY <1>5 DEF push, a
  <2> QED
    BY <1>1, <1>2, <1>4, <1>5, <2>1 DEF Ascending
<1>6. CASE ~(Len(q) < RingCap)
  <2>1. push(q, c) = Tail(a)
    BY <1>6 DEF push, a
  <2>2. /\ Tail(a) \in Seq(Chains(l)) /\ Len(Tail(a)) = Len(a) - 1
        /\ \A i \in 1 .. Len(Tail(a)) : Tail(a)[i] = a[i + 1]
    BY <1>2, HeadTailProperties
  <2>3. Len(Tail(a)) <= RingCap /\ Len(Tail(a)) = Len(q)
    BY <1>1, <1>2, <2>2 DEF Ascending
  <2>4. ASSUME NEW k \in 1 .. Len(Tail(a))
        PROVE  /\ IsPrefix(Tail(a)[k], c)
               /\ \A j \in 1 .. k - 1 : Height(Tail(a)[j]) <= Height(Tail(a)[k])
    <3>1. k + 1 \in 1 .. Len(a) /\ Tail(a)[k] = a[k + 1]
      BY <1>1, <1>2, <2>2, <2>3
    <3>2. \A j \in 1 .. k - 1 : j + 1 \in 1 .. (k + 1) - 1 /\ Tail(a)[j] = a[j + 1]
      BY <1>1, <2>2, <2>3
    <3> QED
      BY <1>4, <3>1, <3>2
  <2> QED
    BY <2>1, <2>2, <2>3, <2>4 DEF Ascending
<1> QED
  BY <1>5, <1>6

\* A capture keeps a good ring good.
LEMMA CaptureKeepsRing ==
    ASSUME NEW l \in Limits, NEW c \in Chains(l), NEW r, GoodRing(r, c, l)
    PROVE  GoodRing(maybe_capture(r, c), c, l)
<1> DEFINE m == maybe_capture(r, c)
<1>1. r \in Rings(l) /\ Height(c) \in Nat
  BY ChainSize DEF GoodRing
<1>2. push(r.ckpts, c) \in Seq(Chains(l)) /\ Ascending(push(r.ckpts, c), c)
  BY <1>1, PushKeeps DEF GoodRing, Rings
<1> DEFINE b == IF Height(c) > r.ceiling THEN NoHeight ELSE r.ceiling
<1>3. b \in Int
  BY <1>1 DEF Rings, NoHeight
<1>4. m = r \/ m = [r EXCEPT !.ckpts = push(r.ckpts, c), !.last_capture = Height(c),
                               !.ceiling = b]
  BY <1>1 DEF maybe_capture, Rings
<1>5. m = r \/ (m \in Rings(l) /\ m.ckpts = push(r.ckpts, c))
  <2> DEFINE p == push(r.ckpts, c)
             h == Height(c)
             e == [r EXCEPT !.ckpts = p, !.last_capture = h, !.ceiling = b]
  <2>1. p \in Seq(Chains(l)) /\ h \in Nat /\ 0 \in Nat
    BY <1>1, <1>2
  <2> HIDE DEF b, p, h
  <2>2. e \in Rings(l) /\ e.ckpts = p
    BY <1>1, <1>3, <2>1 DEF Rings
  <2>3. m = r \/ m = e
    BY <1>4 DEF p, h
  <2> HIDE DEF e, m
  <2> QED
    BY <2>2, <2>3 DEF p
<1> QED
  BY <1>2, <1>5 DEF GoodRing

\* A rollback leads to an ancestor below the tip, on which the ring is good.
LEMMA RollbackKeepsRing ==
    ASSUME NEW l \in Limits, NEW c \in Chains(l), NEW r, GoodRing(r, c, l),
           Eligible(r, c) # {}
    PROVE  /\ Target(r, c) \in Chains(l) /\ IsPrefix(Target(r, c), c)
           /\ GoodRing(Reorged(r, c), Target(r, c), l)
<1> DEFINE q == r.ckpts
           n == Newest(r, c)
           t == Target(r, c)
<1>1. /\ r \in Rings(l) /\ q \in Seq(Chains(l)) /\ Len(q) \in Nat /\ DOMAIN q = 1 .. Len(q)
      /\ \A k \in 1 .. Len(q) : q[k] \in Chains(l)
      /\ RingCap \in Nat
  BY LenProperties, ElementOfSeq, RingAssumption DEF GoodRing, Rings
<1>2. n \in 1 .. Len(q)
  <2> DEFINE E == Eligible(r, c)
             Below == {x \in Nat : x <= Len(q) /\ Len(q) - x \in E}
  <2>1. E \in SUBSET (1 .. Len(q)) /\ E # {}
    BY <1>1 DEF Eligible
  <2> HIDE DEF E
  <2>2. PICK e \in E : TRUE
    BY <2>1
  <2>3. Len(q) - e \in Nat /\ Len(q) - (Len(q) - e) = e /\ Len(q) - e <= Len(q)
    BY <1>1, <2>1, <2>2
  <2>4. Below # {} /\ Below \in SUBSET Nat
    BY <2>2, <2>3
  <2>5. PICK x \in Below : \A y \in Below : x <= y
    BY <2>4, LeastNatural
  <2>6. Len(q) - x \in E
    BY <2>5
  <2>7. \A y \in E : Len(q) - x >= y
    <3>1. TAKE y \in E
    <3>2. Len(q) - y \in Nat /\ Len(q) - (Len(q) - y) = y /\ Len(q) - y <= Len(q)
      BY <1>1, <2>1, <3>1
    <3>3. x <= Len(q) - y
      BY <2>5, <3>2
    <3> QED
      BY <1>1, <2>1, <2>5, <3>2, <3>3
  <2>8. Max(E) \in E
    BY <2>6, <2>7 DEF Max
  <2> QED
    BY <2>1, <2>8 DEF Newest, E
<1>3. t = q[n] /\ t \in Chains(l) /\ IsPrefix(t, c) /\ Height(t) \in Nat
  BY <1>1, <1>2, ChainSize DEF Target, GoodRing, Ascending
<1> HIDE DEF n
<1>4. n \in Nat /\ n <= Len(q) /\ \A i \in 1 .. n : q[i] \in Chains(l)
  BY <1>1, <1>2
<1> DEFINE s == SubSeq(q, 1, n)
<1>5. /\ s \in Seq(Chains(l)) /\ Len(s) = IF 1 <= n THEN n - 1 + 1 ELSE 0
      /\ \A i \in 1 .. n - 1 + 1 : s[i] = q[1 + i - 1]
  BY <1>4, SubSeqProperties
<1>6. Len(s) = n /\ \A i \in 1 .. n : s[i] = q[i] /\ i \in 1 .. Len(q)
  BY <1>2, <1>4, <1>5
<1>7. ASSUME NEW k \in 1 .. n
      PROVE  IsPrefix(q[k], t) /\ \A j \in 1 .. k - 1 : Height(q[j]) <= Height(q[k])
  <2>1. /\ k \in 1 .. Len(q) /\ q[k] \in Chains(l) /\ IsPrefix(q[k], c)
        /\ \A j \in 1 .. k - 1 : Height(q[j]) <= Height(q[k])
    BY <1>1, <1>6 DEF GoodRing, Ascending
  <2>2. Height(q[k]) <= Height(t)
    <3>1. CASE k = n
      BY <1>3, <3>1
    <3>2. CASE k # n
      <4>1. k \in 1 .. n - 1
        BY <1>4, <3>2
      <4> QED
        BY <1>2, <1>3, <4>1 DEF GoodRing, Ascending
    <3> QED
      BY <3>1, <3>2
  <2> QED
    BY <1>3, <2>1, <2>2, PrefixOrder
<1> HIDE DEF s
<1>8. Ascending(s, t)
  <2>1. Len(s) <= RingCap
    BY <1>1, <1>4, <1>6 DEF GoodRing, Ascending
  <2>2. \A k \in 1 .. n : \A j \in 1 .. k - 1 : j \in 1 .. n
    BY <1>4
  <2>3. ASSUME NEW k \in 1 .. Len(s)
        PROVE  IsPrefix(s[k], t) /\ \A j \in 1 .. k - 1 : Height(s[j]) <= Height(s[k])
    BY <1>6, <1>7, <2>2
  <2> QED
    BY <2>1, <2>3 DEF Ascending
<1>9. Reorged(r, c) \in Rings(l) /\ Reorged(r, c).ckpts = s
  <2>1. Reorged(r, c) = [r EXCEPT !.ckpts = s, !.ceiling = Height(t),
                                  !.last_capture = Height(t), !.hits = 0]
    BY <1>1 DEF Reorged, Rings, s, n
  <2>2. 0 \in Nat /\ Height(t) \in Int
    BY <1>3
  <2> DEFINE h == Height(t)
             e == [r EXCEPT !.ckpts = s, !.ceiling = h, !.last_capture = h, !.hits = 0]
  <2>3. h \in Nat /\ h \in Int /\ 0 \in Nat
    BY <1>3
  <2>4. Reorged(r, c) = e
    BY <2>1
  <2> HIDE DEF h
  <2>5. e \in Rings(l) /\ e.ckpts = s
    BY <1>1, <1>5, <2>3 DEF Rings
  <2> HIDE DEF e
  <2> QED
    BY <2>4, <2>5
<1> QED
  BY <1>3, <1>8, <1>9 DEF GoodRing

-----------------------------------------------------------------------------
(* Catch-up.                                                                *)

\* An answer's blocks are chains, one of each height.
LEMMA BlocksAre ==
    ASSUME NEW l \in Limits, NEW a, a.chain \in Chains(l), a.from \in 1 .. Height(a.chain)
    PROVE  /\ Blocks(a) \subseteq Chains(l)
           /\ \A b, c \in Blocks(a) : Height(b) = Height(c) => b = c
<1>1. Height(a.chain) \in Nat /\ a.from \in Nat
  BY ChainSize
<1>2. ASSUME NEW b \in Blocks(a)
      PROVE  b \in Chains(l) /\ b = UpTo(a.chain, Height(b))
  <2>1. PICK h \in a.from .. Height(a.chain) : b = UpTo(a.chain, h)
    BY DEF Blocks
  <2>2. h \in 0 .. Height(a.chain)
    BY <1>1
  <2> QED
    BY <2>1, <2>2, PartOf
<1>3. ASSUME NEW b \in Blocks(a), NEW c \in Blocks(a), Height(b) = Height(c)
      PROVE  b = c
  BY <1>2, <1>3
<1> QED
  BY <1>2, <1>3

\* Waiting blocks: above the tip, one of each height.
GoodWait(W, c, l) ==
    /\ W \subseteq Chains(l)
    /\ \A b, d \in W : Height(b) = Height(d) => b = d
    /\ \A b \in W : Height(b) > Height(c)

\* They stay so when an answer's blocks join.
LEMMA WaitingIs ==
    ASSUME NEW l \in Limits, GoodWait(pending, chain, l),
           NEW a, a.chain \in Chains(l), a.from \in 1 .. Height(a.chain)
    PROVE  GoodWait(Waiting(a), chain, l)
<1>1. /\ Blocks(a) \subseteq Chains(l)
      /\ \A b, c \in Blocks(a) : Height(b) = Height(c) => b = c
  BY BlocksAre
<1> DEFINE New == {b \in Blocks(a) : Height(b) > Height(chain)
                                       /\ \A c \in pending : Height(c) # Height(b)}
<1>2. Waiting(a) = pending \union New
  BY DEF Waiting
<1>3. /\ New \subseteq Blocks(a) /\ \A b \in New : Height(b) > Height(chain)
      /\ \A b \in New : \A c \in pending : Height(c) # Height(b)
  OBVIOUS
<1> HIDE DEF New
<1>4. ASSUME NEW b \in Waiting(a), NEW d \in Waiting(a), Height(b) = Height(d)
      PROVE  b = d
  BY <1>1, <1>2, <1>3, <1>4 DEF GoodWait
<1>5. Waiting(a) \subseteq Chains(l) /\ \A b \in Waiting(a) : Height(b) > Height(chain)
  BY <1>1, <1>2, <1>3 DEF GoodWait
<1> QED
  BY <1>4, <1>5 DEF GoodWait

\* The extended tip grows from the tip over waiting blocks.  There is a highest
\* one, since the producer does not mint past the bound.
LEMMA ExtendedIs ==
    ASSUME NEW l \in Limits, chain \in Chains(l), NEW W \in SUBSET Chains(l)
    PROVE  /\ Extended(W) \in W \union {chain}
           /\ Extended(W) \in Chains(l) /\ IsPrefix(chain, Extended(W))
           /\ \A b \in W : IsPrefix(chain, b) /\ Height(b) = Height(chain) + 1 =>
                 Extended(W) # chain
<1> DEFINE reach == {b \in W \union {chain} :
                        /\ IsPrefix(chain, b)
                        /\ \A h \in Height(chain) + 1 .. Height(b) : UpTo(b, h) \in W}
           Room == {x \in Nat : \E b \in reach : x = l.height - Height(b)}
<1>1. Height(chain) \in Nat /\ l.height \in Nat
  BY ChainSize, LimitsAreNumbers
<1>2. chain \in reach
  <2>1. \A h \in Height(chain) + 1 .. Height(chain) : FALSE
    BY <1>1
  <2> QED
    BY <2>1, PrefixOrder
<1>3. \A b \in reach : b \in Chains(l) /\ IsPrefix(chain, b)
  OBVIOUS
<1> HIDE DEF reach
<1>4. \A b \in reach : Height(b) \in Nat /\ l.height - Height(b) \in Nat
  BY <1>1, <1>3, ChainSize
<1>5. Room \in SUBSET Nat /\ Room # {}
  BY <1>2, <1>4
<1>6. PICK x \in Room : \A y \in Room : x <= y
  BY <1>5, LeastNatural
<1>7. PICK b \in reach : x = l.height - Height(b)
  BY <1>6
<1>8. \A c \in reach : Height(c) <= Height(b)
  <2>1. TAKE c \in reach
  <2>2. l.height - Height(c) \in Room
    BY <1>4
  <2>3. l.height - Height(b) <= l.height - Height(c)
    BY <1>6, <1>7, <2>2
  <2> QED
    BY <1>1, <1>4, <2>3
<1>9. Extended(W) = CHOOSE c \in reach : \A d \in reach : Height(d) <= Height(c)
  BY DEF Extended, reach
<1>10. Extended(W) \in reach /\ \A c \in reach : Height(c) <= Height(Extended(W))
  BY <1>8, <1>9
<1>11. ASSUME NEW c \in W, IsPrefix(chain, c), Height(c) = Height(chain) + 1
      PROVE  Extended(W) # chain
  <2>1. \A h \in Height(chain) + 1 .. Height(c) : UpTo(c, h) = c
    BY <1>1, <1>11, PartIsPrefix
  <2>2. c \in reach
    BY <1>11, <2>1 DEF reach
  <2> QED
    BY <1>1, <1>10, <1>11, <2>2
<1>12. reach \subseteq W \union {chain}
  BY DEF reach
<1> QED
  BY <1>3, <1>10, <1>11, <1>12

\* Each applied block is the parent of the next, the first follows c, and with
\* c's own history they are d's.
LEMMA PathIs ==
    ASSUME NEW l \in Limits, NEW c \in Chains(l), NEW d \in Chains(l), IsPrefix(c, d)
    PROVE  /\ Path(c, d) \in Seq(Chains(l))
           /\ \A k \in 1 .. Len(Path(c, d)) :
                 /\ Height(Path(c, d)[k]) >= 1
                 /\ \/ Parent(Path(c, d)[k]) = c
                    \/ k - 1 \in 1 .. k - 1 /\ Parent(Path(c, d)[k]) = Path(c, d)[k - 1]
           /\ \A h \in 0 .. Height(d) :
                 \/ h \in 0 .. Height(c) /\ UpTo(d, h) = UpTo(c, h)
                 \/ UpTo(d, h) \in ToSet(Path(c, d))
<1> DEFINE n == Height(d) - Height(c)
           u == Path(c, d)
<1>1. /\ Height(c) \in Nat /\ Height(d) \in Nat /\ n \in Nat
      /\ Height(c) <= Height(d) /\ UpTo(c, Height(c)) = c
  BY ChainSize, PrefixOrder, PartIsPrefix
<1>2. \A k \in 1 .. n : Height(c) + k \in 0 .. Height(d) /\ u[k] = UpTo(d, Height(c) + k)
  BY <1>1 DEF Path
<1>3. \A k \in 1 .. n : u[k] \in Chains(l) /\ Height(u[k]) = Height(c) + k
  BY <1>2, PartOf
<1>4. u \in Seq(Chains(l)) /\ Len(u) = n /\ DOMAIN u = 1 .. n
  <2>1. u \in [1 .. n -> Chains(l)]
    BY <1>3 DEF Path
  <2> QED
    BY <1>1, <2>1
<1>5. ASSUME NEW k \in 1 .. n
      PROVE  /\ Height(u[k]) >= 1
             /\ \/ Parent(u[k]) = c
                \/ k - 1 \in 1 .. k - 1 /\ Parent(u[k]) = u[k - 1]
  <2>1. /\ u[k] \in Chains(l) /\ Height(u[k]) = Height(c) + k /\ Height(u[k]) >= 1
        /\ IsPrefix(u[k], d)
    BY <1>1, <1>2, <1>3, PartIsPrefix
  <2>2. Height(u[k]) - 1 = Height(c) + (k - 1) /\ Height(u[k]) - 1 \in 0 .. Height(u[k])
    BY <1>1, <2>1
  <2>3. Parent(u[k]) = UpTo(d, Height(c) + (k - 1))
    BY <2>1, <2>2, ParentIs, SamePart
  <2>4. CASE k = 1
    <3>1. Height(c) + (k - 1) = Height(c) /\ Height(c) \in 0 .. Height(c)
      BY <1>1, <2>4
    <3> QED
      BY <1>1, <2>1, <2>3, <3>1, SamePart
  <2>5. CASE k # 1
    <3>1. k - 1 \in 1 .. k - 1 /\ k - 1 \in 1 .. n
      BY <1>1, <2>5
    <3> QED
      BY <1>2, <2>1, <2>3, <3>1
  <2> QED
    BY <2>4, <2>5
<1>6. ASSUME NEW h \in 0 .. Height(d)
      PROVE  \/ h \in 0 .. Height(c) /\ UpTo(d, h) = UpTo(c, h)
             \/ UpTo(d, h) \in ToSet(u)
  <2>1. CASE h <= Height(c)
    BY <1>1, <2>1, SamePart
  <2>2. CASE h > Height(c)
    <3>1. h - Height(c) \in 1 .. n /\ Height(c) + (h - Height(c)) = h
      BY <1>1, <2>2
    <3>2. u[h - Height(c)] = UpTo(d, h)
      BY <1>2, <3>1
    <3> QED
      BY <1>4, <3>1, <3>2 DEF ToSet
  <2> QED
    BY <1>1, <2>1, <2>2
<1> HIDE DEF u
<1> QED
  BY <1>4, <1>5, <1>6 DEF u

-----------------------------------------------------------------------------
(* Appending, tearing and cutting.                                          *)

\* An item more.
LEMMA LogAppend ==
    ASSUME NEW l \in Limits, NEW lg, GoodLog(lg, l), NEW i \in ItemsOf(l),
           IsRec(i) => Height(i.block) >= 1 /\ Parent(i.block) \in RecordsOf(lg)
    PROVE  /\ GoodLog(Append(lg, i), l)
           /\ RecordsOf(lg) \subseteq RecordsOf(Append(lg, i))
           /\ IsRec(i) => i.block \in RecordsOf(Append(lg, i))
<1> DEFINE m == Append(lg, i)
<1>1. /\ lg \in Seq(ItemsOf(l)) /\ Len(lg) \in Nat /\ Len(lg) >= 1 /\ lg[1] = Rec(genesis)
      /\ \A b \in RecordsOf(lg) : \E p \in 1 .. Len(lg) : IsRec(lg[p]) /\ lg[p].block = b
  BY RecordsAre DEF GoodLog
<1>2. /\ m \in Seq(ItemsOf(l)) /\ Len(m) = Len(lg) + 1
      /\ \A p \in 1 .. Len(lg) : m[p] = lg[p]
      /\ m[Len(lg) + 1] = i
  BY <1>1, AppendProperties
<1> HIDE DEF m
<1>3. RecordsOf(lg) \subseteq RecordsOf(m)
  <2>1. ASSUME NEW b \in RecordsOf(lg)
        PROVE  b \in RecordsOf(m)
    <3>1. PICK p \in 1 .. Len(lg) : IsRec(lg[p]) /\ lg[p].block = b
      BY <1>1
    <3>2. p \in 1 .. Len(m) /\ m[p] = lg[p]
      BY <1>1, <1>2
    <3> QED
      BY <1>2, <3>1, <3>2, RecordsAre
  <2> QED
    BY <2>1
<1>4. IsRec(i) => i.block \in RecordsOf(m)
  <2>1. Len(lg) + 1 \in 1 .. Len(m)
    BY <1>1, <1>2
  <2> QED
    BY <1>2, <2>1, RecordsAre
<1>5. ASSUME NEW p \in 2 .. Len(m), IsRec(m[p])
      PROVE  /\ Height(m[p].block) >= 1
             /\ \E q \in 1 .. p - 1 : IsRec(m[q]) /\ m[q].block = Parent(m[p].block)
  <2>1. CASE p = Len(lg) + 1
    <3>1. m[p] = i /\ p - 1 = Len(lg)
      BY <1>1, <1>2, <2>1
    <3>2. PICK q \in 1 .. Len(lg) : IsRec(lg[q]) /\ lg[q].block = Parent(i.block)
      BY <1>1, <1>5, <3>1
    <3> QED
      BY <1>2, <1>5, <3>1, <3>2
  <2>2. CASE p # Len(lg) + 1
    <3>1. p \in 2 .. Len(lg) /\ m[p] = lg[p] /\ \A q \in 1 .. p - 1 : m[q] = lg[q]
      BY <1>1, <1>2, <2>2
    <3> QED
      BY <1>5, <3>1 DEF GoodLog
  <2> QED
    BY <2>1, <2>2
<1>6. Len(m) >= 1 /\ m[1] = Rec(genesis)
  BY <1>1, <1>2
<1>7. GoodLog(m, l)
  BY <1>2, <1>5, <1>6 DEF GoodLog
<1> QED
  BY <1>3, <1>4, <1>7 DEF m

\* The end of the log lost.
LEMMA LogCut ==
    ASSUME NEW l \in Limits, NEW lg, GoodLog(lg, l), NEW n \in 1 .. Len(lg)
    PROVE  GoodLog(SubSeq(lg, 1, n), l)
<1> DEFINE m == SubSeq(lg, 1, n)
<1>1. /\ lg \in Seq(ItemsOf(l)) /\ Len(lg) \in Nat
      /\ \A p \in 1 .. Len(lg) : lg[p] \in ItemsOf(l)
  BY RecordsAre DEF GoodLog
<1>2. n \in Nat /\ n <= Len(lg) /\ n >= 1 /\ \A p \in 1 .. n : lg[p] \in ItemsOf(l)
  BY <1>1
<1>3. /\ m \in Seq(ItemsOf(l)) /\ Len(m) = IF 1 <= n THEN n - 1 + 1 ELSE 0
      /\ \A p \in 1 .. n - 1 + 1 : m[p] = lg[1 + p - 1]
  BY <1>2, SubSeqProperties
<1> HIDE DEF m
<1>4. Len(m) = n /\ \A p \in 1 .. n : m[p] = lg[p]
  BY <1>2, <1>3
<1>5. ASSUME NEW p \in 2 .. n, IsRec(m[p])
      PROVE  /\ Height(m[p].block) >= 1
             /\ \E q \in 1 .. p - 1 : IsRec(m[q]) /\ m[q].block = Parent(m[p].block)
  <2>1. p \in 2 .. Len(lg) /\ p \in 1 .. n /\ \A q \in 1 .. p - 1 : q \in 1 .. n
    BY <1>1, <1>2
  <2> QED
    BY <1>4, <1>5, <2>1 DEF GoodLog
<1>6. 1 \in 1 .. n
  BY <1>2
<1> QED
  BY <1>2, <1>3, <1>4, <1>5, <1>6 DEF GoodLog, m

-----------------------------------------------------------------------------
(* The inductive invariant.                                                 *)

GoodProducer ==
    /\ limits \in Limits /\ era \in 0 .. limits.rewinds
    /\ canon \in Chains(limits) /\ abandoned \subseteq Chains(limits)
GoodAnswers ==
    \A a \in BagToSet(answers) :
        a.chain \in Chains(limits) /\ a.from \in 1 .. Height(a.chain)
GoodFetch == frontier \in 1 .. limits.height + Chunk /\ indexing \in BOOLEAN
GoodTip ==
    /\ up \in BOOLEAN
    /\ IF up THEN chain \in Chains(limits)
       ELSE chain = NoBlock /\ pending = {} /\ unwritten = <<>> /\ ring = EmptyRing
GoodDisk == GoodLog(log, limits) /\ snap \in Chains(limits) \union {NoBlock}

\* Blocks on their way to the log: each one's parent is in it or on its way before.
GoodTail ==
    /\ unwritten \in Seq(Chains(limits))
    /\ \A k \in 1 .. Len(unwritten) :
          /\ Height(unwritten[k]) >= 1
          /\ \/ Parent(unwritten[k]) \in RecordsOf(log)
             \/ k - 1 \in 1 .. k - 1 /\ Parent(unwritten[k]) = unwritten[k - 1]

IInv ==
    /\ GoodProducer /\ GoodAnswers /\ GoodFetch /\ GoodTip /\ GoodDisk /\ GoodTail
    /\ GoodWait(pending, chain, limits)
    /\ GoodRing(ring, chain, limits)
    /\ HistoryOnDisk

\* An answer more, an answer fewer; none.
LEMMA BagsHold ==
    ASSUME NEW B, NEW a
    PROVE  /\ BagToSet(B (+) SetToBag({a})) \subseteq BagToSet(B) \union {a}
           /\ BagToSet(B (-) SetToBag({a})) \subseteq BagToSet(B)
  BY DEF (+), (-), SetToBag, BagToSet

LEMMA NoneInEmptyBag ==
    BagToSet(EmptyBag) = {}
  BY DEF SetToBag, BagToSet, EmptyBag

\* The frontier a start begins with is within its type.
LEMMA FirstFrontier ==
    ASSUME limits \in Limits
    PROVE  1 \in 1 .. limits.height + Chunk
<1>1. limits.height \in Nat /\ Chunk \in Nat /\ Chunk >= 1
  BY LimitsAreNumbers, FollowerAssumption
<1> QED
  BY <1>1

\* It holds of a node that starts with genesis.
LEMMA InitGood ==
    Init => IInv
<1> SUFFICES ASSUME Init
             PROVE  IInv
  OBVIOUS
<1>1. /\ limits \in Limits /\ limits.height \in Nat /\ limits.rewinds \in Nat
      /\ genesis \in Chains(limits) /\ Height(genesis) = 0
      /\ UpTo(genesis, 0) = genesis
  <2>1. limits \in Limits /\ genesis \in Chains(limits) /\ Height(genesis) = 0
    BY GenesisIs DEF Init
  <2>2. 0 \in 0 .. Height(genesis)
    BY <2>1
  <2> QED
    BY <2>1, <2>2, LimitsAreNumbers, PartIsPrefix
<1>2. GoodProducer
  BY <1>1 DEF Init, GoodProducer
<1>3. GoodTip /\ GoodWait(pending, chain, limits)
  BY <1>1 DEF Init, GoodTip, GoodWait
<1>4. GoodTail
  <2>1. <<>> \in Seq(Chains(limits)) /\ Len(<<>>) = 0
    BY EmptySeq
  <2> QED
    BY <2>1 DEF Init, GoodTail
<1>5. Rec(genesis) \in ItemsOf(limits) /\ IsRec(Rec(genesis)) /\ Rec(genesis).block = genesis
  BY <1>1 DEF ItemsOf, Rec, IsRec
<1>6. /\ log \in Seq(ItemsOf(limits)) /\ Len(log) = 1 /\ log[1] = Rec(genesis)
  BY <1>5 DEF Init
<1>7. GoodLog(log, limits)
  BY <1>6 DEF GoodLog
<1>8. genesis \in RecordsOf(log)
  <2>1. 1 \in 1 .. Len(log) /\ IsRec(log[1]) /\ log[1].block = genesis
    BY <1>5, <1>6
  <2> QED
    BY <1>1, <1>6, <2>1, RecordsAre
<1>9. HistoryOnDisk
  BY <1>1, <1>8 DEF Init, HistoryOnDisk
<1>10. GoodRing(ring, chain, limits)
  BY <1>1, EmptyRingGood DEF Init
<1>11. GoodAnswers /\ GoodFetch
  BY <1>1, NoneInEmptyBag, FirstFrontier DEF Init, GoodAnswers, GoodFetch
<1> QED
  BY <1>2, <1>3, <1>4, <1>7, <1>9, <1>10, <1>11 DEF IInv, GoodDisk, Init

-----------------------------------------------------------------------------
(* Every step keeps it.                                                     *)

\* Steps of the producer, and asking, touch neither memory nor disk.
LEMMA OthersKeep ==
    ASSUME IInv, limits' = limits, GoodProducer', GoodAnswers', GoodFetch',
           UNCHANGED <<up, chain, pending, unwritten, ring, log, idx, snap>>
    PROVE  IInv'
  BY DEF IInv, GoodTip, GoodDisk, GoodTail, HistoryOnDisk

\* A minted block makes a longer chain, within the bound.
LEMMA MintKeeps ==
    ASSUME IInv, Mint
    PROVE  IInv'
<1>1. /\ limits \in Limits /\ limits.height \in Nat /\ limits.rewinds \in Nat
      /\ canon \in Chains(limits) /\ era \in 0 .. limits.rewinds
  BY LimitsAreNumbers DEF IInv, GoodProducer
<1>2. /\ canon \in Seq(0 .. limits.rewinds) /\ Len(canon) \in Nat
      /\ Height(canon) = Len(canon) - 1
  BY <1>1, ChainSize
<1>3. /\ Append(canon, era) \in Seq(0 .. limits.rewinds)
      /\ Len(Append(canon, era)) = Len(canon) + 1
  BY <1>1, <1>2, AppendProperties
<1>4. canon' \in Chains(limits)
  <2>1. Height(canon) < limits.height /\ canon' = Append(canon, era)
    BY DEF Mint
  <2>2. Len(canon') \in 1 .. limits.height + 1
    BY <1>1, <1>2, <1>3, <2>1
  <2> QED
    BY <1>3, <2>1, <2>2 DEF Chains
<1>5. GoodProducer' /\ GoodAnswers' /\ GoodFetch' /\ limits' = limits
  BY <1>1, <1>4 DEF IInv, GoodProducer, GoodAnswers, GoodFetch, Mint, memory
<1> QED
  BY <1>5, OthersKeep DEF Mint, memory, disk

\* A rewind leaves a part of the chain, and the chain it leaves behind is one.
LEMMA RewindKeeps ==
    ASSUME IInv, Rewind
    PROVE  IInv'
<1>1. /\ limits \in Limits /\ limits.rewinds \in Nat
      /\ canon \in Chains(limits) /\ Height(canon) \in Nat
      /\ era \in 0 .. limits.rewinds /\ abandoned \subseteq Chains(limits)
  BY LimitsAreNumbers, ChainSize DEF IInv, GoodProducer
<1>2. PICK h \in 0 .. Height(canon) - 1 : canon' = UpTo(canon, h)
  BY DEF Rewind
<1>3. h \in 0 .. Height(canon)
  BY <1>1
<1>4. canon' \in Chains(limits)
  BY <1>1, <1>2, <1>3, PartOf
<1>5. GoodProducer' /\ GoodAnswers' /\ GoodFetch' /\ limits' = limits
  BY <1>1, <1>4 DEF IInv, GoodProducer, GoodAnswers, GoodFetch, Rewind, memory
<1> QED
  BY <1>5, OthersKeep DEF Rewind, memory, disk

\* That nobody holds the branches left behind any more changes nothing else.
LEMMA ForgetKeeps ==
    ASSUME IInv, Forget
    PROVE  IInv'
<1>1. GoodProducer' /\ GoodAnswers' /\ GoodFetch' /\ limits' = limits
  BY DEF IInv, GoodProducer, GoodAnswers, GoodFetch, Forget, memory
<1> QED
  BY <1>1, OthersKeep DEF Forget, memory, disk

\* An answer is a part of a peer's chain, from a height it has.
LEMMA RequestIs ==
    ASSUME IInv, NEW from \in Nat, from >= 1, NEW c \in Peers, Request(from, c)
    PROVE  GoodProducer' /\ GoodAnswers' /\ limits' = limits /\ from <= limits.height
<1>1. /\ limits \in Limits /\ c \in Chains(limits) /\ limits.height \in Nat /\ Chunk \in Nat
  BY LimitsAreNumbers, FollowerAssumption DEF IInv, GoodProducer, Peers
<1>2. Height(c) \in Nat /\ Height(c) <= limits.height /\ Height(c) >= from
  BY <1>1, ChainSize DEF Request
<1> DEFINE to == IF Height(c) < from + Chunk THEN Height(c) ELSE from + Chunk
           a  == [from |-> from, chain |-> UpTo(c, to)]
<1>3. to \in 0 .. Height(c) /\ from \in 1 .. to
  BY <1>1, <1>2
<1>4. answers' = answers (+) SetToBag({a}) /\ limits' = limits /\ UNCHANGED network
  BY DEF Request
<1> HIDE DEF to
<1>5. a.chain \in Chains(limits) /\ a.from \in 1 .. Height(a.chain)
  BY <1>1, <1>3, PartOf
<1> HIDE DEF a
<1>6. BagToSet(answers') \subseteq BagToSet(answers) \union {a}
  BY <1>4, BagsHold
<1>7. GoodAnswers' /\ GoodProducer'
  BY <1>4, <1>5, <1>6 DEF IInv, GoodAnswers, GoodProducer, network
<1>8. from <= limits.height
  BY <1>1, <1>2
<1> QED
  BY <1>4, <1>7, <1>8

\* The windowed fetcher gets no further than a range past the bound.
LEMMA AskKeeps ==
    ASSUME IInv, AskAhead \/ AskNext
    PROVE  IInv'
<1>1. /\ up /\ limits \in Limits /\ chain \in Chains(limits) /\ GoodFetch
      /\ limits.height \in Nat /\ Chunk \in Nat
  <2>1. up
    BY DEF AskAhead, AskNext, Request
  <2> QED
    BY <2>1, LimitsAreNumbers, FollowerAssumption DEF IInv, GoodProducer, GoodTip
<1>2. Len(chain) \in Nat /\ Len(chain) >= 1 /\ frontier \in Nat /\ frontier >= 1
  BY <1>1, ChainSize DEF GoodFetch
<1>3. UNCHANGED <<up, chain, pending, unwritten, ring, indexing, log, idx, snap>>
  BY DEF AskAhead, AskNext, Request, disk
<1>4. GoodProducer' /\ GoodAnswers' /\ GoodFetch' /\ limits' = limits
  <2>1. CASE AskAhead
    <3> DEFINE from == IF frontier > Len(chain) THEN frontier ELSE Len(chain)
    <3>1. PICK c \in Peers : Request(from, c)
      BY <2>1 DEF AskAhead
    <3>2. from \in Nat /\ from >= 1 /\ frontier' = from + Chunk
      BY <1>2, <2>1 DEF AskAhead
    <3> HIDE DEF from
    <3>3. GoodProducer' /\ GoodAnswers' /\ limits' = limits /\ from <= limits.height
      BY <3>1, <3>2, RequestIs
    <3>4. frontier' \in 1 .. limits.height + Chunk
      BY <1>1, <3>2, <3>3
    <3> QED
      BY <1>1, <1>3, <3>3, <3>4 DEF GoodFetch
  <2>2. CASE AskNext
    <3>1. PICK c \in Peers : Request(Len(chain), c)
      BY <2>2 DEF AskNext
    <3>2. GoodProducer' /\ GoodAnswers' /\ limits' = limits
      BY <1>2, <3>1, RequestIs
    <3> QED
      BY <1>1, <1>3, <2>2, <3>2 DEF GoodFetch, AskNext
  <2> QED
    BY <2>1, <2>2
<1> QED
  BY <1>3, <1>4, OthersKeep

\* A capture concerns the ring only.
LEMMA HeartbeatKeeps ==
    ASSUME IInv, Heartbeat
    PROVE  IInv'
<1>1. limits \in Limits /\ chain \in Chains(limits)
  BY DEF IInv, GoodProducer, GoodTip, Heartbeat
<1>2. GoodRing(ring', chain, limits)
  BY <1>1, CaptureKeepsRing DEF IInv, Heartbeat
<1>3. /\ up /\ up' = up /\ chain' = chain /\ limits' = limits /\ pending' = pending
      /\ unwritten' = unwritten /\ answers' = answers
      /\ UNCHANGED <<network, frontier, indexing, disk>>
  BY DEF Heartbeat
<1> QED
  BY <1>2, <1>3 DEF IInv, GoodProducer, GoodAnswers, GoodFetch, GoodTip, GoodDisk, GoodTail,
     HistoryOnDisk, network, disk

\* The first block on its way becomes the last record; its parent is in the log.
LEMMA WriteKeeps ==
    ASSUME IInv, Write
    PROVE  IInv'
<1> DEFINE b == Head(unwritten)
           rest == Tail(unwritten)
<1>1. /\ limits \in Limits /\ unwritten \in Seq(Chains(limits)) /\ unwritten # <<>>
      /\ GoodLog(log, limits)
  BY DEF IInv, GoodProducer, GoodTail, GoodDisk, Write
<1>2. /\ Len(unwritten) \in Nat /\ Len(unwritten) >= 1
      /\ b \in Chains(limits) /\ b = unwritten[1]
      /\ rest \in Seq(Chains(limits)) /\ Len(rest) = Len(unwritten) - 1
      /\ \A i \in 1 .. Len(rest) : rest[i] = unwritten[i + 1]
  <2>1. Len(unwritten) \in Nat /\ Len(unwritten) >= 1
    BY <1>1, EmptySeq
  <2> QED
    BY <1>1, <2>1, HeadTailProperties
<1>3. Height(b) >= 1 /\ Parent(b) \in RecordsOf(log)
  <2>1. 1 \in 1 .. Len(unwritten) /\ ~(1 - 1 \in 1 .. 1 - 1)
    BY <1>2
  <2> QED
    BY <1>2, <2>1 DEF IInv, GoodTail
<1>4. Rec(b) \in ItemsOf(limits) /\ IsRec(Rec(b)) /\ Rec(b).block = b
  BY <1>2 DEF ItemsOf, Rec, IsRec
<1>5. log' = Append(log, Rec(b)) /\ unwritten' = rest /\ limits' = limits
  BY DEF Write
<1> HIDE DEF b, rest
<1>6. /\ GoodLog(log', limits) /\ RecordsOf(log) \subseteq RecordsOf(log')
      /\ b \in RecordsOf(log')
  BY <1>1, <1>3, <1>4, <1>5, LogAppend
<1>7. GoodTail'
  <2>1. ASSUME NEW k \in 1 .. Len(rest)
        PROVE  /\ Height(rest[k]) >= 1
               /\ \/ Parent(rest[k]) \in RecordsOf(log')
                  \/ k - 1 \in 1 .. k - 1 /\ Parent(rest[k]) = rest[k - 1]
    <3>1. k + 1 \in 1 .. Len(unwritten) /\ k + 1 - 1 = k /\ rest[k] = unwritten[k + 1]
      BY <1>2
    <3>2. /\ Height(rest[k]) >= 1
          /\ Parent(rest[k]) \in RecordsOf(log) \/ Parent(rest[k]) = unwritten[k]
      BY <3>1 DEF IInv, GoodTail
    <3>3. CASE k = 1
      BY <1>2, <1>6, <3>2, <3>3
    <3>4. CASE k # 1
      <4>1. k - 1 \in 1 .. k - 1 /\ k - 1 \in 1 .. Len(rest) /\ k - 1 + 1 = k
        BY <1>2, <3>4
      <4>2. rest[k - 1] = unwritten[k]
        BY <1>2, <4>1
      <4> QED
        BY <1>6, <3>2, <4>1, <4>2
    <3> QED
      BY <3>3, <3>4
  <2> QED
    BY <1>2, <1>5, <2>1 DEF GoodTail
<1>8. ToSet(unwritten) \subseteq ToSet(unwritten') \union {b}
  <2>1. ASSUME NEW k \in 1 .. Len(unwritten), k # 1
        PROVE  \E j \in 1 .. Len(rest) : rest[j] = unwritten[k]
    <3>1. k - 1 \in 1 .. Len(rest) /\ k - 1 + 1 = k
      BY <1>2, <2>1
    <3> QED
      BY <1>2, <3>1
  <2>2. DOMAIN unwritten = 1 .. Len(unwritten) /\ DOMAIN rest = 1 .. Len(rest)
    BY <1>1, <1>2, LenProperties
  <2>3. ASSUME NEW x \in ToSet(unwritten), x # b
        PROVE  x \in ToSet(rest)
    <3>1. PICK k \in 1 .. Len(unwritten) : x = unwritten[k]
      BY <2>2 DEF ToSet
    <3>2. k # 1
      BY <1>2, <2>3, <3>1
    <3>3. PICK j \in 1 .. Len(rest) : rest[j] = x
      BY <2>1, <3>1, <3>2
    <3> QED
      BY <2>2, <3>3 DEF ToSet
  <2> QED
    BY <1>5, <2>3
<1>9. HistoryOnDisk'
  BY <1>6, <1>8 DEF IInv, HistoryOnDisk, Write
<1>10. /\ up /\ up' = up /\ chain' = chain /\ pending' = pending /\ ring' = ring
       /\ answers' = answers /\ snap' = snap /\ UNCHANGED <<network, frontier, indexing>>
  BY DEF Write
<1> QED
  BY <1>5, <1>6, <1>7, <1>9, <1>10 DEF IInv, GoodProducer, GoodAnswers, GoodFetch,
     GoodTip, GoodDisk, network

\* A stop leaves the disk good; memory is gone.
LEMMA HaltKeeps ==
    ASSUME IInv, Halt, GoodDisk'
    PROVE  IInv'
<1>1. /\ limits \in Limits /\ limits' = limits /\ UNCHANGED network
      /\ up' = FALSE /\ chain' = NoBlock /\ pending' = {} /\ unwritten' = <<>>
      /\ ring' = EmptyRing /\ answers' = EmptyBag /\ frontier' = 1 /\ indexing' = TRUE
  BY DEF IInv, GoodProducer, Halt
<1>2. GoodProducer' /\ GoodTip' /\ GoodWait(pending', chain', limits')
  BY <1>1 DEF IInv, GoodProducer, GoodTip, GoodWait, network
<1>3. GoodTail'
  <2>1. <<>> \in Seq(Chains(limits)) /\ Len(<<>>) = 0
    BY EmptySeq
  <2> QED
    BY <1>1, <2>1 DEF GoodTail
<1>4. GoodRing(ring', chain', limits')
  BY <1>1, EmptyRingGood
<1>5. HistoryOnDisk'
  BY <1>1 DEF HistoryOnDisk
<1>6. GoodAnswers' /\ GoodFetch'
  BY <1>1, NoneInEmptyBag, FirstFrontier DEF GoodAnswers, GoodFetch
<1> QED
  BY <1>2, <1>3, <1>4, <1>5, <1>6 DEF IInv

\* A torn record is an item no reader takes for a block.
LEMMA TornIs ==
    ASSUME NEW l \in Limits, NEW k \in Tears
    PROVE  Torn(k) \in ItemsOf(l) /\ ~IsRec(Torn(k))
  BY DEF Tears, ItemsOf, Torn, IsRec

\* A clean stop saves the tip; a crash may leave a record more or a torn one, a
\* power loss the log up to some record, torn there or not.
LEMMA StopsKeep ==
    ASSUME IInv, Shutdown \/ Crash \/ PowerLoss
    PROVE  IInv'
<1>1. /\ limits \in Limits /\ GoodLog(log, limits) /\ snap \in Chains(limits) \union {NoBlock}
  BY DEF IInv, GoodProducer, GoodDisk
<1>2. Halt /\ limits' = limits
  BY DEF Shutdown, Crash, PowerLoss, Halt
<1>3. SUFFICES GoodDisk'
  BY <1>2, HaltKeeps
<1>4. CASE Shutdown
  BY <1>1, <1>2, <1>4 DEF Shutdown, Halt, GoodDisk, IInv, GoodTip
<1>5. CASE Crash
  <2>1. snap' = snap
    BY <1>5 DEF Crash
  <2>2. CASE log' = log
    BY <1>1, <1>2, <2>1, <2>2 DEF GoodDisk
  <2>3. CASE unwritten # <<>> /\ log' = Append(log, Rec(Head(unwritten)))
    <3>1. /\ unwritten \in Seq(Chains(limits)) /\ Head(unwritten) = unwritten[1]
          /\ Head(unwritten) \in Chains(limits) /\ 1 \in 1 .. Len(unwritten)
      BY <2>3, HeadTailProperties, EmptySeq, LenProperties DEF IInv, GoodTail
    <3>2. Height(Head(unwritten)) >= 1 /\ Parent(Head(unwritten)) \in RecordsOf(log)
      <4>1. ~(1 - 1 \in 1 .. 1 - 1)
        OBVIOUS
      <4> QED
        BY <3>1, <4>1 DEF IInv, GoodTail
    <3>3. Rec(Head(unwritten)) \in ItemsOf(limits)
      BY <3>1 DEF ItemsOf
    <3>4. GoodLog(log', limits)
      BY <1>1, <2>3, <3>2, <3>3, LogAppend DEF Rec
    <3> QED
      BY <1>1, <1>2, <2>1, <3>4 DEF GoodDisk
  <2>4. CASE \E k \in Tears : log' = Append(log, Torn(k))
    <3>1. GoodLog(log', limits)
      BY <1>1, <2>4, TornIs, LogAppend
    <3> QED
      BY <1>1, <1>2, <2>1, <3>1 DEF GoodDisk
  <2> QED
    BY <1>5, <2>2, <2>3, <2>4 DEF Crash
<1>6. CASE PowerLoss
  <2>1. PICK n \in 1 .. Len(log) :
           \/ log' = SubSeq(log, 1, n)
           \/ \E k \in Tears : log' = Append(SubSeq(log, 1, n), Torn(k))
    BY <1>6 DEF PowerLoss
  <2>2. GoodLog(SubSeq(log, 1, n), limits)
    BY <1>1, LogCut
  <2>3. GoodLog(log', limits)
    BY <1>1, <2>1, <2>2, TornIs, LogAppend
  <2> QED
    BY <1>1, <1>2, <1>6, <2>3 DEF PowerLoss, GoodDisk
<1> QED
  BY <1>4, <1>5, <1>6

\* A boot reads its chain from the log, and begins with an empty ring.
LEMMA BootKeeps ==
    ASSUME IInv, Boot
    PROVE  IInv'
<1>1. /\ limits \in Limits /\ GoodLog(log, limits)
      /\ pending = {} /\ unwritten = <<>> /\ ring = EmptyRing
  BY DEF IInv, GoodProducer, GoodDisk, GoodTip, Boot
<1>2. /\ limits' = limits /\ up' = TRUE /\ chain' = BootedChain(log, idx, snap)
      /\ UNCHANGED <<network, answers, pending, unwritten, ring, log, snap>>
  BY DEF Boot
<1>3. chain' \in Logged(log, limits)
  BY <1>1, <1>2, BootIsLogged
<1>4. GoodTip' /\ HistoryOnDisk'
  BY <1>2, <1>3 DEF GoodTip, HistoryOnDisk, Logged
<1>5. GoodRing(ring', chain', limits')
  BY <1>1, <1>2, EmptyRingGood
<1>6. GoodWait(pending', chain', limits')
  BY <1>1, <1>2 DEF GoodWait
<1>7. GoodFetch'
  <2>1. /\ chain' \in Chains(limits) /\ limits.height \in Nat
        /\ Chunk \in Nat \ {0}
    BY <1>1, <1>3, LimitsAreNumbers, FollowerAssumption DEF Logged
  <2>2. Len(chain') \in 1 .. limits.height + Chunk
    BY <1>1, <2>1, ChainSize
  <2>3. frontier' = Len(chain') /\ indexing' \in BOOLEAN
    BY DEF Boot, IndexReached
  <2> QED
    BY <1>2, <2>2, <2>3 DEF GoodFetch
<1> QED
  BY <1>2, <1>4, <1>5, <1>6, <1>7 DEF IInv, GoodProducer, GoodAnswers, GoodDisk, GoodTail,
     network

\* The tip grows to a chain that extends it, up a branch in circulation.
LEMMA DrainedIs ==
    ASSUME GoodProducer, NEW c \in Chains(limits), NEW d \in Drained(c)
    PROVE  d \in Chains(limits) /\ IsPrefix(c, d)
<1>1. limits \in Limits /\ Height(c) \in Nat
  BY ChainSize DEF GoodProducer
<1>2. CASE d = c
  BY <1>1, <1>2, PrefixOrder
<1>3. CASE d # c
  <2>1. PICK e \in abandoned \union {canon} :
           IsPrefix(c, e) /\ d \in {UpTo(e, h) : h \in Height(c) .. Height(e)}
    BY <1>3 DEF Drained
  <2>2. PICK h \in Height(c) .. Height(e) : d = UpTo(e, h)
    BY <2>1
  <2>3. e \in Chains(limits) /\ Height(e) \in Nat
    BY <1>1, <2>1, ChainSize DEF GoodProducer
  <2>4. h \in 0 .. Height(e) /\ Height(c) <= h
    BY <1>1, <2>3
  <2>5. d \in Chains(limits) /\ Height(d) = h /\ IsPrefix(d, e)
    BY <1>1, <2>2, <2>3, <2>4, PartOf, PartIsPrefix
  <2> QED
    BY <1>1, <2>1, <2>3, <2>4, <2>5, PrefixOrder
<1> QED
  BY <1>2, <1>3

\* What is applied on the way to d goes to the log in order, and whatever part of
\* d the tip then is, its history is in the log or on its way there.
LEMMA ApplyingKeepsHistory ==
    ASSUME IInv, up, unwritten = <<>>,
           NEW d \in Chains(limits), IsPrefix(chain, d),
           unwritten' = Path(chain, d), log' = log, limits' = limits,
           chain' \in Chains(limits), IsPrefix(chain', d)
    PROVE  GoodTail' /\ HistoryOnDisk'
<1> DEFINE u == Path(chain, d)
<1>1. limits \in Limits /\ chain \in Chains(limits)
  BY DEF IInv, GoodProducer, GoodTip
<1>2. /\ u \in Seq(Chains(limits))
      /\ \A k \in 1 .. Len(u) :
            /\ Height(u[k]) >= 1
            /\ Parent(u[k]) = chain \/ (k - 1 \in 1 .. k - 1 /\ Parent(u[k]) = u[k - 1])
      /\ \A h \in 0 .. Height(d) :
            \/ h \in 0 .. Height(chain) /\ UpTo(d, h) = UpTo(chain, h)
            \/ UpTo(d, h) \in ToSet(u)
  BY <1>1, PathIs
<1>3. unwritten' = u
  OBVIOUS
<1> HIDE DEF u
<1>4. \A h \in 0 .. Height(chain) : UpTo(chain, h) \in RecordsOf(log)
  <2>1. ToSet(unwritten) = {}
    BY DEF ToSet
  <2> QED
    BY <2>1 DEF IInv, HistoryOnDisk
<1>5. chain \in RecordsOf(log)
  <2>1. Height(chain) \in 0 .. Height(chain)
    BY <1>1, ChainSize
  <2> QED
    BY <1>1, <1>4, <2>1, PartIsPrefix
<1>6. GoodTail'
  BY <1>2, <1>3, <1>5 DEF GoodTail
<1>7. HistoryOnDisk'
  <2>1. \A h \in 0 .. Height(d) : UpTo(d, h) \in RecordsOf(log') \union ToSet(unwritten')
    BY <1>2, <1>3, <1>4
  <2>2. \A h \in 0 .. Height(chain') : h \in 0 .. Height(d) /\ UpTo(chain', h) = UpTo(d, h)
    BY <1>1, SamePart
  <2> QED
    BY <2>1, <2>2 DEF HistoryOnDisk
<1> QED
  BY <1>6, <1>7

\* Waiting blocks above a tip that grew, or none.
LEMMA WaitAbove ==
    ASSUME NEW l \in Limits, NEW c, NEW W, GoodWait(W, c, l),
           NEW d, NEW V \in SUBSET W, \A b \in V : Height(b) > Height(d)
    PROVE  GoodWait(V, d, l)
  BY DEF GoodWait

\* An answer: the tip grows over what waits, and may be rolled back; if it is not,
\* the braid may take it on.
LEMMA DeliverKeeps ==
    ASSUME IInv, NEW a \in BagToSet(answers), Deliver(a)
    PROVE  IInv'
<1> DEFINE W     == Waiting(a)
           tip   == Extended(W)
           clear == IF tip # chain THEN clear_fork_hits(ring) ELSE ring
           fork  == \E b \in W : Height(b) = Height(tip) + 1
           noted == IF fork THEN note_fork_hit(clear) ELSE clear
           back  == fork /\ Persistent(noted) /\ Eligible(noted, tip) # {}
<1>1. /\ limits \in Limits /\ chain \in Chains(limits) /\ up /\ unwritten = <<>>
      /\ a.chain \in Chains(limits) /\ a.from \in 1 .. Height(a.chain)
      /\ GoodWait(pending, chain, limits) /\ GoodRing(ring, chain, limits)
      /\ GoodProducer
  BY DEF IInv, GoodProducer, GoodTip, GoodAnswers, Deliver
<1>2. PICK d \in IF back THEN {tip} ELSE Drained(tip) :
         /\ unwritten' = Path(chain, d)
         /\ chain' = IF back THEN Target(noted, tip) ELSE d
         /\ pending' = IF back THEN {}
                       ELSE {b \in W : Height(b) > Height(tip) + 1 /\ Height(b) > Height(d)}
  BY DEF Deliver
<1>3. /\ answers' = answers (-) SetToBag({a}) /\ limits' = limits /\ up' = up
      /\ ring' = IF back THEN Reorged(noted, tip) ELSE noted
      /\ UNCHANGED <<network, frontier, indexing, disk>>
  BY DEF Deliver
<1>4. GoodWait(W, chain, limits)
  BY <1>1, WaitingIs
<1>5. tip \in Chains(limits) /\ IsPrefix(chain, tip)
  BY <1>1, <1>4, ExtendedIs DEF GoodWait
<1> HIDE DEF W, tip
<1>6. GoodRing(clear, tip, limits)
  BY <1>1, <1>5, HitsKeepRing, RingGrows
<1> HIDE DEF clear, fork
<1>7. GoodRing(noted, tip, limits)
  BY <1>1, <1>6, HitsKeepRing
<1> HIDE DEF noted
<1>8. d \in Chains(limits) /\ IsPrefix(tip, d) /\ IsPrefix(chain, d)
  <2>1. d \in Chains(limits) /\ IsPrefix(tip, d)
    <3>1. CASE back
      BY <1>1, <1>2, <1>5, <3>1, PrefixOrder
    <3>2. CASE ~back
      BY <1>1, <1>2, <1>5, <3>2, DrainedIs
    <3> QED
      BY <3>1, <3>2
  <2> QED
    BY <1>1, <1>5, <2>1, PrefixOrder
<1>9. /\ chain' \in Chains(limits) /\ IsPrefix(chain', d)
      /\ GoodRing(ring', chain', limits)
  <2>1. CASE back
    <3>1. /\ Target(noted, tip) \in Chains(limits) /\ IsPrefix(Target(noted, tip), tip)
          /\ GoodRing(Reorged(noted, tip), Target(noted, tip), limits)
      BY <1>1, <1>5, <1>7, <2>1, RollbackKeepsRing
    <3>2. chain' = Target(noted, tip) /\ ring' = Reorged(noted, tip)
      BY <1>2, <1>3, <2>1
    <3> QED
      BY <1>1, <1>5, <1>8, <3>1, <3>2, PrefixOrder
  <2>2. CASE ~back
    <3>1. chain' = d /\ ring' = noted
      BY <1>2, <1>3, <2>2
    <3> QED
      BY <1>1, <1>5, <1>7, <1>8, <3>1, RingGrows, PrefixOrder
  <2> QED
    BY <2>1, <2>2
<1>10. log' = log /\ snap' = snap /\ UNCHANGED <<canon, era, abandoned>>
  BY <1>3 DEF disk, network
<1>11. GoodTail' /\ HistoryOnDisk'
  BY <1>1, <1>2, <1>3, <1>8, <1>9, <1>10, ApplyingKeepsHistory
<1>12. GoodWait(pending', chain', limits')
  <2>1. CASE back
    BY <1>2, <2>1 DEF GoodWait
  <2>2. CASE ~back
    <3>1. /\ chain' = d
          /\ pending' = {b \in W : Height(b) > Height(tip) + 1 /\ Height(b) > Height(d)}
      BY <1>2, <2>2
    <3> QED
      BY <1>1, <1>3, <1>4, <3>1, WaitAbove
  <2> QED
    BY <2>1, <2>2
<1>13. GoodTip' /\ GoodAnswers' /\ GoodFetch' /\ GoodProducer' /\ GoodDisk'
  <2>1. BagToSet(answers') \subseteq BagToSet(answers)
    BY <1>3, BagsHold
  <2> QED
    BY <1>1, <1>3, <1>9, <1>10, <2>1
       DEF GoodTip, GoodAnswers, GoodFetch, GoodProducer, GoodDisk, IInv
<1> QED
  BY <1>3, <1>9, <1>11, <1>12, <1>13 DEF IInv

\* The braid takes the tip on by itself.
LEMMA DrainKeeps ==
    ASSUME IInv, Drain
    PROVE  IInv'
<1>1. PICK d \in Drained(chain) :
         /\ chain' = d /\ unwritten' = Path(chain, d)
         /\ pending' = {b \in pending : Height(b) > Height(d)}
  BY DEF Drain
<1>2. /\ up /\ unwritten = <<>> /\ up' = up /\ answers' = answers /\ ring' = ring
      /\ limits' = limits /\ UNCHANGED <<network, frontier, indexing, disk>>
  BY DEF Drain
<1>3. /\ limits \in Limits /\ chain \in Chains(limits) /\ GoodProducer
      /\ GoodWait(pending, chain, limits) /\ GoodRing(ring, chain, limits)
  BY <1>2 DEF IInv, GoodProducer, GoodTip
<1>4. d \in Chains(limits) /\ IsPrefix(chain, d) /\ IsPrefix(d, d)
  BY <1>3, DrainedIs, PrefixOrder
<1>5. log' = log /\ snap' = snap /\ UNCHANGED <<canon, era, abandoned>>
  BY <1>2 DEF disk, network
<1>6. GoodTail' /\ HistoryOnDisk'
  BY <1>1, <1>2, <1>4, <1>5, ApplyingKeepsHistory
<1>7. GoodWait(pending', chain', limits')
  BY <1>1, <1>2, <1>3, WaitAbove
<1>8. GoodRing(ring', chain', limits')
  BY <1>1, <1>2, <1>3, <1>4, RingGrows
<1>9. GoodTip' /\ GoodAnswers' /\ GoodFetch' /\ GoodProducer' /\ GoodDisk'
  BY <1>1, <1>2, <1>4, <1>5
     DEF GoodTip, GoodAnswers, GoodFetch, GoodProducer, GoodDisk, IInv
<1> QED
  BY <1>6, <1>7, <1>8, <1>9 DEF IInv

\* The invariant is inductive.
LEMMA StepKeeps ==
    IInv /\ [Next]_vars => IInv'
<1> SUFFICES ASSUME IInv, [Next]_vars
             PROVE  IInv'
  OBVIOUS
<1>1. CASE UNCHANGED vars
  <2>1. /\ limits' = limits /\ answers' = answers
        /\ UNCHANGED <<canon, era, abandoned, frontier, indexing>>
        /\ UNCHANGED <<up, chain, pending, unwritten, ring, log, idx, snap>>
    BY <1>1 DEF vars
  <2>2. GoodProducer' /\ GoodAnswers' /\ GoodFetch'
    BY <2>1 DEF IInv, GoodProducer, GoodAnswers, GoodFetch
  <2> QED
    BY <2>1, <2>2, OthersKeep
<1>2. CASE Arrive
  BY <1>2, DeliverKeeps DEF Arrive
<1>3. CASE Mint \/ Rewind \/ Forget \/ AskAhead \/ AskNext
  BY <1>3, MintKeeps, RewindKeeps, ForgetKeeps, AskKeeps
<1>4. CASE Drain \/ Write \/ Heartbeat
  BY <1>4, DrainKeeps, WriteKeeps, HeartbeatKeeps
<1>5. CASE Shutdown \/ Crash \/ PowerLoss
  BY <1>5, StopsKeep
<1>6. CASE Boot
  BY <1>6, BootKeeps
<1> QED
  BY <1>1, <1>2, <1>3, <1>4, <1>5, <1>6 DEF Next

\* So it always holds.
LEMMA InvariantHolds ==
    Spec => []IInv
  BY InitGood, StepKeeps, PTL DEF Spec

-----------------------------------------------------------------------------
(* What follows.                                                            *)

\* The invariant says what the type invariant says.
LEMMA InvariantTypes ==
    IInv => TypeOK
<1> SUFFICES ASSUME IInv
             PROVE  TypeOK
  OBVIOUS
<1>1. limits \in Limits /\ ChainOf = Chains(limits)
  BY ChainOfIs DEF IInv, GoodProducer
<1>2. /\ limits \in Limits /\ canon \in ChainOf /\ era \in 0 .. limits.rewinds
      /\ \A a \in BagToSet(answers) : a.chain \in ChainOf /\ a.from \in 1 .. Height(a.chain)
      /\ abandoned \subseteq ChainOf
      /\ frontier \in 1 .. limits.height + Chunk /\ indexing \in BOOLEAN
      /\ up \in BOOLEAN /\ (IF up THEN chain \in ChainOf ELSE chain = NoBlock)
      /\ snap \in ChainOf \union {NoBlock}
  BY <1>1 DEF IInv, GoodProducer, GoodAnswers, GoodFetch, GoodTip, GoodDisk
<1>3. /\ pending \subseteq ChainOf
      /\ \A b, c \in pending : Height(b) = Height(c) => b = c
      /\ \A b \in pending : Height(b) > Height(chain)
  BY <1>1 DEF IInv, GoodWait
<1>4. \A k \in DOMAIN unwritten : unwritten[k] \in ChainOf
  <2>1. unwritten \in Seq(Chains(limits))
    BY DEF IInv, GoodTail
  <2> QED
    BY <1>1, <2>1, LenProperties, ElementOfSeq
<1>5. \A k \in DOMAIN ring.ckpts : ring.ckpts[k] \in ChainOf
  <2>1. ring.ckpts \in Seq(Chains(limits))
    BY DEF IInv, GoodRing, Rings
  <2> QED
    BY <1>1, <2>1, LenProperties, ElementOfSeq
<1>6. \A p \in DOMAIN log : log[p] \in Items
  <2>1. log \in Seq(ItemsOf(limits)) /\ Items = ItemsOf(limits)
    BY <1>1 DEF IInv, GoodDisk, GoodLog, Items, ItemsOf
  <2> QED
    BY <2>1, LenProperties, ElementOfSeq
<1> QED
  BY <1>2, <1>3, <1>4, <1>5, <1>6 DEF TypeOK

\* Every part of the follower keeps its type; in particular a boot of whatever a
\* stop left on disk, and every rollback, ends on a chain.
THEOREM TypeCorrect ==
    Spec => []TypeOK
  BY InvariantHolds, InvariantTypes, PTL

\* No rollback leads to a branch the node has left: the checkpoints are always
\* ancestors of the tip, oldest first, within the cap.
THEOREM RingStaysOnChain ==
    Spec => []RingOnChain
<1>1. IInv => RingOnChain
  <2> SUFFICES ASSUME IInv
               PROVE  RingOnChain
    OBVIOUS
  <2>1. Ascending(ring.ckpts, chain) /\ DOMAIN ring.ckpts = 1 .. Len(ring.ckpts)
    BY LenProperties DEF IInv, GoodRing, Rings
  <2> QED
    BY <2>1 DEF RingOnChain, Ascending
<1> QED
  BY <1>1, InvariantHolds, PTL

\* Whatever a running node builds on is in its log or on its way there, block by
\* block from genesis, after any sequence of crashes, torn records, power losses,
\* boots and rollbacks.
THEOREM HistoryStaysOnDisk ==
    Spec => []HistoryOnDisk
<1>1. IInv => HistoryOnDisk
  BY DEF IInv
<1> QED
  BY <1>1, InvariantHolds, PTL

-----------------------------------------------------------------------------
(* Where a boot resumes.                                                    *)

\* From some record on every tip is in a set that holds the records offered.
LEMMA AppliedFrom ==
    ASSUME NEW S, NEW c \in S, NEW records, NEW from, Len(records) \in Nat,
           \A p \in 1 .. Len(records) :
              Height(records[p].block) >= from => records[p].block \in S
    PROVE  ApplyAll(c, records, from) \in S
<1> DEFINE t == Tips(c, records, from)
           Out == {k \in Nat : k <= Len(records) /\ t[k] \notin S}
<1>1. t[0] = c /\ \A n \in 1 .. Len(records) : t[n] = Step(t[n - 1], records[n].block, from)
  BY TipsAre
<1> HIDE DEF t
<1>2. SUFFICES ASSUME Out # {}
               PROVE  FALSE
  BY DEF ApplyAll, t
<1>3. PICK k \in Out : \A j \in Out : k <= j
  BY <1>2, LeastNatural
<1>4. k \in 1 .. Len(records) /\ k - 1 \in Nat /\ ~(k <= k - 1)
  BY <1>1, <1>3
<1>5. t[k - 1] \in S
  BY <1>3, <1>4
<1>6. t[k] \in S
  BY <1>1, <1>4, <1>5 DEF Step
<1> QED
  BY <1>3, <1>6

\* The parts of a chain are told apart by their heights.
LEMMA PartsByHeight ==
    ASSUME NEW l \in Limits, NEW own \in Chains(l), NEW c \in Chains(l), NEW d \in Chains(l),
           IsPrefix(c, own), IsPrefix(d, own), Height(c) = Height(d)
    PROVE  c = d
<1>1. Height(c) \in Nat /\ Height(c) \in 0 .. Height(c) /\ Height(d) \in 0 .. Height(d)
  BY ChainSize
<1>2. UpTo(own, Height(c)) = UpTo(c, Height(c)) /\ UpTo(own, Height(d)) = UpTo(d, Height(d))
  BY <1>1, SamePart
<1> QED
  BY <1>1, <1>2, PartIsPrefix

\* The last readable record, and what the readers hand on.
LEMMA OwnIs ==
    ASSUME NEW l \in Limits, NEW lg, GoodLog(lg, l)
    PROVE  /\ Last(replay(lg)).block = replay(lg)[Len(replay(lg))].block
           /\ Last(replay(lg)).block \in Chains(l)
           /\ tip_real_height(lg) \in {Height(Last(replay(lg)).block), NoHeight}
           /\ \A p \in 1 .. Len(replay(lg)) : replay(lg)[p].block \in Chains(l)
           /\ \A b \in RecordsOf(lg) : b \in Chains(l)
<1>1. lg \in Seq(ItemsOf(l))
  BY DEF GoodLog
<1>2. \A b \in RecordsOf(lg) : b \in Chains(l)
  BY <1>1, RecordsAre
<1>3. /\ Len(replay(lg)) \in Nat /\ Len(replay(lg)) >= 1
      /\ \A p \in 1 .. Len(replay(lg)) : replay(lg)[p].block \in RecordsOf(lg)
  BY ReplayIs
<1>4. Last(replay(lg)) = replay(lg)[Len(replay(lg))]
  BY DEF Last
<1>5. Len(replay(lg)) \in 1 .. Len(replay(lg))
  BY <1>3
<1>6. tip_real_height(lg) \in {Height(Last(replay(lg)).block), NoHeight}
  BY DEF tip_real_height, replay
<1> QED
  BY <1>2, <1>3, <1>4, <1>5, <1>6

\* While every readable record is on the last one's branch, a full replay applies
\* them in turn: after each the tip is as high as any record so far, since the
\* parent of the next is among them.
LEMMA ReplayEndsAtOwn ==
    ASSUME NEW l \in Limits, NEW lg, GoodLog(lg, l),
           \A b \in RecordsOf(lg) : IsPrefix(b, Last(replay(lg)).block)
    PROVE  ApplyAll(NoBlock, replay(lg), 0) = Last(replay(lg)).block
<1> DEFINE own == Last(replay(lg)).block
           R   == replay(lg)
           t   == Tips(NoBlock, R, 0)
           Up(k) == /\ t[k] \in Chains(l) /\ IsPrefix(t[k], own)
                    /\ \A j \in 1 .. k : Height(R[j].block) <= Height(t[k])
           Out == {k \in Nat : 1 <= k /\ k <= Len(R) /\ ~Up(k)}
<1>1. /\ Len(R) \in Nat /\ Len(R) >= 1 /\ R[1].block = genesis
      /\ own = R[Len(R)].block /\ own \in Chains(l)
      /\ \A p \in 1 .. Len(R) : R[p].block \in Chains(l) /\ IsPrefix(R[p].block, own)
  BY ReplayIs, OwnIs
<1>2. t[0] = NoBlock /\ \A n \in 1 .. Len(R) : t[n] = Step(t[n - 1], R[n].block, 0)
  BY <1>1, TipsAre
<1>3. \A p \in 2 .. Len(R) :
          /\ Height(R[p].block) >= 1
          /\ \E q \in 1 .. p - 1 : R[q].block = Parent(R[p].block)
  <2>1. TAKE p \in 2 .. Len(R)
  <2>2. /\ Len(R) \in 1 .. Len(lg) /\ \A i \in 1 .. Len(R) : R[i] = lg[i] /\ IsRec(lg[i])
        /\ Len(lg) \in Nat
    BY ReadableIs, RecordsAre DEF replay, GoodLog
  <2>3. p \in 2 .. Len(lg) /\ p \in 1 .. Len(R) /\ R[p] = lg[p] /\ IsRec(lg[p])
    BY <2>1, <2>2
  <2>4. PICK q \in 1 .. p - 1 : lg[q].block = Parent(lg[p].block)
    BY <2>3 DEF GoodLog
  <2>5. q \in 1 .. Len(R)
    BY <2>2, <2>3, <2>4
  <2> QED
    BY <2>2, <2>3, <2>4, <2>5 DEF GoodLog
<1> HIDE DEF own, R, t
<1>4. \A c \in Chains(l) : Height(c) \in Nat
  BY ChainSize
<1>5. Up(1)
  <2>1. Step(NoBlock, genesis, 0) = genesis /\ genesis \in Chains(l)
    BY GenesisIs, ParentIs DEF Step
  <2>2. t[1] = R[1].block /\ 1 \in 1 .. Len(R)
    BY <1>1, <1>2, <2>1
  <2> QED
    BY <1>1, <1>4, <2>2
<1>6. Out = {}
  <2>1. SUFFICES ASSUME Out # {}
                 PROVE  FALSE
    OBVIOUS
  <2>2. PICK k \in Out : \A j \in Out : k <= j
    BY <2>1, LeastNatural
  <2>3. k \in 2 .. Len(R) /\ k \in 1 .. Len(R) /\ k - 1 \in Nat /\ 1 <= k - 1 /\ ~(k <= k - 1)
    BY <1>1, <1>5, <2>2
  <2>4. Up(k - 1)
    BY <1>1, <2>2, <2>3
  <2> DEFINE b == R[k].block
             c == t[k - 1]
  <2>5. /\ b \in Chains(l) /\ IsPrefix(b, own) /\ Height(b) \in Nat /\ Height(b) >= 1
        /\ c \in Chains(l) /\ IsPrefix(c, own) /\ Height(c) \in Nat
    BY <1>1, <1>3, <1>4, <2>3, <2>4
  <2>6. PICK q \in 1 .. k - 1 : R[q].block = Parent(b)
    BY <1>3, <2>3
  <2>7. q \in 1 .. Len(R)
    BY <1>1, <2>3, <2>6
  <2>8. Parent(b) = UpTo(b, Height(b) - 1) /\ Height(b) - 1 \in 0 .. Height(b)
    BY <2>5, ParentIs
  <2>9. /\ Parent(b) \in Chains(l) /\ IsPrefix(Parent(b), own)
        /\ Height(Parent(b)) = Height(b) - 1 /\ Height(Parent(b)) <= Height(c)
    BY <1>1, <2>4, <2>5, <2>6, <2>7, <2>8, PartOf
  <2>10. t[k] = IF Parent(b) = c THEN b ELSE c
    BY <1>2, <2>3, <2>5 DEF Step
  <2>11. \A j \in 1 .. k : j \in 1 .. k - 1 \/ j = k
    BY <2>3
  <2> HIDE DEF b, c
  <2>12. CASE Height(b) <= Height(c)
    <3>1. t[k] = c
      BY <2>5, <2>9, <2>10, <2>12
    <3>2. \A j \in 1 .. k : Height(R[j].block) <= Height(t[k])
      BY <2>4, <2>11, <2>12, <3>1 DEF b, c
    <3> QED
      BY <2>2, <2>5, <3>1, <3>2
  <2>13. CASE ~(Height(b) <= Height(c))
    <3>1. Height(Parent(b)) = Height(c) /\ Height(b) = Height(c) + 1
      BY <2>5, <2>9, <2>13
    <3>2. t[k] = b
      BY <1>1, <2>5, <2>9, <2>10, <3>1, PartsByHeight
    <3>3. \A j \in 1 .. k - 1 : j \in 1 .. Len(R)
      BY <1>1, <2>3
    <3>4. \A j \in 1 .. k - 1 : Height(R[j].block) \in Nat /\ Height(R[j].block) <= Height(c)
      BY <1>1, <1>4, <2>4, <3>3 DEF c
    <3>5. \A j \in 1 .. k : Height(R[j].block) <= Height(t[k])
      BY <2>5, <2>11, <3>1, <3>2, <3>4 DEF b
    <3> QED
      BY <2>2, <2>5, <3>2, <3>5
  <2> QED
    BY <2>12, <2>13
<1>7. Up(Len(R))
  BY <1>1, <1>6
<1>8. t[Len(R)] = own
  <2>1. Height(own) <= Height(t[Len(R)]) /\ Height(t[Len(R)]) <= Height(own)
    BY <1>1, <1>7, PrefixOrder
  <2> QED
    BY <1>1, <1>4, <1>7, <2>1, PartsByHeight, PrefixOrder
<1> QED
  BY <1>8 DEF ApplyAll, own, R, t

\* A boot from a snapshot ends at the last readable record, if every record of
\* another branch is below the snapshot: its check of the height reached leaves
\* no other part of that branch.
LEMMA RestoredIsOwn ==
    ASSUME NEW l \in Limits, NEW lg, GoodLog(lg, l), NEW ix, NEW sn, SnapshotBoots(lg, ix, sn),
           IsPrefix(sn, Last(replay(lg)).block),
           \A b \in RecordsOf(lg) : IsPrefix(b, Last(replay(lg)).block) \/ Height(b) < Height(sn)
    PROVE  BootedChain(lg, ix, sn) = Last(replay(lg)).block
<1> DEFINE own  == Last(replay(lg)).block
           from == Height(sn) + 1
           tail == replay_from(lg, ix, from)
           S    == {b \in Chains(l) : IsPrefix(b, own)}
<1>1. /\ own \in Chains(l) /\ tip_real_height(lg) \in {Height(own), NoHeight}
      /\ \A b \in RecordsOf(lg) : b \in Chains(l)
  BY OwnIs
<1>2. sn \in Chains(l) /\ sn \in S
  BY <1>1, FoundIsRecord DEF SnapshotBoots
<1>3. Len(tail) \in Nat /\ \A p \in 1 .. Len(tail) : tail[p].block \in RecordsOf(lg)
  BY ReplayIs
<1>4. \A c \in Chains(l) : Height(c) \in Nat
  BY ChainSize
<1>5. \A b \in RecordsOf(lg) : Height(b) >= from => b \in S
  BY <1>1, <1>2, <1>4
<1> HIDE DEF own, from, tail, S
<1>6. ApplyAll(sn, tail, from) \in S
  BY <1>2, <1>3, <1>5, AppliedFrom
<1>7. Restored(lg, ix, sn) = ApplyAll(sn, tail, from)
  BY DEF Restored, tail, from
<1>8. Height(Restored(lg, ix, sn)) = Height(own)
  <2>1. Height(Restored(lg, ix, sn)) \in Nat
    BY <1>4, <1>6, <1>7 DEF S
  <2>2. Height(Restored(lg, ix, sn)) = tip_real_height(lg)
    BY DEF SnapshotBoots
  <2> QED
    BY <1>1, <2>1, <2>2 DEF NoHeight
<1>9. Restored(lg, ix, sn) = own
  BY <1>1, <1>6, <1>7, <1>8, PartsByHeight, PrefixOrder DEF S
<1> QED
  BY <1>9 DEF BootedChain, own

\* With one branch in the log a boot ends at its last readable record, whatever
\* the index and the snapshot are.
LEMMA OneBranchBoots ==
    ASSUME NEW l \in Limits, NEW lg, GoodLog(lg, l), NEW ix, NEW sn,
           \A b \in RecordsOf(lg) : IsPrefix(b, Last(replay(lg)).block)
    PROVE  BootedChain(lg, ix, sn) = Last(replay(lg)).block
<1>1. CASE SnapshotBoots(lg, ix, sn)
  <2>1. sn \in RecordsOf(lg)
    BY <1>1, FoundIsRecord DEF SnapshotBoots
  <2> QED
    BY <1>1, <2>1, RestoredIsOwn
<1>2. CASE ~SnapshotBoots(lg, ix, sn)
  BY <1>2, ReplayEndsAtOwn DEF BootedChain
<1> QED
  BY <1>1, <1>2

\* Only a boot starts a stopped node.
LEMMA OnlyBoots ==
    ASSUME [Next]_vars, ~up, up'
    PROVE  Boot
<1>1. CASE \/ Mint \/ Rewind \/ Forget \/ AskAhead \/ AskNext \/ Arrive \/ Drain \/ Write
           \/ Heartbeat
  BY <1>1 DEF Mint, Rewind, Forget, AskAhead, AskNext, Request, Arrive, Deliver, Drain, Write,
     Heartbeat
<1>2. CASE Shutdown \/ Crash \/ PowerLoss
  BY <1>2 DEF Shutdown, Crash, PowerLoss, Halt
<1> QED
  BY <1>1, <1>2 DEF Next, vars

\* While the log holds one branch, a boot resumes at the last record before the
\* first torn one, from whatever index, snapshot and log the stops so far have
\* left: BootResumes without its second case.
BootResumesOneBranch ==
    [][ LET own == Last(replay(log)).block
        IN (~up /\ up' /\ OneBranch(own)) => chain' = own ]_vars

THEOREM OneBranchResumes ==
    Spec => BootResumesOneBranch
<1>1. IInv /\ [Next]_vars =>
          [LET own == Last(replay(log)).block
           IN (~up /\ up' /\ OneBranch(own)) => chain' = own]_vars
  <2> SUFFICES ASSUME IInv, [Next]_vars, ~up, up', OneBranch(Last(replay(log)).block)
               PROVE  chain' = Last(replay(log)).block
    OBVIOUS
  <2>1. chain' = BootedChain(log, idx, snap)
    BY OnlyBoots DEF Boot
  <2>2. limits \in Limits /\ GoodLog(log, limits)
    BY DEF IInv, GoodProducer, GoodDisk
  <2> QED
    BY <2>1, <2>2, OneBranchBoots DEF OneBranch
<1> QED
  BY <1>1, InvariantHolds, PTL DEF Spec, BootResumesOneBranch

\* A record is no earlier in the log than it is high.
LEMMA HighRecordsAreLate ==
    ASSUME NEW l \in Limits, NEW lg, GoodLog(lg, l),
           NEW p \in 1 .. Len(lg), IsRec(lg[p])
    PROVE  Height(lg[p].block) <= p - 1
<1> DEFINE Out == {k \in Nat : k \in 1 .. Len(lg) /\ IsRec(lg[k]) /\ ~(Height(lg[k].block) <= k - 1)}
<1>1. SUFFICES ASSUME Out # {}
               PROVE  FALSE
  BY DEF GoodLog
<1>2. PICK k \in Out : \A j \in Out : k <= j
  BY <1>1, LeastNatural
<1>3. /\ lg \in Seq(ItemsOf(l)) /\ Len(lg) \in Nat /\ lg[1] = Rec(genesis)
      /\ \A b \in RecordsOf(lg) : b \in Chains(l)
      /\ \A q \in 1 .. Len(lg) : IsRec(lg[q]) => lg[q].block \in RecordsOf(lg)
  BY RecordsAre DEF GoodLog
<1>4. k # 1
  <2>1. Height(genesis) = 0 /\ Rec(genesis).block = genesis
    BY GenesisIs DEF Rec
  <2> QED
    BY <1>2, <1>3, <2>1
<1>5. k \in 2 .. Len(lg) /\ k \in 1 .. Len(lg)
  BY <1>2, <1>3, <1>4
<1>6. PICK q \in 1 .. k - 1 : IsRec(lg[q]) /\ lg[q].block = Parent(lg[k].block)
  BY <1>2, <1>5 DEF GoodLog
<1>7. lg[k].block \in Chains(l) /\ Height(lg[k].block) >= 1
  BY <1>2, <1>3, <1>5 DEF GoodLog
<1>8. Height(lg[k].block) \in Nat /\ Height(lg[q].block) = Height(lg[k].block) - 1
  BY <1>6, <1>7, ChainSize, ParentIs, PartOf
<1>9. q \in Nat /\ q \in 1 .. Len(lg) /\ ~(k <= q)
  BY <1>2, <1>3, <1>5, <1>6
<1>10. Height(lg[q].block) <= q - 1
  BY <1>2, <1>6, <1>9
<1> QED
  BY <1>2, <1>5, <1>6, <1>8, <1>9, <1>10

\* A snapshot the log holds, past every other branch, is restored to the last
\* record, if the index skips no record above it: each record above the tip so
\* far is a child of a record that was offered before it, or of the snapshot.
LEMMA RestoreReachesOwn ==
    ASSUME NEW l \in Limits, NEW lg, GoodLog(lg, l), Intact(lg), NEW ix,
           NEW sn \in RecordsOf(lg), IsPrefix(sn, Last(replay(lg)).block),
           \A b \in RecordsOf(lg) : IsPrefix(b, Last(replay(lg)).block) \/ Height(b) < Height(sn),
           \A p \in 1 .. idx_seek_offset(ix, lg, Height(sn) + 1) - 1 :
              Height(lg[p].block) <= Height(sn)
    PROVE  Restored(lg, ix, sn) = Last(replay(lg)).block
<1> DEFINE own   == Last(replay(lg)).block
           from  == Height(sn) + 1
           seek  == idx_seek_offset(ix, lg, from)
           start == IF seek = Unusable THEN 1 ELSE seek
           R     == replay_from(lg, ix, from)
           t     == Tips(sn, R, from)
           Up(k) == /\ t[k] \in Chains(l) /\ IsPrefix(t[k], own) /\ Height(sn) <= Height(t[k])
                    /\ \A j \in 1 .. k : Height(R[j].block) <= Height(t[k])
           Out   == {k \in Nat : k <= Len(R) /\ ~Up(k)}
<1>1. /\ lg \in Seq(ItemsOf(l)) /\ Len(lg) \in Nat /\ Len(lg) >= 1
      /\ DOMAIN lg = 1 .. Len(lg) /\ Readable(lg) = lg
      /\ \A p \in 1 .. Len(lg) : IsRec(lg[p]) /\ lg[p].block \in RecordsOf(lg)
  <2>1. /\ lg \in Seq(ItemsOf(l)) /\ Len(lg) \in Nat /\ Len(lg) >= 1
        /\ DOMAIN lg = 1 .. Len(lg)
        /\ \A p \in 1 .. Len(lg) : IsRec(lg[p]) => lg[p].block \in RecordsOf(lg)
    BY RecordsAre DEF GoodLog
  <2>2. \A p \in 1 .. Len(lg) : IsRec(lg[p])
    BY <2>1 DEF Intact
  <2>3. Readable(lg) = lg
    BY <2>1, <2>2, IntactReads
  <2> QED
    BY <2>1, <2>2, <2>3
<1>2. /\ own = lg[Len(lg)].block /\ own \in Chains(l)
      /\ \A b \in RecordsOf(lg) : b \in Chains(l)
  BY <1>1, OwnIs DEF replay
<1>3. start \in 1 .. Len(lg) /\ \A p \in 1 .. start - 1 : Height(lg[p].block) <= Height(sn)
  <2>1. seek \in {1, Unusable} \union DOMAIN Readable(lg)
    BY DEF idx_seek_offset
  <2> HIDE DEF seek
  <2>2. CASE seek = Unusable
    BY <1>1, <2>2
  <2>3. CASE seek # Unusable
    BY <1>1, <2>1, <2>3 DEF seek
  <2> QED
    BY <2>2, <2>3
<1>4. R = SubSeq(lg, start, Len(lg))
  BY <1>1 DEF replay_from
<1> HIDE DEF seek, start
<1>5. /\ Len(R) = Len(lg) - start + 1 /\ Len(R) \in Nat
      /\ \A j \in 1 .. Len(R) : R[j] = lg[start + j - 1] /\ start + j - 1 \in start .. Len(lg)
  <2>1. \A i \in start .. Len(lg) : lg[i] \in ItemsOf(l)
    BY <1>1, <1>3, RecordsAre
  <2>2. start \in Int /\ Len(lg) \in Int /\ start <= Len(lg)
    BY <1>1, <1>3
  <2> HIDE DEF R
  <2>3. /\ Len(R) = Len(lg) - start + 1
        /\ \A i \in 1 .. Len(lg) - start + 1 : R[i] = lg[start + i - 1]
    BY <1>4, <2>1, <2>2, SubSeqProperties
  <2> QED
    BY <1>1, <1>3, <2>2, <2>3
<1>6. t[0] = sn /\ \A n \in 1 .. Len(R) : t[n] = Step(t[n - 1], R[n].block, from)
  BY <1>5, TipsAre
<1>7. \A c \in Chains(l) : Height(c) \in Nat
  BY ChainSize
<1>8. sn \in Chains(l) /\ IsPrefix(sn, own)
  BY <1>2
<1> HIDE DEF own, R, t
<1>9. Up(0)
  BY <1>6, <1>7, <1>8
<1>10. Out = {}
  <2>1. SUFFICES ASSUME Out # {}
                 PROVE  FALSE
    OBVIOUS
  <2>2. PICK k \in Out : \A j \in Out : k <= j
    BY <2>1, LeastNatural
  <2>3. k \in 1 .. Len(R) /\ k - 1 \in Nat /\ ~(k <= k - 1) /\ Len(R) \in Nat
    BY <1>5, <1>9, <2>2
  <2>4. Up(k - 1)
    BY <2>2, <2>3
  <2> DEFINE b  == R[k].block
             c  == t[k - 1]
             at == start + k - 1
  <2>5. /\ at \in start .. Len(lg) /\ at \in 1 .. Len(lg) /\ R[k] = lg[at]
        /\ b \in Chains(l) /\ b \in RecordsOf(lg) /\ Height(b) \in Nat
        /\ c \in Chains(l) /\ IsPrefix(c, own) /\ Height(c) \in Nat
        /\ Height(sn) <= Height(c) /\ Height(sn) \in Nat
    BY <1>1, <1>2, <1>3, <1>5, <1>7, <1>8, <2>3, <2>4
  <2>6. t[k] = IF Height(b) >= from /\ Parent(b) = c THEN b ELSE c
    BY <1>6, <2>3 DEF Step
  <2>7. \A j \in 1 .. k : j \in 1 .. k - 1 \/ j = k
    BY <2>3
  <2>8. Height(b) >= 1 => Height(Parent(b)) = Height(b) - 1
    BY <2>5, ParentIs, PartOf
  <2> HIDE DEF b, c, at
  <2>9. CASE Height(b) <= Height(c)
    <3>1. t[k] = c
      BY <2>5, <2>6, <2>8, <2>9
    <3>2. \A j \in 1 .. k : Height(R[j].block) <= Height(t[k])
      BY <2>4, <2>7, <2>9, <3>1 DEF b, c
    <3> QED
      BY <2>2, <2>5, <3>1, <3>2
  <2>10. CASE ~(Height(b) <= Height(c))
    <3>1. IsPrefix(b, own) /\ Height(b) >= 1 /\ Height(b) >= from
      BY <2>5, <2>10 DEF own
    <3>2. /\ Parent(b) = UpTo(b, Height(b) - 1) /\ Height(b) - 1 \in 0 .. Height(b)
          /\ Parent(b) \in Chains(l) /\ IsPrefix(Parent(b), b)
          /\ Height(Parent(b)) = Height(b) - 1
      BY <2>5, <3>1, ParentIs, PartOf, PartIsPrefix
    <3>3. IsPrefix(Parent(b), own)
      BY <1>2, <2>5, <3>1, <3>2, PrefixOrder
    <3>4. Height(Parent(b)) <= Height(c)
      <4>1. at \in 2 .. Len(lg)
        <5>1. at # 1
          <6>1. Height(genesis) = 0 /\ lg[1].block = genesis
            BY GenesisIs DEF GoodLog, Rec
          <6> QED
            BY <2>5, <3>1, <6>1 DEF b
        <5> QED
          BY <2>5, <5>1
      <4>2. PICK q \in 1 .. at - 1 : lg[q].block = Parent(b)
        BY <1>1, <2>5, <4>1 DEF GoodLog, b
      <4>3. CASE q < start
        BY <1>3, <2>5, <3>2, <4>2, <4>3
      <4>4. CASE ~(q < start)
        <5> DEFINE j == q - start + 1
        <5>1. j \in 1 .. k - 1 /\ j \in 1 .. Len(R) /\ start + j - 1 = q
          BY <1>3, <2>3, <4>2, <4>4 DEF at
        <5> HIDE DEF j
        <5>2. R[j].block = Parent(b)
          BY <1>5, <4>2, <5>1
        <5> QED
          BY <2>4, <5>1, <5>2 DEF c
      <4> QED
        BY <4>3, <4>4
    <3>5. Height(Parent(b)) = Height(c) /\ Height(b) = Height(c) + 1
      BY <2>5, <2>10, <3>2, <3>4
    <3>6. t[k] = b
      BY <1>2, <2>5, <2>6, <3>1, <3>2, <3>3, <3>5, PartsByHeight
    <3>7. \A j \in 1 .. k - 1 : Height(R[j].block) \in Nat /\ Height(R[j].block) <= Height(c)
      <4>1. \A j \in 1 .. k - 1 : j \in 1 .. Len(R)
        BY <2>3
      <4>2. \A j \in 1 .. Len(R) : Height(R[j].block) \in Nat
        BY <1>1, <1>2, <1>3, <1>5, <1>7
      <4> QED
        BY <2>4, <4>1, <4>2 DEF c
    <3>8. \A j \in 1 .. k : Height(R[j].block) <= Height(t[k])
      BY <2>5, <2>7, <3>5, <3>6, <3>7 DEF b
    <3> QED
      BY <2>2, <2>5, <2>10, <3>1, <3>6, <3>8
  <2> QED
    BY <2>9, <2>10
<1>11. Up(Len(R))
  BY <1>5, <1>10
<1>12. t[Len(R)] = own
  <2>1. Len(R) \in 1 .. Len(R) /\ R[Len(R)].block = own
    BY <1>1, <1>2, <1>3, <1>5
  <2>2. Height(own) <= Height(t[Len(R)]) /\ Height(t[Len(R)]) <= Height(own)
    BY <1>2, <1>11, <2>1, PrefixOrder
  <2> QED
    BY <1>2, <1>7, <1>11, <2>2, PartsByHeight, PrefixOrder
<1> QED
  BY <1>12 DEF Restored, ApplyAll, own, R, t

\* A boot then takes the snapshot.
LEMMA FoundBoots ==
    ASSUME NEW l \in Limits, NEW lg, GoodLog(lg, l), Intact(lg), NEW ix,
           NEW sn, sn # NoBlock, IsPrefix(sn, Last(replay(lg)).block),
           get_by_height(lg, ix, Height(sn)) = sn,
           \A b \in RecordsOf(lg) : IsPrefix(b, Last(replay(lg)).block) \/ Height(b) < Height(sn),
           \A p \in 1 .. idx_seek_offset(ix, lg, Height(sn) + 1) - 1 :
              Height(lg[p].block) <= Height(sn)
    PROVE  BootedChain(lg, ix, sn) = Last(replay(lg)).block
<1>1. sn \in RecordsOf(lg)
  BY FoundIsRecord
<1>2. Restored(lg, ix, sn) = Last(replay(lg)).block
  BY <1>1, RestoreReachesOwn
<1>3. Readable(lg) = lg /\ Len(lg) \in Nat
  BY RecordsAre, IntactReads DEF GoodLog
<1>4. height(lg) = Len(lg) /\ tip_real_height(lg) = Height(Last(replay(lg)).block)
  BY <1>3 DEF height, tip_real_height, replay
<1>5. Height(sn) < height(lg)
  <2>1. PICK p \in 1 .. Len(lg) : IsRec(lg[p]) /\ lg[p].block = sn
    BY <1>1, RecordsAre DEF GoodLog
  <2>2. Height(sn) <= p - 1
    BY <2>1, HighRecordsAreLate
  <2>3. Height(sn) \in Nat
    BY <1>1, RecordsAre, ChainSize DEF GoodLog
  <2> QED
    BY <1>3, <1>4, <2>2, <2>3
<1>6. SnapshotBoots(lg, ix, sn)
  BY <1>2, <1>4, <1>5 DEF SnapshotBoots
<1> QED
  BY <1>2, <1>6 DEF BootedChain

\* A boot resumes at the last record before the first torn one: while the log holds
\* one branch, from whatever index and snapshot the stops so far have left; with a
\* rolled back branch in the log below the snapshot, if the index serves it.  The
\* snapshot is then found to be on the log's branch, and the records after it lead
\* to the last one whatever was rolled back and written again in between.
THEOREM BootsResume ==
    Spec => BootResumes
<1>1. IInv /\ [Next]_vars =>
          [LET own == Last(replay(log)).block
           IN (~up /\ up' /\ (OneBranch(own) \/ (SnapshotPast(own) /\ IndexServes)))
                 => chain' = own]_vars
  <2> DEFINE own == Last(replay(log)).block
  <2> SUFFICES ASSUME IInv, [Next]_vars, ~up, up',
                      OneBranch(own) \/ (SnapshotPast(own) /\ IndexServes)
               PROVE  chain' = own
    OBVIOUS
  <2>1. chain' = BootedChain(log, idx, snap)
    BY OnlyBoots DEF Boot
  <2>2. limits \in Limits /\ GoodLog(log, limits)
    BY DEF IInv, GoodProducer, GoodDisk
  <2>3. CASE OneBranch(own)
    BY <2>1, <2>2, <2>3, OneBranchBoots DEF OneBranch
  <2>4. CASE SnapshotPast(own) /\ IndexServes
    BY <2>1, <2>2, <2>4, FoundBoots DEF SnapshotPast, IndexServes
  <2> QED
    BY <2>3, <2>4
<1> QED
  BY <1>1, InvariantHolds, PTL DEF Spec, BootResumes

=============================================================================
