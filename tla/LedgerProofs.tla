----------------------------- MODULE LedgerProofs -----------------------------
(***************************************************************************)
(* Proofs about Ledger for every capacity, window, schedule and payments:   *)
(* the numbering of the epochs and the replay guard.                        *)
(***************************************************************************)
EXTENDS Ledger, SequenceTheorems, TLAPS

Root == Generation \X Seq(Commitment)
Archived == [notes : Seq(Commitment), generation : Generation]
Fields == {"notes", "value_locked", "epoch", "v1_closed", "v7", "archive", "nullifiers",
           "anchors", "anchor_epoch", "anchors_dirty", "indexed", "seen"}

IsPool(p) ==
    /\ DOMAIN p = Fields /\ DOMAIN p.v7 = {"epoch", "notes", "value_locked"}
    /\ p.notes \in Seq(Commitment) /\ p.v7.notes \in Seq(Commitment)
    /\ p.epoch \in Nat /\ p.v7.epoch \in Nat
    /\ p.v1_closed \in BOOLEAN /\ p.indexed \in BOOLEAN
    /\ p.archive \in Seq(Archived)
    /\ p.anchors \in Seq(Root) /\ DOMAIN p.anchor_epoch \subseteq Root

\* How the live epochs are numbered against the archive.
Numbered(p) ==
    /\ p.v7.epoch = 0 => ~p.v1_closed /\ p.v7.notes = <<>>
    /\ ~p.v1_closed => Len(p.archive) = p.epoch
    /\ ~p.v1_closed /\ p.v7.epoch > 0 => p.v7.epoch = p.epoch + 1
    /\ p.v1_closed => Len(p.archive) = p.v7.epoch /\ p.notes = <<>>

SeenIsHeld(p) == p.indexed => p.seen = Held(p)

OneTreeEach(p) ==
    /\ \A t \in Trees(p) : IsInjective(t.notes)
    /\ \A s, t \in Trees(p) : s # t => ToSet(s.notes) \intersect ToSet(t.notes) = {}

Sound(p) ==
    /\ IsPool(p) /\ Numbered(p)
    /\ EpochsNamed(p) /\ SeenIsHeld(p) /\ OneTreeEach(p)

-----------------------------------------------------------------------------
(* Trees.                                                                   *)

Tree(g, e, ns) == [generation |-> g, epoch |-> e, notes |-> ns]

\* The trees are the sealed ones and the live ones.
LEMMA TreesAre ==
    ASSUME NEW p, NEW t
    PROVE  t \in Trees(p) <=>
             \/ \E i \in DOMAIN p.archive :
                   t = Tree(p.archive[i].generation, i - 1, p.archive[i].notes)
             \/ ~p.v1_closed /\ t = Tree("V1", p.epoch, p.notes)
             \/ v7_active(p) /\ t = Tree("V7", p.v7.epoch, p.v7.notes)
  BY DEF Trees, Tree

\* A tree is a sequence of commitments of a generation.
LEMMA TreeType ==
    ASSUME NEW p, IsPool(p), NEW t \in Trees(p)
    PROVE  t.notes \in Seq(Commitment) /\ t.generation \in Generation /\ t.epoch \in Int
<1>1. CASE \E i \in DOMAIN p.archive :
              t = Tree(p.archive[i].generation, i - 1, p.archive[i].notes)
  <2>1. PICK i \in DOMAIN p.archive :
                t = Tree(p.archive[i].generation, i - 1, p.archive[i].notes)
    BY <1>1
  <2>2. i \in Nat /\ p.archive[i] \in Archived
    BY DEF IsPool
  <2>3. p.archive[i].notes \in Seq(Commitment) /\ p.archive[i].generation \in Generation
    BY <2>2 DEF Archived
  <2> QED
    BY <2>1, <2>2, <2>3 DEF Tree
<1>2. CASE t = Tree("V1", p.epoch, p.notes)
  BY <1>2 DEF IsPool, Tree, Generation
<1>3. CASE t = Tree("V7", p.v7.epoch, p.v7.notes)
  BY <1>3 DEF IsPool, Tree, Generation
<1> QED
  BY <1>1, <1>2, <1>3, TreesAre

\* No two trees have one number.
LEMMA TreesNumbered ==
    ASSUME NEW p, IsPool(p), Numbered(p), NEW s \in Trees(p), NEW t \in Trees(p),
           s.epoch = t.epoch
    PROVE  s = t
<1> DEFINE Sealed(u, i) == u = Tree(p.archive[i].generation, i - 1, p.archive[i].notes)
<1>1. DOMAIN p.archive = 1 .. Len(p.archive) /\ Len(p.archive) \in Nat
  BY DEF IsPool
<1>2. \A u \in Trees(p) :
         \/ \E i \in 1 .. Len(p.archive) : Sealed(u, i) /\ u.epoch = i - 1
         \/ ~p.v1_closed /\ u = Tree("V1", p.epoch, p.notes) /\ u.epoch = Len(p.archive)
         \/ p.v7.epoch > 0 /\ u = Tree("V7", p.v7.epoch, p.v7.notes) /\ u.epoch = p.v7.epoch
  BY <1>1, TreesAre DEF Tree, Numbered, v7_active
<1>3. p.v7.epoch > 0 => \/ p.v7.epoch = Len(p.archive) /\ p.v1_closed
                        \/ p.v7.epoch = Len(p.archive) + 1
  BY DEF Numbered, IsPool
<1>4. p.v1_closed \in BOOLEAN /\ p.v7.epoch \in Nat
  BY DEF IsPool
<1>5. CASE \E i \in 1 .. Len(p.archive) : Sealed(s, i) /\ s.epoch = i - 1
  <2>1. PICK i \in 1 .. Len(p.archive) : Sealed(s, i) /\ s.epoch = i - 1
    BY <1>5
  <2>2. t.epoch < Len(p.archive)
    BY <1>1, <2>1
  <2>3. PICK j \in 1 .. Len(p.archive) : Sealed(t, j) /\ t.epoch = j - 1
    BY <1>1, <1>2, <1>3, <1>4, <2>2
  <2>4. i = j
    BY <1>1, <2>1, <2>3
  <2> QED
    BY <2>1, <2>3, <2>4
<1>6. CASE ~p.v1_closed /\ s = Tree("V1", p.epoch, p.notes) /\ s.epoch = Len(p.archive)
  <2>1. \A i \in 1 .. Len(p.archive) : t.epoch # i - 1
    BY <1>1, <1>6
  <2> QED
    BY <1>1, <1>2, <1>3, <1>4, <1>6, <2>1
<1>7. CASE p.v7.epoch > 0 /\ s = Tree("V7", p.v7.epoch, p.v7.notes) /\ s.epoch = p.v7.epoch
  <2>1. \A i \in 1 .. Len(p.archive) : t.epoch # i - 1
    BY <1>1, <1>3, <1>7
  <2> QED
    BY <1>1, <1>2, <1>3, <1>4, <1>7, <2>1
<1> QED
  BY <1>2, <1>5, <1>6, <1>7

\* What the pool holds is what its trees hold.
LEMMA HeldInTrees ==
    ASSUME NEW p, IsPool(p), Numbered(p), NEW cm
    PROVE  cm \in Held(p) <=> \E t \in Trees(p) : cm \in ToSet(t.notes)
<1>1. p.v1_closed => p.notes = <<>>
  BY DEF Numbered
<1>2. ~v7_active(p) => p.v7.notes = <<>>
  BY DEF Numbered, v7_active, IsPool
<1>3. ToSet(<<>>) = {}
  BY DEF ToSet
<1>4. ASSUME NEW t \in Trees(p), cm \in ToSet(t.notes) PROVE cm \in Held(p)
  <2>1. CASE \E i \in DOMAIN p.archive :
                t = Tree(p.archive[i].generation, i - 1, p.archive[i].notes)
    BY <1>4, <2>1 DEF Tree, Held, ToSet
  <2>2. CASE t = Tree("V1", p.epoch, p.notes)
    BY <1>4, <2>2 DEF Tree, Held
  <2>3. CASE t = Tree("V7", p.v7.epoch, p.v7.notes)
    BY <1>4, <2>3 DEF Tree, Held
  <2> QED
    BY <2>1, <2>2, <2>3, TreesAre
<1>5. ASSUME cm \in Held(p) PROVE \E t \in Trees(p) : cm \in ToSet(t.notes)
  <2>1. CASE cm \in ToSet(p.notes)
    <3>1. Tree("V1", p.epoch, p.notes) \in Trees(p)
      BY <1>1, <1>3, <2>1, TreesAre DEF IsPool
    <3> QED
      BY <2>1, <3>1 DEF Tree
  <2>2. CASE cm \in ToSet(p.v7.notes)
    <3>1. Tree("V7", p.v7.epoch, p.v7.notes) \in Trees(p)
      BY <1>2, <1>3, <2>2, TreesAre
    <3> QED
      BY <2>2, <3>1 DEF Tree
  <2>3. CASE \E a \in ToSet(p.archive) : cm \in ToSet(a.notes)
    <3>1. PICK i \in DOMAIN p.archive : cm \in ToSet(p.archive[i].notes)
      BY <2>3 DEF ToSet
    <3>2. Tree(p.archive[i].generation, i - 1, p.archive[i].notes) \in Trees(p)
      BY TreesAre
    <3> QED
      BY <3>1, <3>2 DEF Tree
  <2> QED
    BY <1>5, <2>1, <2>2, <2>3 DEF Held
<1> QED
  BY <1>4, <1>5

-----------------------------------------------------------------------------
(* Steps that move no note: a pool with the same or more trees, the new ones *)
(* empty, and roots that name trees.                                        *)

MoreTrees(p, q) ==
    /\ Trees(p) \subseteq Trees(q)
    /\ \A t \in Trees(q) : t \in Trees(p) \/ t.notes = <<>>

NamesTrees(p, q) ==
    \A r \in DOMAIN q.anchor_epoch :
        \/ r \in DOMAIN p.anchor_epoch /\ q.anchor_epoch[r] = p.anchor_epoch[r]
        \/ \E t \in Trees(q) : t.generation = r[1] /\ t.notes = r[2]
                              /\ t.epoch = q.anchor_epoch[r]

\* Its tags, its value and its window are as they were.
SameBooks(p, q) ==
    /\ q.nullifiers = p.nullifiers /\ q.anchors = p.anchors
    /\ q.value_locked = p.value_locked /\ q.v7.value_locked = p.v7.value_locked
    /\ DOMAIN p.anchor_epoch \subseteq DOMAIN q.anchor_epoch

LEMMA SameHeld ==
    ASSUME NEW p, NEW q, IsPool(p), Numbered(p), IsPool(q), Numbered(q), MoreTrees(p, q)
    PROVE  Held(q) = Held(p)
<1>1. \A cm : cm \in Held(q) <=> \E t \in Trees(q) : cm \in ToSet(t.notes)
  BY HeldInTrees
<1>2. \A cm : cm \in Held(p) <=> \E t \in Trees(p) : cm \in ToSet(t.notes)
  BY HeldInTrees
<1>3. ToSet(<<>>) = {}
  BY DEF ToSet
<1>4. \A cm : cm \in Held(q) <=> cm \in Held(p)
  BY <1>1, <1>2, <1>3 DEF MoreTrees
<1> QED
  BY <1>4

LEMMA StillSound ==
    ASSUME NEW p, NEW q, Sound(p), IsPool(q), Numbered(q), MoreTrees(p, q),
           NamesTrees(p, q), q.indexed => q.seen = Held(p)
    PROVE  Sound(q)
<1>1. SeenIsHeld(q)
  BY SameHeld DEF Sound, SeenIsHeld
<1>2. ToSet(<<>>) = {} /\ IsInjective(<<>>)
  BY DEF ToSet, IsInjective
<1>3. OneTreeEach(q)
  BY <1>2 DEF Sound, OneTreeEach, MoreTrees
<1>4. EpochsNamed(q)
  <2> SUFFICES ASSUME NEW r \in DOMAIN q.anchor_epoch, Len(r[2]) > 0
               PROVE  \E t \in Trees(q) :
                        /\ t.generation = r[1] /\ t.epoch = q.anchor_epoch[r]
                        /\ \A i \in DOMAIN r[2] : i \in DOMAIN t.notes /\ t.notes[i] = r[2][i]
    BY DEF EpochsNamed
  <2>1. CASE r \in DOMAIN p.anchor_epoch /\ q.anchor_epoch[r] = p.anchor_epoch[r]
    BY <2>1 DEF Sound, EpochsNamed, MoreTrees
  <2>2. CASE \E t \in Trees(q) : t.generation = r[1] /\ t.notes = r[2]
                                /\ t.epoch = q.anchor_epoch[r]
    BY <2>2
  <2> QED
    BY <2>1, <2>2 DEF NamesTrees
<1> QED
  BY <1>1, <1>3, <1>4 DEF Sound

\* Everything but notes, numbers, trees and roots may change freely.
LEMMA BooksAside ==
    ASSUME NEW p, NEW q, Sound(p), DOMAIN q = Fields,
           DOMAIN q.v7 = {"epoch", "notes", "value_locked"},
           q.notes = p.notes, q.v7.notes = p.v7.notes, q.v7.epoch = p.v7.epoch,
           q.epoch = p.epoch, q.v1_closed = p.v1_closed, q.archive = p.archive,
           q.anchors \in Seq(Root), DOMAIN q.anchor_epoch \subseteq Root,
           NamesTrees(p, q),
           q.indexed \in BOOLEAN, q.indexed => q.seen = Held(p)
    PROVE  Sound(q)
<1>1. IsPool(q) /\ Numbered(q)
  BY DEF Sound, IsPool, Numbered
<1>2. Trees(q) = Trees(p)
  BY DEF Trees, v7_active
<1>3. MoreTrees(p, q)
  BY <1>2 DEF MoreTrees
<1> QED
  BY <1>1, <1>3, StillSound

LEMMA SameNames ==
    ASSUME NEW p, NEW q, q.anchor_epoch = p.anchor_epoch
    PROVE  NamesTrees(p, q)
  BY DEF NamesTrees

\* Locking, unlocking, burning tags and marking the pool dirty.
LEMMA BooksSound ==
    ASSUME NEW p, Sound(p)
    PROVE  /\ \A g, v : Sound(AddLocked(p, g, v))
           /\ \A N : Sound([p EXCEPT !.nullifiers = N])
           /\ Sound(Dirty(p)) /\ Sound(Reloaded(p))
<1>0. DOMAIN p = Fields /\ DOMAIN p.v7 = {"epoch", "notes", "value_locked"}
  BY DEF Sound, IsPool
<1>1. ASSUME NEW g, NEW v PROVE Sound(AddLocked(p, g, v))
  <2> DEFINE q == AddLocked(p, g, v)
  <2>1. /\ DOMAIN q = Fields /\ DOMAIN q.v7 = {"epoch", "notes", "value_locked"}
        /\ q.v7.notes = p.v7.notes /\ q.v7.epoch = p.v7.epoch
    BY <1>0 DEF AddLocked, Fields
  <2>2. /\ q.notes = p.notes /\ q.epoch = p.epoch /\ q.v1_closed = p.v1_closed
        /\ q.archive = p.archive /\ q.anchors = p.anchors /\ q.anchor_epoch = p.anchor_epoch
        /\ q.indexed = p.indexed /\ q.seen = p.seen
    BY <1>0 DEF AddLocked, Fields
  <2> HIDE DEF q
  <2>3. NamesTrees(p, q)
    BY <2>2, SameNames
  <2>4. Sound(q)
    BY <2>1, <2>2, <2>3, BooksAside DEF Sound, IsPool, SeenIsHeld
  <2> QED
    BY <2>4 DEF q
<1>2. ASSUME NEW N PROVE Sound([p EXCEPT !.nullifiers = N])
  <2>1. NamesTrees(p, [p EXCEPT !.nullifiers = N])
    BY SameNames DEF Sound, IsPool, Fields
  <2> QED
    BY <2>1, BooksAside DEF Sound, IsPool, Fields, SeenIsHeld
<1>3. Sound(Dirty(p))
  <2>1. NamesTrees(p, Dirty(p))
    BY SameNames DEF Sound, IsPool, Fields, Dirty
  <2> QED
    BY <2>1, BooksAside DEF Sound, IsPool, Fields, SeenIsHeld, Dirty
<1>4. Sound(Reloaded(p))
  <2> DEFINE q == Reloaded(p)
  <2>1. /\ DOMAIN q = Fields /\ q.v7 = p.v7 /\ q.indexed = FALSE
        /\ q.notes = p.notes /\ q.epoch = p.epoch /\ q.v1_closed = p.v1_closed
        /\ q.archive = p.archive /\ q.anchors = p.anchors /\ q.anchor_epoch = p.anchor_epoch
    BY <1>0 DEF Reloaded, Fields
  <2> HIDE DEF q
  <2>2. NamesTrees(p, q)
    BY <2>1, SameNames
  <2>3. Sound(q)
    BY <1>0, <2>1, <2>2, BooksAside DEF Sound, IsPool
  <2> QED
    BY <2>3 DEF q
<1> QED
  BY <1>1, <1>2, <1>3, <1>4

-----------------------------------------------------------------------------
(* Epochs.                                                                  *)

Entry(g, ns) == [notes |-> ns, generation |-> g]

LEMMA AppendSet ==
    ASSUME NEW S, NEW s \in Seq(S), NEW a \in S
    PROVE  ToSet(Append(s, a)) = ToSet(s) \union {a}
<1>1. /\ Len(s) \in Nat /\ DOMAIN s = 1 .. Len(s)
      /\ DOMAIN Append(s, a) = 1 .. Len(s) + 1 /\ Append(s, a)[Len(s) + 1] = a
      /\ \A i \in 1 .. Len(s) : Append(s, a)[i] = s[i]
  OBVIOUS
<1>2. ToSet(s) = {s[i] : i \in 1 .. Len(s)}
  BY <1>1 DEF ToSet
<1>3. ToSet(Append(s, a)) = {Append(s, a)[i] : i \in 1 .. Len(s) + 1}
  BY <1>1 DEF ToSet
<1>4. \A i : i \in 1 .. Len(s) + 1 <=> i \in 1 .. Len(s) \/ i = Len(s) + 1
  BY <1>1
<1> QED
  BY <1>1, <1>2, <1>3, <1>4

\* The fields of a pool with one more tree in the archive.
SealedAs(p, q, g, ns, e) ==
    /\ DOMAIN q = Fields /\ q.v7 = p.v7 /\ q.notes = p.notes
    /\ q.epoch = p.epoch /\ q.v1_closed = p.v1_closed
    /\ q.archive = Append(p.archive, Entry(g, ns)) /\ q.archive \in Seq(Archived)
    /\ q.anchors = p.anchors /\ q.anchor_epoch = Remap(p, <<g, ns>>, e)
    /\ q.indexed = TRUE /\ q.seen = Held(p)
    /\ q.nullifiers = p.nullifiers /\ q.value_locked = p.value_locked
    /\ q.anchors_dirty = TRUE

LEMMA SealFields ==
    ASSUME NEW p, Sound(p), NEW g \in Generation, NEW ns \in Seq(Commitment), NEW e,
           ToSet(ns) \subseteq Held(p)
    PROVE  SealedAs(p, Seal(p, ns, g, e), g, ns, e)
<1> DEFINE q == Seal(p, ns, g, e)
           a == Entry(g, ns)
           k == [p EXCEPT !.archive = Append(@, [notes |-> ns, generation |-> g]),
                          !.anchor_epoch = Remap(p, <<g, ns>>, e),
                          !.anchors_dirty = TRUE]
<1>1. DOMAIN p = Fields /\ p.archive \in Seq(Archived) /\ p.indexed \in BOOLEAN
  BY DEF Sound, IsPool
<1>2. /\ DOMAIN k = Fields /\ k.v7 = p.v7 /\ k.notes = p.notes
      /\ k.archive = Append(p.archive, a)
      /\ k.anchors = p.anchors /\ k.anchor_epoch = Remap(p, <<g, ns>>, e)
      /\ k.seen = p.seen /\ k.indexed = p.indexed /\ k.v1_closed = p.v1_closed /\ k.epoch = p.epoch
      /\ k.nullifiers = p.nullifiers /\ k.value_locked = p.value_locked /\ k.anchors_dirty = TRUE
  BY <1>1 DEF Fields, Entry
<1>3. a \in Archived /\ a.notes = ns
  BY DEF Archived, Entry
<1> HIDE DEF k
<1>4. k.archive \in Seq(Archived) /\ ToSet(k.archive) = ToSet(p.archive) \union {a}
  BY <1>1, <1>2, <1>3, AppendSet
<1>5. Held(k) = Held(p)
  BY <1>2, <1>3, <1>4 DEF Held
<1>6. q = ensure_commitment_index(k)
  BY DEF Seal, k
<1> HIDE DEF a, q
<1>7. /\ DOMAIN q = Fields /\ q.v7 = p.v7 /\ q.notes = p.notes
      /\ q.epoch = p.epoch /\ q.v1_closed = p.v1_closed
      /\ q.archive = Append(p.archive, a) /\ q.archive \in Seq(Archived)
      /\ q.anchors = p.anchors /\ q.anchor_epoch = Remap(p, <<g, ns>>, e)
      /\ q.indexed = TRUE /\ q.seen = Held(p)
      /\ q.nullifiers = p.nullifiers /\ q.value_locked = p.value_locked /\ q.anchors_dirty = TRUE
  BY <1>1, <1>2, <1>4, <1>5, <1>6 DEF ensure_commitment_index, Fields, Sound, SeenIsHeld
<1> QED
  BY <1>7 DEF a, q, SealedAs

\* Sealing a tree where its number says moves no note and names its root.
LEMMA SealedTrees ==
    ASSUME NEW p, IsPool(p), NEW q, NEW g, NEW ns,
           Tree(g, Len(p.archive), ns) \in Trees(p),
           Entry(g, ns) \in Archived,
           q.archive = Append(p.archive, Entry(g, ns)),
           q.anchor_epoch = Remap(p, <<g, ns>>, Len(p.archive)),
           ~q.v1_closed => q.notes = <<>>,
           v7_active(q) => q.v7.notes = <<>> \/ (v7_active(p) /\ q.v7 = p.v7),
           ~p.v1_closed => Tree("V1", p.epoch, p.notes) = Tree(g, Len(p.archive), ns),
           v7_active(p) => \/ Tree("V7", p.v7.epoch, p.v7.notes) = Tree(g, Len(p.archive), ns)
                           \/ v7_active(q) /\ q.v7 = p.v7
    PROVE  MoreTrees(p, q) /\ NamesTrees(p, q)
<1> DEFINE a == Entry(g, ns)
           u == Tree(g, Len(p.archive), ns)
<1>1. /\ p.archive \in Seq(Archived) /\ Len(p.archive) \in Nat
      /\ DOMAIN p.archive = 1 .. Len(p.archive)
  BY DEF IsPool
<1>2. /\ DOMAIN q.archive = 1 .. Len(p.archive) + 1
      /\ \A i \in DOMAIN p.archive : i \in DOMAIN q.archive /\ q.archive[i] = p.archive[i]
      /\ q.archive[Len(p.archive) + 1] = a
  BY <1>1
<1>3. u \in Trees(q)
  <2>1. u = Tree(a.generation, (Len(p.archive) + 1) - 1, a.notes)
    BY <1>1 DEF Entry, Tree
  <2>2. Len(p.archive) + 1 \in DOMAIN q.archive
    BY <1>1, <1>2
  <2> HIDE DEF u, a
  <2> QED
    BY <1>2, <2>1, <2>2, TreesAre
<1>4. ASSUME NEW t \in Trees(p) PROVE t \in Trees(q)
  <2>1. CASE \E i \in DOMAIN p.archive :
                t = Tree(p.archive[i].generation, i - 1, p.archive[i].notes)
    BY <1>2, <2>1, TreesAre
  <2>2. CASE ~p.v1_closed /\ t = Tree("V1", p.epoch, p.notes)
    BY <1>3, <2>2
  <2>3. CASE v7_active(p) /\ t = Tree("V7", p.v7.epoch, p.v7.notes)
    BY <1>3, <2>3, TreesAre
  <2> QED
    BY <2>1, <2>2, <2>3, TreesAre
<1>5. ASSUME NEW t \in Trees(q) PROVE t \in Trees(p) \/ t.notes = <<>>
  <2>1. CASE \E i \in DOMAIN q.archive :
                t = Tree(q.archive[i].generation, i - 1, q.archive[i].notes)
    <3>1. PICK i \in DOMAIN q.archive :
                t = Tree(q.archive[i].generation, i - 1, q.archive[i].notes)
      BY <2>1
    <3>2. CASE i \in DOMAIN p.archive
      BY <1>2, <3>1, <3>2, TreesAre
    <3>3. CASE i = Len(p.archive) + 1
      <4>1. t = u
        BY <1>1, <1>2, <3>1, <3>3 DEF Entry
      <4> QED
        BY <4>1
    <3> QED
      BY <1>1, <1>2, <3>2, <3>3
  <2>2. CASE ~q.v1_closed /\ t = Tree("V1", q.epoch, q.notes)
    BY <2>2 DEF Tree
  <2>3. CASE v7_active(q) /\ t = Tree("V7", q.v7.epoch, q.v7.notes)
    BY <2>3, TreesAre DEF Tree
  <2> QED
    BY <2>1, <2>2, <2>3, TreesAre
<1>6. NamesTrees(p, q)
  <2> SUFFICES ASSUME NEW x \in DOMAIN q.anchor_epoch
               PROVE  \/ x \in DOMAIN p.anchor_epoch /\ q.anchor_epoch[x] = p.anchor_epoch[x]
                      \/ \E t \in Trees(q) : t.generation = x[1] /\ t.notes = x[2]
                                            /\ t.epoch = q.anchor_epoch[x]
    BY DEF NamesTrees
  <2>1. CASE x = <<g, ns>>
    BY <1>3, <2>1 DEF Remap, Tree
  <2>2. CASE x # <<g, ns>>
    BY <2>2 DEF Remap
  <2> QED
    BY <2>1, <2>2
<1> QED
  BY <1>4, <1>5, <1>6 DEF MoreTrees

LEMMA RotateEpochSound ==
    ASSUME NEW p, Sound(p), ~p.v1_closed
    PROVE  LET q == rotate_epoch(p)
           IN /\ Sound(q) /\ q.v7 = p.v7 /\ q.notes = <<>> /\ q.anchors_dirty = TRUE
              /\ MoreTrees(p, q) /\ SameBooks(p, q)
              /\ v7_active(p) => q.v1_closed
<1> DEFINE q == rotate_epoch(p)
           s == Seal(p, p.notes, "V1", p.epoch)
<1>1. /\ p.notes \in Seq(Commitment) /\ "V1" \in Generation /\ p.v7.epoch \in Nat
      /\ p.epoch \in Nat /\ Len(p.archive) = p.epoch /\ ToSet(p.notes) \subseteq Held(p)
      /\ <<"V1", p.notes>> \in Root /\ p.v1_closed = FALSE
  BY DEF Sound, IsPool, Numbered, Held, Generation, Root
<1>2. /\ DOMAIN s = Fields /\ s.v7 = p.v7
      /\ s.epoch = p.epoch /\ s.v1_closed = p.v1_closed
      /\ s.archive = Append(p.archive, Entry("V1", p.notes)) /\ s.archive \in Seq(Archived)
      /\ s.anchors = p.anchors /\ s.anchor_epoch = Remap(p, <<"V1", p.notes>>, p.epoch)
      /\ s.indexed = TRUE /\ s.seen = Held(p)
      /\ s.nullifiers = p.nullifiers /\ s.value_locked = p.value_locked /\ s.anchors_dirty = TRUE
  <2>1. SealedAs(p, s, "V1", p.notes, p.epoch)
    BY <1>1, SealFields
  <2> QED
    BY <2>1 DEF SealedAs
<1>3. q = LET z == [s EXCEPT !.notes = <<>>]
          IN IF v7_active(p) THEN [z EXCEPT !.v1_closed = TRUE] ELSE [z EXCEPT !.epoch = @ + 1]
  BY DEF rotate_epoch
<1> HIDE DEF s, q
<1>4. /\ DOMAIN q = Fields /\ q.v7 = p.v7 /\ q.notes = <<>> /\ q.indexed = TRUE
      /\ q.archive = Append(p.archive, Entry("V1", p.notes)) /\ q.archive \in Seq(Archived)
      /\ q.anchors = p.anchors /\ q.anchor_epoch = Remap(p, <<"V1", p.notes>>, p.epoch)
      /\ q.seen = Held(p)
      /\ q.nullifiers = p.nullifiers /\ q.value_locked = p.value_locked /\ q.anchors_dirty = TRUE
      /\ \/ v7_active(p) /\ q.v1_closed = TRUE /\ q.epoch = p.epoch
         \/ ~v7_active(p) /\ q.v1_closed = FALSE /\ q.epoch = p.epoch + 1
  BY <1>1, <1>2, <1>3 DEF Fields
<1>5. Len(q.archive) = p.epoch + 1
  BY <1>1, <1>4 DEF Sound, IsPool
<1>6. IsPool(q)
  <2>1. DOMAIN q.anchor_epoch \subseteq Root
    BY <1>1, <1>4 DEF Remap, Sound, IsPool
  <2>2. q.epoch \in Nat /\ q.v1_closed \in BOOLEAN
    <3>1. p.epoch + 1 \in Nat
      BY <1>1
    <3> QED
      BY <1>1, <1>4, <3>1
  <2>3. q.anchors \in Seq(Root) /\ q.v7 = p.v7 /\ q.notes \in Seq(Commitment)
    BY <1>4 DEF IsPool, Sound
  <2>4. p.v7.notes \in Seq(Commitment) /\ p.v7.epoch \in Nat
        /\ DOMAIN p.v7 = {"epoch", "notes", "value_locked"}
    BY DEF Sound, IsPool
  <2> QED
    BY <1>4, <2>1, <2>2, <2>3, <2>4 DEF IsPool
<1>7. Numbered(q)
  BY <1>1, <1>4, <1>5 DEF Numbered, Sound, v7_active
<1>8. MoreTrees(p, q) /\ NamesTrees(p, q)
  <2>1. Tree("V1", Len(p.archive), p.notes) \in Trees(p)
    BY <1>1, TreesAre
  <2>2. Entry("V1", p.notes) \in Archived
    BY <1>1 DEF Entry, Archived
  <2>3. v7_active(q) <=> v7_active(p)
    BY <1>4 DEF v7_active
  <2> QED
    BY <1>1, <1>4, <2>1, <2>2, <2>3, SealedTrees DEF Sound
<1>9. Sound(q)
  BY <1>4, <1>6, <1>7, <1>8, StillSound
<1>10. SameBooks(p, q)
  BY <1>4 DEF SameBooks, Remap
<1> QED
  BY <1>4, <1>8, <1>9, <1>10 DEF q

LEMMA MoreTreesTwice ==
    ASSUME NEW p, NEW c, NEW q, MoreTrees(p, c), MoreTrees(c, q), SameBooks(p, c), SameBooks(c, q)
    PROVE  MoreTrees(p, q) /\ SameBooks(p, q)
<1>1. MoreTrees(p, q)
  BY DEF MoreTrees
<1>2. SameBooks(p, q)
  BY DEF SameBooks
<1> QED
  BY <1>1, <1>2

LEMMA RotateV7Sound ==
    ASSUME NEW p, Sound(p), v7_active(p)
    PROVE  LET q == rotate_v7(p)
           IN /\ Sound(q) /\ v7_active(q) /\ q.v1_closed
              /\ q.notes = <<>> /\ q.v7.notes = <<>> /\ q.anchors_dirty = TRUE
              /\ MoreTrees(p, q) /\ SameBooks(p, q)
<1> DEFINE c == IF p.v1_closed THEN p ELSE rotate_epoch(p)
           s == Seal(c, c.v7.notes, "V7", c.v7.epoch)
           q == rotate_v7(p)
<1>1. /\ Sound(c) /\ c.v1_closed = TRUE /\ v7_active(c)
      /\ MoreTrees(p, c) /\ SameBooks(p, c)
  <2>1. CASE p.v1_closed
    BY <2>1 DEF Sound, IsPool, MoreTrees, SameBooks
  <2>2. CASE ~p.v1_closed
    <3>1. Sound(c) /\ c.v7 = p.v7 /\ c.v1_closed /\ MoreTrees(p, c) /\ SameBooks(p, c)
      BY <2>2, RotateEpochSound
    <3> HIDE DEF c
    <3> QED
      BY <3>1 DEF v7_active, Sound, IsPool
  <2> QED
    BY <2>1, <2>2
<1>2. q = [s EXCEPT !.v7.epoch = Len(c.archive) + 1, !.v7.notes = <<>>]
  BY DEF rotate_v7, SealV7
<1> HIDE DEF c, q
<1>3. /\ c.v7.notes \in Seq(Commitment) /\ "V7" \in Generation /\ c.v7.epoch \in Nat \ {0}
      /\ Len(c.archive) = c.v7.epoch /\ ToSet(c.v7.notes) \subseteq Held(c)
      /\ <<"V7", c.v7.notes>> \in Root /\ c.notes = <<>>
      /\ DOMAIN c.v7 = {"epoch", "notes", "value_locked"}
  BY <1>1 DEF Sound, IsPool, Numbered, Held, Generation, Root, v7_active
<1>4. /\ DOMAIN s = Fields /\ s.v7 = c.v7 /\ s.notes = c.notes
      /\ s.epoch = c.epoch /\ s.v1_closed = c.v1_closed
      /\ s.archive = Append(c.archive, Entry("V7", c.v7.notes)) /\ s.archive \in Seq(Archived)
      /\ s.anchors = c.anchors /\ s.anchor_epoch = Remap(c, <<"V7", c.v7.notes>>, c.v7.epoch)
      /\ s.indexed = TRUE /\ s.seen = Held(c)
      /\ s.nullifiers = c.nullifiers /\ s.value_locked = c.value_locked /\ s.anchors_dirty = TRUE
  <2>1. SealedAs(c, s, "V7", c.v7.notes, c.v7.epoch)
    BY <1>1, <1>3, SealFields
  <2> QED
    BY <2>1 DEF SealedAs
<1> HIDE DEF s
<1>4a. Len(s.archive) = Len(c.archive) + 1
  BY <1>1, <1>4 DEF Sound, IsPool
<1>5. /\ DOMAIN q = Fields /\ DOMAIN q.v7 = {"epoch", "notes", "value_locked"}
      /\ q.v7.epoch = Len(s.archive) /\ q.v7.notes = <<>> /\ q.notes = <<>>
      /\ q.epoch = c.epoch /\ q.v1_closed = TRUE
      /\ q.archive = s.archive /\ q.anchors = s.anchors /\ q.anchor_epoch = s.anchor_epoch
      /\ q.indexed = TRUE /\ q.seen = Held(c)
      /\ q.nullifiers = s.nullifiers /\ q.value_locked = s.value_locked /\ q.anchors_dirty = TRUE
      /\ q.v7.value_locked = c.v7.value_locked
  BY <1>4a, <1>1, <1>2, <1>3, <1>4 DEF Fields
<1>6. Len(q.archive) = c.v7.epoch + 1
  BY <1>1, <1>3, <1>4, <1>5 DEF Sound, IsPool
<1>7. IsPool(q)
  <2>1. DOMAIN q.anchor_epoch \subseteq Root
    BY <1>1, <1>3, <1>4, <1>5 DEF Remap, Sound, IsPool
  <2>2. q.v7.epoch \in Nat /\ q.epoch \in Nat /\ q.anchors \in Seq(Root)
    BY <1>1, <1>3, <1>4, <1>5, <1>6 DEF Sound, IsPool
  <2>3. q.archive \in Seq(Archived) /\ q.notes \in Seq(Commitment) /\ q.v7.notes \in Seq(Commitment)
    BY <1>4, <1>5
  <2>4. q.v1_closed \in BOOLEAN /\ q.indexed \in BOOLEAN
    BY <1>5
  <2> QED
    BY <1>5, <2>1, <2>2, <2>3, <2>4 DEF IsPool
<1>8. Numbered(q) /\ v7_active(q)
  BY <1>3, <1>5, <1>6 DEF Numbered, v7_active
<1>9. MoreTrees(c, q) /\ NamesTrees(c, q)
  <2>1. Tree("V7", Len(c.archive), c.v7.notes) \in Trees(c)
    BY <1>1, <1>3, TreesAre
  <2>2. Entry("V7", c.v7.notes) \in Archived
    BY <1>3 DEF Entry, Archived
  <2> QED
    BY <1>1, <1>3, <1>4, <1>5, <2>1, <2>2, SealedTrees DEF Sound
<1>10. Sound(q)
  BY <1>1, <1>5, <1>7, <1>8, <1>9, StillSound
<1>11. SameBooks(c, q)
  BY <1>4, <1>5 DEF SameBooks, Remap
<1>12. MoreTrees(p, q) /\ SameBooks(p, q)
  BY <1>1, <1>9, <1>11, MoreTreesTwice
<1> QED
  BY <1>5, <1>8, <1>10, <1>12 DEF q

\* Opening the v7 generation beside v1, or instead of it.
OpenedAs(p, q) ==
    /\ Sound(q) /\ MoreTrees(p, q) /\ SameBooks(p, q) /\ q.anchors_dirty = TRUE
    /\ q.notes \in {p.notes, <<>>} /\ q.v7.notes = p.v7.notes

LEMMA ActivateSound ==
    ASSUME NEW p, Sound(p)
    PROVE  /\ Sound(activate_v7(p)) /\ Sound(activate_v7_only(p))
           /\ ~v7_active(p) => /\ OpenedAs(p, activate_v7(p)) /\ OpenedAs(p, activate_v7_only(p))
                               /\ activate_v7_only(p).v1_closed
<1> SUFFICES ASSUME ~v7_active(p)
             PROVE  /\ OpenedAs(p, activate_v7(p)) /\ OpenedAs(p, activate_v7_only(p))
                    /\ activate_v7_only(p).v1_closed
  BY DEF activate_v7, activate_v7_only, OpenedAs
<1> DEFINE Opened(q) ==
        /\ DOMAIN q = Fields /\ DOMAIN q.v7 = {"epoch", "notes", "value_locked"}
        /\ q.v7.epoch = p.epoch + 1 /\ q.v7.notes = p.v7.notes /\ q.notes = p.notes
        /\ q.epoch = p.epoch /\ q.v1_closed = p.v1_closed /\ q.archive = p.archive
        /\ q.anchors = p.anchors /\ q.anchor_epoch = p.anchor_epoch
        /\ q.indexed = p.indexed /\ q.seen = p.seen
        /\ q.nullifiers = p.nullifiers /\ q.value_locked = p.value_locked
        /\ q.v7.value_locked = p.v7.value_locked
<1>1. /\ p.v7.notes = <<>> /\ p.v1_closed = FALSE /\ p.epoch \in Nat /\ p.v7.epoch = 0
      /\ DOMAIN p = Fields /\ DOMAIN p.v7 = {"epoch", "notes", "value_locked"}
  BY DEF Sound, IsPool, Numbered, v7_active
<1>2. ASSUME NEW q, Opened(q)
      PROVE  /\ Sound(q) /\ ~q.v1_closed /\ v7_active(q) /\ MoreTrees(p, q) /\ SameBooks(p, q)
             /\ q.notes = p.notes /\ q.v7.notes = p.v7.notes
  <2>1. IsPool(q)
    BY <1>1, <1>2 DEF Sound, IsPool
  <2>2. Numbered(q)
    BY <1>1, <1>2 DEF Sound, Numbered
  <2>3. ASSUME NEW t PROVE t \in Trees(q) <=> t \in Trees(p) \/ t = Tree("V7", p.epoch + 1, <<>>)
    <3>1. v7_active(q)
      BY <1>1, <1>2 DEF v7_active
    <3> QED
      BY <1>1, <1>2, <3>1, TreesAre
  <2>4. MoreTrees(p, q)
    BY <2>3 DEF MoreTrees, Tree
  <2>5. NamesTrees(p, q)
    BY <1>2, SameNames
  <2>6. q.indexed => q.seen = Held(p)
    BY <1>2 DEF Sound, SeenIsHeld
  <2>7. Sound(q)
    BY <1>1, <1>2, <2>1, <2>2, <2>4, <2>5, <2>6, StillSound
  <2>8. SameBooks(p, q) /\ v7_active(q)
    BY <1>1, <1>2 DEF SameBooks, v7_active
  <2> QED
    BY <1>1, <1>2, <2>4, <2>7, <2>8
<1>3. Opened(activate_v7(p)) /\ activate_v7(p).anchors_dirty = TRUE
  BY <1>1 DEF activate_v7, Fields
<1> DEFINE k == [p EXCEPT !.v7.epoch = p.epoch + 1]
<1>4. Opened(k)
  BY <1>1 DEF Fields
<1> HIDE DEF Opened, k
<1>5. OpenedAs(p, activate_v7(p))
  BY <1>2, <1>3 DEF OpenedAs
<1>6. activate_v7_only(p) = rotate_epoch(k)
  BY DEF activate_v7_only, k
<1> DEFINE q == rotate_epoch(k)
<1>7. /\ Sound(q) /\ q.v7 = k.v7 /\ q.notes = <<>> /\ q.anchors_dirty = TRUE
      /\ MoreTrees(k, q) /\ SameBooks(k, q) /\ q.v1_closed
  BY <1>2, <1>4, RotateEpochSound
<1> HIDE DEF q
<1>8. MoreTrees(p, q) /\ SameBooks(p, q) /\ q.v7.notes = p.v7.notes
  BY <1>2, <1>4, <1>7, MoreTreesTwice
<1>9. OpenedAs(p, q) /\ q.v1_closed
  BY <1>7, <1>8 DEF OpenedAs
<1> QED
  BY <1>5, <1>6, <1>9 DEF q

-----------------------------------------------------------------------------
(* The window of roots.                                                     *)

LEMMA PushAnchorSound ==
    ASSUME NEW p, Sound(p), NEW g \in Generation, NEW ns \in Seq(Commitment), NEW e,
           Tree(g, e, ns) \in Trees(p)
    PROVE  LET q == push_anchor_for(p, <<g, ns>>, e)
           IN Sound(q) /\ Trees(q) = Trees(p) /\ q.v7 = p.v7 /\ q.v1_closed = p.v1_closed
<1> DEFINE r == <<g, ns>>
           q == push_anchor_for(p, r, e)
           full == Len(p.anchors) >= AnchorWindow
           known == Remap(p, r, e)
           kept == [x \in DOMAIN known \ {Head(p.anchors)} |-> known[x]]
<1> SUFFICES ASSUME r \notin ToSet(p.anchors)
             PROVE  Sound(q) /\ Trees(q) = Trees(p) /\ q.v7 = p.v7 /\ q.v1_closed = p.v1_closed
  BY DEF push_anchor_for
<1>1. /\ DOMAIN p = Fields /\ p.anchors \in Seq(Root) /\ r \in Root
      /\ DOMAIN p.anchor_epoch \subseteq Root
  BY DEF Sound, IsPool, Root
<1>2. /\ DOMAIN q = Fields /\ q.v7 = p.v7 /\ q.notes = p.notes
      /\ q.epoch = p.epoch /\ q.v1_closed = p.v1_closed /\ q.archive = p.archive
      /\ q.indexed = p.indexed /\ q.seen = p.seen
      /\ q.anchors = Append(IF full THEN Tail(p.anchors) ELSE p.anchors, r)
      /\ q.anchor_epoch = known \/ q.anchor_epoch = kept
  BY <1>1 DEF push_anchor_for, Fields
<1>3. q.anchors \in Seq(Root)
  <2>1. CASE full
    <3>1. p.anchors # <<>>
      <4>1. Len(<<>>) = 0 /\ AnchorWindow \in Nat /\ AnchorWindow # 0
        BY PoolAssumption
      <4> QED
        BY <2>1, <4>1
    <3>2. Tail(p.anchors) \in Seq(Root)
      BY <1>1, <3>1
    <3>3. q.anchors = Append(Tail(p.anchors), r)
      BY <1>2, <2>1
    <3> HIDE DEF r, q
    <3> QED
      BY <1>1, <3>2, <3>3
  <2>2. CASE ~full
    <3>1. q.anchors = Append(p.anchors, r)
      BY <1>2, <2>2
    <3> HIDE DEF r, q
    <3> QED
      BY <1>1, <3>1
  <2> QED
    BY <2>1, <2>2
<1> HIDE DEF q
<1>4. Trees(q) = Trees(p)
  BY <1>2 DEF Trees, v7_active
<1>5. /\ DOMAIN known = DOMAIN p.anchor_epoch \union {r}
      /\ \A x \in DOMAIN known : known[x] = IF x = r THEN e ELSE p.anchor_epoch[x]
  BY DEF Remap
<1>6. /\ DOMAIN q.anchor_epoch \subseteq DOMAIN known
      /\ \A x \in DOMAIN q.anchor_epoch : q.anchor_epoch[x] = known[x]
  <2> HIDE DEF known
  <2> QED
    BY <1>2
<1>7. NamesTrees(p, q)
  <2> SUFFICES ASSUME NEW x \in DOMAIN q.anchor_epoch
               PROVE  \/ x \in DOMAIN p.anchor_epoch /\ q.anchor_epoch[x] = p.anchor_epoch[x]
                      \/ \E t \in Trees(q) : t.generation = x[1] /\ t.notes = x[2]
                                            /\ t.epoch = q.anchor_epoch[x]
    BY DEF NamesTrees
  <2>1. CASE x = r
    <3>1. x[1] = g /\ x[2] = ns
      BY <2>1
    <3>2. q.anchor_epoch[x] = e
      <4> HIDE DEF r, known
      <4> QED
        BY <1>5, <1>6, <2>1
    <3>3. Tree(g, e, ns) \in Trees(q)
      BY <1>4
    <3>4. Tree(g, e, ns).generation = g /\ Tree(g, e, ns).notes = ns /\ Tree(g, e, ns).epoch = e
      BY DEF Tree
    <3> QED
      BY <3>1, <3>2, <3>3, <3>4
  <2>2. CASE x # r
    BY <1>5, <1>6, <2>2
  <2> QED
    BY <2>1, <2>2
<1>8. DOMAIN q.anchor_epoch \subseteq Root
  BY <1>1, <1>5, <1>6
<1>9. Sound(q)
  <2>1. DOMAIN q.v7 = {"epoch", "notes", "value_locked"} /\ q.indexed \in BOOLEAN
        /\ (q.indexed => q.seen = Held(p))
    BY <1>2 DEF Sound, IsPool, SeenIsHeld
  <2> QED
    BY <1>2, <1>3, <1>7, <1>8, <2>1, BooksAside
<1> QED
  BY <1>2, <1>4, <1>9

LEMMA RefreshSound ==
    ASSUME NEW p, Sound(p)
    PROVE  Sound(refresh_anchor(p))
<1> DEFINE one == IF p.v1_closed THEN p ELSE push_anchor_for(p, RootV1(p), p.epoch)
           two == IF v7_active(p) THEN push_anchor_for(one, RootV7(p), p.v7.epoch) ELSE one
<1>1. p.notes \in Seq(Commitment) /\ p.v7.notes \in Seq(Commitment)
      /\ "V1" \in Generation /\ "V7" \in Generation
  BY DEF Sound, IsPool, Generation
<1>2. Sound(one) /\ Trees(one) = Trees(p)
  <2>1. CASE ~p.v1_closed
    <3>1. Tree("V1", p.epoch, p.notes) \in Trees(p)
      BY <2>1, TreesAre
    <3> QED
      BY <1>1, <2>1, <3>1, PushAnchorSound DEF RootV1
  <2> QED
    BY <2>1
<1>3. Sound(two)
  <2>1. CASE v7_active(p)
    <3>1. Tree("V7", p.v7.epoch, p.v7.notes) \in Trees(one)
      BY <1>2, <2>1, TreesAre
    <3> HIDE DEF one
    <3> QED
      BY <1>1, <1>2, <2>1, <3>1, PushAnchorSound DEF RootV7
  <2> QED
    BY <1>2, <2>1
<1>4. refresh_anchor(p) = [two EXCEPT !.anchors_dirty = FALSE]
  BY DEF refresh_anchor
<1> HIDE DEF two
<1> DEFINE q == [two EXCEPT !.anchors_dirty = FALSE]
<1>5. NamesTrees(two, q)
  BY <1>3, SameNames DEF Sound, IsPool, Fields
<1>6. Sound(q)
  BY <1>3, <1>5, BooksAside DEF Sound, IsPool, Fields, SeenIsHeld
<1> QED
  BY <1>4, <1>6

-----------------------------------------------------------------------------
(* Notes.                                                                   *)

Epoch(p, g) == IF g = "V1" THEN p.epoch ELSE p.v7.epoch
Live(p, g) == IF g = "V1" THEN p.notes ELSE p.v7.notes
Open(p, g) == IF g = "V1" THEN ~p.v1_closed ELSE v7_active(p)

\* How a pool changes when a note is appended to one of its live trees.
AppendedAs(p, q, g, cm) ==
    /\ DOMAIN q = Fields /\ DOMAIN q.v7 = {"epoch", "notes", "value_locked"}
    /\ q.notes = IF g = "V1" THEN Append(p.notes, cm) ELSE p.notes
    /\ q.v7.notes = IF g = "V7" THEN Append(p.v7.notes, cm) ELSE p.v7.notes
    /\ q.v7.epoch = p.v7.epoch /\ q.epoch = p.epoch /\ q.v1_closed = p.v1_closed
    /\ q.archive = p.archive /\ q.anchors = p.anchors /\ q.anchor_epoch = p.anchor_epoch
    /\ q.indexed = p.indexed
    /\ q.indexed = TRUE => q.seen = p.seen \union {cm}

LEMMA AppendFields ==
    ASSUME NEW p, IsPool(p), NEW g \in Generation, NEW cm
    PROVE  AppendedAs(p, Appended(p, g, cm), g, cm)
<1>1. DOMAIN p = Fields /\ DOMAIN p.v7 = {"epoch", "notes", "value_locked"}
  BY DEF IsPool
<1> DEFINE q == Appended(p, g, cm)
<1>2. /\ DOMAIN q = Fields /\ DOMAIN q.v7 = {"epoch", "notes", "value_locked"}
      /\ q.notes = IF g = "V1" THEN Append(p.notes, cm) ELSE p.notes
      /\ q.v7.notes = IF g = "V7" THEN Append(p.v7.notes, cm) ELSE p.v7.notes
  BY <1>1 DEF Appended, Fields
<1>3. /\ q.v7.epoch = p.v7.epoch /\ q.epoch = p.epoch /\ q.v1_closed = p.v1_closed
      /\ q.archive = p.archive /\ q.anchors = p.anchors /\ q.anchor_epoch = p.anchor_epoch
      /\ q.indexed = p.indexed
  BY <1>1 DEF Appended, Fields
<1>4. q.seen = IF p.indexed THEN p.seen \union {cm} ELSE p.seen
  BY <1>1 DEF Appended, Fields
<1> HIDE DEF q
<1>5. AppendedAs(p, q, g, cm)
  BY <1>2, <1>3, <1>4 DEF AppendedAs
<1> QED
  BY <1>5 DEF q

\* The trees after it: the live one is longer, the others are as they were.
LEMMA AppendedTrees ==
    ASSUME NEW p, Sound(p), NEW g \in Generation, NEW cm \in Commitment, Open(p, g),
           NEW q, AppendedAs(p, q, g, cm)
    PROVE  LET old == Tree(g, Epoch(p, g), Live(p, g))
               new == Tree(g, Epoch(p, g), Append(Live(p, g), cm))
           IN /\ old \in Trees(p) /\ new \in Trees(q)
              /\ \A t : t \in Trees(q) <=> t = new \/ (t \in Trees(p) /\ t # old)
<1> DEFINE old == Tree(g, Epoch(p, g), Live(p, g))
           new == Tree(g, Epoch(p, g), Append(Live(p, g), cm))
           Sealed(t) == \E i \in DOMAIN p.archive :
                            t = Tree(p.archive[i].generation, i - 1, p.archive[i].notes)
<1>1. /\ p.archive \in Seq(Archived) /\ Len(p.archive) \in Nat
      /\ DOMAIN p.archive = 1 .. Len(p.archive)
      /\ p.v1_closed \in BOOLEAN /\ p.epoch \in Nat /\ p.v7.epoch \in Nat
  BY DEF Sound, IsPool
<1>2. Epoch(p, g) >= Len(p.archive) /\ Epoch(p, g) \in Nat
  BY <1>1 DEF Sound, Numbered, Open, Epoch, v7_active
<1>3. ASSUME NEW t, Sealed(t) PROVE t # old
  <2>1. PICK i \in 1 .. Len(p.archive) : t.epoch = i - 1
    BY <1>1, <1>3 DEF Tree
  <2>2. old.epoch = Epoch(p, g)
    BY DEF Tree
  <2> HIDE DEF old
  <2> QED
    BY <1>1, <1>2, <2>1, <2>2
<1>4. \A t : t \in Trees(p) <=>
              Sealed(t) \/ (~p.v1_closed /\ t = Tree("V1", p.epoch, p.notes))
                        \/ (v7_active(p) /\ t = Tree("V7", p.v7.epoch, p.v7.notes))
  BY TreesAre
<1>5. \A t : t \in Trees(q) <=>
              Sealed(t) \/ (~p.v1_closed /\ t = Tree("V1", p.epoch, q.notes))
                        \/ (v7_active(p) /\ t = Tree("V7", p.v7.epoch, q.v7.notes))
  <2>1. v7_active(q) <=> v7_active(p)
    BY DEF AppendedAs, v7_active
  <2>2. q.v1_closed = p.v1_closed /\ q.archive = p.archive /\ q.epoch = p.epoch
        /\ q.v7.epoch = p.v7.epoch
    BY DEF AppendedAs
  <2> QED
    BY <2>1, <2>2, TreesAre
<1>6. Tree("V1", p.epoch, p.notes) # Tree("V7", p.v7.epoch, p.v7.notes)
  <2>1. Tree("V1", p.epoch, p.notes).generation = "V1"
        /\ Tree("V7", p.v7.epoch, p.v7.notes).generation = "V7"
    BY DEF Tree
  <2> QED
    BY <2>1
<1>7. CASE g = "V1"
  <2>1. /\ old = Tree("V1", p.epoch, p.notes) /\ new = Tree("V1", p.epoch, q.notes)
        /\ q.v7.notes = p.v7.notes /\ ~p.v1_closed
    BY <1>7 DEF AppendedAs, Epoch, Live, Open
  <2> HIDE DEF old, new, Sealed
  <2>2. old \in Trees(p) /\ new \in Trees(q)
    BY <1>4, <1>5, <2>1
  <2>3. ASSUME NEW t PROVE t \in Trees(q) <=> t = new \/ (t \in Trees(p) /\ t # old)
    BY <1>3, <1>4, <1>5, <1>6, <2>1
  <2> QED
    BY <2>2, <2>3 DEF old, new
<1>8. CASE g = "V7"
  <2>1. /\ old = Tree("V7", p.v7.epoch, p.v7.notes) /\ new = Tree("V7", p.v7.epoch, q.v7.notes)
        /\ q.notes = p.notes /\ v7_active(p)
    BY <1>8 DEF AppendedAs, Epoch, Live, Open
  <2> HIDE DEF old, new, Sealed
  <2>2. old \in Trees(p) /\ new \in Trees(q)
    BY <1>4, <1>5, <2>1
  <2>3. ASSUME NEW t PROVE t \in Trees(q) <=> t = new \/ (t \in Trees(p) /\ t # old)
    BY <1>3, <1>4, <1>5, <1>6, <2>1
  <2> QED
    BY <2>2, <2>3 DEF old, new
<1> QED
  BY <1>7, <1>8 DEF Generation

\* A commitment the pool never held goes to one tree only.
LEMMA AppendedSound ==
    ASSUME NEW p, Sound(p), NEW g \in Generation, NEW cm \in Commitment, Open(p, g),
           cm \notin Held(p)
    PROVE  LET q == Appended(p, g, cm) IN Sound(q) /\ Held(q) = Held(p) \union {cm}
<1> DEFINE q == Appended(p, g, cm)
           ns == Live(p, g)
           old == Tree(g, Epoch(p, g), ns)
           new == Tree(g, Epoch(p, g), Append(ns, cm))
<1>1. AppendedAs(p, q, g, cm)
  BY AppendFields DEF Sound
<1> HIDE DEF q
<1>2. /\ old \in Trees(p) /\ new \in Trees(q)
      /\ \A t : t \in Trees(q) <=> t = new \/ (t \in Trees(p) /\ t # old)
  BY <1>1, AppendedTrees
<1>3. /\ ns \in Seq(Commitment) /\ Append(ns, cm) \in Seq(Commitment)
      /\ Len(ns) \in Nat /\ DOMAIN ns = 1 .. Len(ns)
      /\ DOMAIN Append(ns, cm) = 1 .. Len(ns) + 1 /\ Append(ns, cm)[Len(ns) + 1] = cm
      /\ \A i \in 1 .. Len(ns) : Append(ns, cm)[i] = ns[i]
      /\ ToSet(Append(ns, cm)) = ToSet(ns) \union {cm}
  <2>1. ns \in Seq(Commitment)
    BY DEF Sound, IsPool, Live
  <2> HIDE DEF ns
  <2> QED
    BY <2>1, AppendSet
<1>4. IsPool(q)
  <2>1. q.notes \in Seq(Commitment) /\ q.v7.notes \in Seq(Commitment)
    BY <1>1, <1>3 DEF AppendedAs, Sound, IsPool, Generation, Live
  <2> QED
    BY <1>1, <2>1 DEF AppendedAs, Sound, IsPool
<1>5. Numbered(q)
  <2>1. p.v1_closed => g # "V1"
    BY DEF Open
  <2>2. p.v7.epoch = 0 => g # "V7"
    BY DEF Open, v7_active
  <2> QED
    BY <1>1, <2>1, <2>2 DEF AppendedAs, Numbered, Sound
<1>6. old.notes = ns /\ new.notes = Append(ns, cm)
      /\ old.generation = new.generation /\ old.epoch = new.epoch
  BY DEF Tree
<1>7. \A t \in Trees(p) : cm \notin ToSet(t.notes)
  BY HeldInTrees DEF Sound
<1> HIDE DEF old, new, ns
<1>8. \A x : x \in Held(q) <=> x \in Held(p) \/ x = cm
  <2>1. \A x : x \in Held(q) <=> \E t \in Trees(q) : x \in ToSet(t.notes)
    BY <1>4, <1>5, HeldInTrees
  <2>2. \A x : x \in Held(p) <=> \E t \in Trees(p) : x \in ToSet(t.notes)
    BY HeldInTrees DEF Sound
  <2>3. ASSUME NEW x, x \in Held(q) PROVE x \in Held(p) \/ x = cm
    <3>1. PICK t \in Trees(q) : x \in ToSet(t.notes)
      BY <2>1, <2>3
    <3>2. CASE t = new
      <4>1. x \in ToSet(ns) \union {cm}
        BY <1>3, <1>6, <3>1, <3>2
      <4> QED
        BY <1>2, <1>6, <2>2, <4>1
    <3>3. CASE t # new
      BY <1>2, <2>2, <3>1, <3>3
    <3> QED
      BY <3>2, <3>3
  <2>4. ASSUME NEW x, x \in Held(p) \/ x = cm PROVE x \in Held(q)
    <3>1. x \in ToSet(new.notes) => x \in Held(q)
      BY <1>2, <2>1
    <3>2. ToSet(new.notes) = ToSet(old.notes) \union {cm}
      BY <1>3, <1>6
    <3>3. CASE x \in Held(p)
      <4>1. PICK t \in Trees(p) : x \in ToSet(t.notes)
        BY <2>2, <3>3
      <4> QED
        BY <1>2, <2>1, <3>1, <3>2, <4>1
    <3> QED
      BY <2>4, <3>1, <3>2, <3>3
  <2> QED
    BY <2>3, <2>4
<1>9. SeenIsHeld(q)
  <2>1. Held(q) = Held(p) \union {cm}
    BY <1>8
  <2>2. p.indexed \in BOOLEAN /\ p.indexed = q.indexed /\ (p.indexed => p.seen = Held(p))
    BY <1>1 DEF Sound, IsPool, SeenIsHeld, AppendedAs
  <2>3. Appended(p, g, cm).seen = IF p.indexed THEN p.seen \union {cm} ELSE p.seen
    BY DEF Appended, Sound, IsPool, Fields
  <2> QED
    BY <2>1, <2>2, <2>3 DEF SeenIsHeld, q
<1>10. IsInjective(Append(ns, cm))
  <2>1. IsInjective(ns) /\ \A i \in 1 .. Len(ns) : ns[i] # cm
    BY <1>2, <1>3, <1>6, <1>7 DEF Sound, OneTreeEach, ToSet
  <2> QED
    BY <1>3, <2>1 DEF IsInjective
<1>11. OneTreeEach(q)
  <2>1. \A t \in Trees(q) : IsInjective(t.notes)
    BY <1>2, <1>6, <1>10 DEF Sound, OneTreeEach
  <2>2. \A t \in Trees(p) : t # old => ToSet(t.notes) \intersect ToSet(new.notes) = {}
    <3>1. ToSet(new.notes) = ToSet(old.notes) \union {cm}
      BY <1>3, <1>6
    <3>2. \A t \in Trees(p) : t # old => ToSet(t.notes) \intersect ToSet(old.notes) = {}
      BY <1>2 DEF Sound, OneTreeEach
    <3> QED
      BY <1>7, <3>1, <3>2
  <2>3. \A s, t \in Trees(q) : s # t => ToSet(s.notes) \intersect ToSet(t.notes) = {}
    BY <1>2, <2>2 DEF Sound, OneTreeEach
  <2> QED
    BY <2>1, <2>3 DEF OneTreeEach
<1>12. EpochsNamed(q)
  <2> SUFFICES ASSUME NEW r \in DOMAIN q.anchor_epoch, Len(r[2]) > 0
               PROVE  \E t \in Trees(q) :
                        /\ t.generation = r[1] /\ t.epoch = q.anchor_epoch[r]
                        /\ \A i \in DOMAIN r[2] : i \in DOMAIN t.notes /\ t.notes[i] = r[2][i]
    BY DEF EpochsNamed
  <2>1. q.anchor_epoch = p.anchor_epoch
    BY <1>1 DEF AppendedAs
  <2>2. PICK t \in Trees(p) :
               /\ t.generation = r[1] /\ t.epoch = q.anchor_epoch[r]
               /\ \A i \in DOMAIN r[2] : i \in DOMAIN t.notes /\ t.notes[i] = r[2][i]
    BY <2>1 DEF Sound, EpochsNamed
  <2>3. CASE t = old
    <3>1. \A i \in DOMAIN ns : i \in DOMAIN new.notes /\ new.notes[i] = ns[i]
      BY <1>3, <1>6
    <3> QED
      BY <1>2, <1>6, <2>2, <2>3, <3>1
  <2>4. CASE t # old
    BY <1>2, <2>2, <2>4
  <2> QED
    BY <2>3, <2>4
<1>13. Held(q) = Held(p) \union {cm}
  BY <1>8
<1> QED
  BY <1>4, <1>5, <1>9, <1>11, <1>12, <1>13 DEF Sound, q

\* append_note_in, whether it refuses, rotates or appends.
LEMMA AppendNoteSound ==
    ASSUME NEW p, Sound(p), NEW g \in Generation, NEW cm \in Commitment, NEW g3
    PROVE  Sound(append_note_in(p, g, cm, g3).pool)
<1> DEFINE rotated == RotatedAt(p, g, Capacity)
           misfit == Misfit(p, g, cm, g3)
           out == append_note_in(p, g, cm, g3)
<1>1. CASE misfit
  <2>1. out = Outcome(FALSE, p)
    BY <1>1 DEF append_note_in
  <2> QED
    BY <2>1 DEF Outcome
<1>2. CASE ~misfit
  <2>1. Sound(rotated) /\ (g = "V7" => v7_active(rotated))
    <3>1. CASE g = "V1" /\ Len(p.notes) >= Capacity
      BY <1>2, <3>1, RotateEpochSound DEF RotatedAt, Misfit
    <3>2. CASE g = "V7" /\ Len(p.v7.notes) >= Capacity
      BY <1>2, <3>2, RotateV7Sound DEF RotatedAt, Misfit
    <3>3. CASE ~(g = "V1" /\ Len(p.notes) >= Capacity) /\ ~(g = "V7" /\ Len(p.v7.notes) >= Capacity)
      <4>1. rotated = p
        BY <3>3 DEF RotatedAt
      <4> QED
        BY <1>2, <4>1 DEF Misfit
    <3> QED
      BY <3>1, <3>2, <3>3
  <2>2. out = IF (g = "V1" /\ rotated.v1_closed) \/ has_ever_held(rotated, cm)
              THEN Outcome(FALSE, rotated) ELSE Outcome(TRUE, Appended(rotated, g, cm))
    BY <1>2 DEF append_note_in, AppendFresh
  <2> HIDE DEF rotated, misfit, out
  <2>3. CASE (g = "V1" /\ rotated.v1_closed) \/ has_ever_held(rotated, cm)
    BY <2>1, <2>2, <2>3 DEF Outcome, out
  <2>4. CASE ~((g = "V1" /\ rotated.v1_closed) \/ has_ever_held(rotated, cm))
    <3>1. Open(rotated, g)
      BY <2>1, <2>4 DEF Open, Generation
    <3>2. cm \notin Held(rotated)
      BY <2>1, <2>4 DEF has_ever_held, Sound, SeenIsHeld
    <3>3. Sound(Appended(rotated, g, cm))
      BY <2>1, <3>1, <3>2, AppendedSound
    <3> QED
      BY <2>2, <2>4, <3>3 DEF Outcome, out
  <2> QED
    BY <2>3, <2>4
<1> QED
  BY <1>1, <1>2

-----------------------------------------------------------------------------
(* Mutations.                                                               *)

\* A ledger state whose pool is sound.
SoundState(s) ==
    /\ DOMAIN s = {"bal", "native_supply", "master", "pool", "events", "minted", "burned"}
    /\ Sound(s.pool)

PoolOp == {"Shield", "ShieldedSend", "Unshield"}

\* A mutation a body may hold: a payment has the outputs its circuit gives it.
WellFormed(m) ==
    \/ m.op \in {"SetBalance", "RotateMasterWallet"}
    \/ /\ m.op \in PoolOp
       /\ m.pay.outs[1] \in Commitment
       /\ m.op # "Shield" => m.pay.outs[2] \in Commitment

\* Balances and the other fields do not touch the pool.
LEMMA BalancesAside ==
    ASSUME NEW s, SoundState(s)
    PROVE  /\ \A p : Sound(p) => SoundState(InPool(s, p)) /\ InPool(s, p).pool = p
           /\ \A w, v : SoundState(set_balance(s, w, v)) /\ SoundState(credit(s, w, v))
           /\ SoundState(PayFee(s)) /\ SoundState(ClearEvents(s))
           /\ \A m : SoundState(SetBalances(s, m).state)
           /\ \A m, h : SoundState(RotateMasterWallet(s, m, h).state)
           /\ \A e : SoundState([s EXCEPT !.events = e])
<1>1. \A w, v : SoundState(set_balance(s, w, v))
  BY DEF SoundState, set_balance
<1>2. \A w, v : SoundState(credit(s, w, v))
  BY <1>1 DEF credit
<1>3. SoundState(PayFee(s))
  BY <1>2 DEF PayFee, SoundState
<1>4. \A m : SoundState(SetBalances(s, m).state)
  BY DEF SoundState, SetBalances, Result
<1>5. \A m, h : SoundState(RotateMasterWallet(s, m, h).state)
  BY DEF SoundState, RotateMasterWallet, Result
<1>6. \A p : Sound(p) => SoundState(InPool(s, p)) /\ InPool(s, p).pool = p
  BY DEF SoundState, InPool
<1>7. \A e : SoundState([s EXCEPT !.events = e])
  BY DEF SoundState
<1> QED
  BY <1>1, <1>2, <1>3, <1>4, <1>5, <1>6, <1>7 DEF ClearEvents

\* Both outputs of a spend.
LEMMA AppendOutsSound ==
    ASSUME NEW p, Sound(p), NEW g \in Generation, NEW outs,
           outs[1] \in Commitment, outs[2] \in Commitment
    PROVE  Sound(AppendOuts(p, g, outs).pool)
<1> DEFINE first == append_note_in(p, g, outs[1], net = "g3")
<1>1. Sound(first.pool)
  BY AppendNoteSound
<1>2. AppendOuts(p, g, outs)
        = IF ~first.ok THEN first ELSE append_note_in(first.pool, g, outs[2], net = "g3")
  BY DEF AppendOuts, AppendNext
<1> HIDE DEF first
<1>3. Sound(append_note_in(first.pool, g, outs[2], net = "g3").pool)
  BY <1>1, AppendNoteSound
<1> QED
  BY <1>1, <1>2, <1>3

LEMMA UnlockSound ==
    ASSUME NEW p, Sound(p), NEW g, NEW v
    PROVE  Sound(unlock_value_in(p, g, v).pool)
<1>1. Sound(AddLocked(p, g, -v))
  BY BooksSound
<1> QED
  BY <1>1 DEF unlock_value_in, Outcome

LEMMA BurnSound ==
    ASSUME NEW p, Sound(p), NEW e, NEW m
    PROVE  Sound(Burn(p, e, m))
  BY BooksSound DEF Burn

\* A root that may be spent against is of one of the two generations.
LEMMA AnchorGeneration ==
    ASSUME NEW p, Sound(p), NEW r, generation_of_anchor(p, r) # "none"
    PROVE  generation_of_anchor(p, r) \in Generation
<1>1. \A i \in DOMAIN p.archive : p.archive[i].generation \in Generation
  <2>1. \A i \in DOMAIN p.archive : p.archive[i] \in Archived
    BY DEF Sound, IsPool
  <2> QED
    BY <2>1 DEF Archived
<1>2. "V1" \in Generation /\ "V7" \in Generation
  BY DEF Generation
<1>3. \A e : e + 1 \in DOMAIN p.archive => p.archive[e + 1].generation \in Generation
  BY <1>1
<1> QED
  BY <1>2, <1>3 DEF generation_of_anchor

LEMMA ShieldSound ==
    ASSUME NEW s, SoundState(s), NEW m, m.pay.outs[1] \in Commitment
    PROVE  SoundState(Shield(s, m).state)
<1> DEFINE cm == m.pay.outs[1]
           from == m.pay.wallet
           g == DepositGeneration(s.pool, cm)
           added == append_note_in(s.pool, g, cm, net = "g3")
           locked == lock_value_in(added.pool, g, m.pay.amount)
           refused == m.pay.amount \notin Denomination \/ s.bal[from] < m.pay.amount \/ g = "refused"
           paid == InPool(s, Dirty(locked))
<1>1. Shield(s, m) =
        IF refused THEN Result(FALSE, s)
        ELSE IF ~added.ok THEN Result(FALSE, InPool(s, added.pool))
        ELSE Result(TRUE, set_balance(paid, from, s.bal[from] - m.pay.amount))
  BY DEF Shield, Deposited
<1>2. ASSUME g # "refused"
      PROVE  Sound(added.pool) /\ Sound(locked)
  <2>1. g \in Generation
    BY <1>2 DEF DepositGeneration, Generation
  <2>2. Sound(added.pool)
    BY <2>1, AppendNoteSound DEF SoundState
  <2> HIDE DEF added, g
  <2> QED
    BY <2>2, BooksSound DEF lock_value_in
<1>3. ASSUME g # "refused"
      PROVE  SoundState(InPool(s, added.pool)) /\ SoundState(paid)
  BY <1>2, <1>3, BalancesAside, BooksSound
<1> HIDE DEF added, g, paid, refused
<1>4. CASE g = "refused"
  BY <1>1, <1>4 DEF Result, refused
<1>5. CASE g # "refused"
  <2>1. SoundState(set_balance(paid, from, s.bal[from] - m.pay.amount))
    BY <1>3, <1>5, BalancesAside
  <2> QED
    BY <1>1, <1>3, <1>5, <2>1 DEF Result
<1> QED
  BY <1>4, <1>5

LEMMA ShieldedSpendSound ==
    ASSUME NEW s, SoundState(s), NEW m, m.pay.outs[1] \in Commitment, m.pay.outs[2] \in Commitment
    PROVE  SoundState(ShieldedSpend(s, m).state)
<1> DEFINE e == epoch_of_anchor(s.pool, m.anchor)
           g == generation_of_anchor(s.pool, m.anchor)
           outs == AppendOuts(Burn(s.pool, e, m), g, m.pay.outs)
           paid == unlock_value_in(outs.pool, g, Fee)
<1>1. ShieldedSpend(s, m) =
        IF m.pay.amount # Fee \/ ~Spendable(s, m) THEN Result(FALSE, s)
        ELSE IF ~(outs.ok /\ paid.ok) THEN Result(FALSE, InPool(s, outs.pool))
        ELSE Result(TRUE, PayFee(InPool(s, Dirty(paid.pool))))
  BY DEF ShieldedSpend, FeePaid
<1>2. ASSUME Spendable(s, m)
      PROVE  Sound(outs.pool) /\ Sound(Dirty(paid.pool))
  <2>1. g \in Generation
    BY <1>2, AnchorGeneration DEF Spendable, SoundState
  <2>2. Sound(Burn(s.pool, e, m))
    BY BurnSound DEF SoundState
  <2> HIDE DEF e, g
  <2>3. Sound(outs.pool)
    BY <2>1, <2>2, AppendOutsSound
  <2> HIDE DEF outs
  <2>4. Sound(paid.pool)
    BY <2>3, UnlockSound
  <2> HIDE DEF paid
  <2> QED
    BY <2>3, <2>4, BooksSound
<1>3. ASSUME Spendable(s, m)
      PROVE  SoundState(InPool(s, outs.pool)) /\ SoundState(PayFee(InPool(s, Dirty(paid.pool))))
  <2> HIDE DEF outs, paid
  <2> QED
    BY <1>2, <1>3, BalancesAside
<1> HIDE DEF outs, paid
<1> QED
  BY <1>1, <1>3 DEF Result

LEMMA UnshieldSound ==
    ASSUME NEW s, SoundState(s), NEW m, m.pay.outs[1] \in Commitment, m.pay.outs[2] \in Commitment
    PROVE  SoundState(Unshield(s, m).state)
<1> DEFINE e == epoch_of_anchor(s.pool, m.anchor)
           g == generation_of_anchor(s.pool, m.anchor)
           paid == unlock_value_in(s.pool, g, m.pay.amount)
           outs == AppendOuts(Burn(paid.pool, e, m), g, m.pay.outs)
<1>1. Unshield(s, m) =
        IF m.pay.amount \notin Denomination \/ ~Spendable(s, m) \/ ~paid.ok THEN Result(FALSE, s)
        ELSE IF ~outs.ok THEN Result(FALSE, InPool(s, outs.pool))
        ELSE Result(TRUE, credit(InPool(s, Dirty(outs.pool)), m.pay.wallet, m.pay.amount))
  BY DEF Unshield, Withdrawn
<1>2. ASSUME Spendable(s, m)
      PROVE  Sound(outs.pool) /\ Sound(Dirty(outs.pool))
  <2>1. g \in Generation
    BY <1>2, AnchorGeneration DEF Spendable, SoundState
  <2> HIDE DEF e, g
  <2>2. Sound(paid.pool)
    BY UnlockSound DEF SoundState
  <2> HIDE DEF paid
  <2>3. Sound(Burn(paid.pool, e, m))
    BY <2>2, BurnSound
  <2>4. Sound(outs.pool)
    BY <2>1, <2>3, AppendOutsSound
  <2> HIDE DEF outs
  <2> QED
    BY <2>4, BooksSound
<1>3. ASSUME Spendable(s, m)
      PROVE  /\ SoundState(InPool(s, outs.pool))
             /\ SoundState(credit(InPool(s, Dirty(outs.pool)), m.pay.wallet, m.pay.amount))
  <2> HIDE DEF outs, paid
  <2> QED
    BY <1>2, <1>3, BalancesAside
<1> HIDE DEF outs, paid
<1> QED
  BY <1>1, <1>3 DEF Result

\* Every mutation, whether it succeeds or is refused half way.
LEMMA MutateSound ==
    ASSUME NEW s, SoundState(s), NEW m, WellFormed(m), NEW h
    PROVE  SoundState(Mutate(s, m, h).state)
<1>1. CASE m.op = "SetBalance"
  <2>1. Mutate(s, m, h) = SetBalances(s, m)
    BY <1>1 DEF Mutate
  <2> QED
    BY <2>1, BalancesAside
<1>2. CASE m.op = "RotateMasterWallet"
  <2>1. Mutate(s, m, h) = RotateMasterWallet(s, m, h)
    BY <1>2 DEF Mutate
  <2> QED
    BY <2>1, BalancesAside
<1>3. CASE m.op = "Shield"
  <2>1. Mutate(s, m, h) = Shield(s, m)
    BY <1>3 DEF Mutate
  <2> QED
    BY <1>3, <2>1, ShieldSound DEF WellFormed
<1>4. CASE m.op = "Unshield"
  <2>1. Mutate(s, m, h) = Unshield(s, m)
    BY <1>4 DEF Mutate
  <2> QED
    BY <1>4, <2>1, UnshieldSound DEF WellFormed
<1>5. CASE m.op = "ShieldedSend"
  <2> DEFINE r == ShieldedSpend(s, m)
  <2>1. Mutate(s, m, h) =
          IF r.ok THEN Result(TRUE, [r.state EXCEPT !.events = Append(@, m)]) ELSE r
    BY <1>5 DEF Mutate, WithEvent
  <2>2. SoundState(r.state)
    BY <1>5, ShieldedSpendSound DEF WellFormed
  <2> HIDE DEF r
  <2>3. SoundState([r.state EXCEPT !.events = Append(@, m)])
    BY <2>2, BalancesAside
  <2> QED
    BY <2>1, <2>2, <2>3 DEF Result
<1> QED
  BY <1>1, <1>2, <1>3, <1>4, <1>5 DEF WellFormed, PoolOp

LEMMA OpenGenerationSound ==
    ASSUME NEW s, SoundState(s), NEW h
    PROVE  SoundState(OpenGeneration(s, h))
<1>1. Sound(activate_v7(s.pool)) /\ Sound(activate_v7_only(s.pool))
  BY ActivateSound DEF SoundState
<1> QED
  BY <1>1, BalancesAside DEF OpenGeneration

LEMMA PublishSound ==
    ASSUME NEW s, SoundState(s)
    PROVE  SoundState(Publish(s))
<1>1. Sound(refresh_anchor(s.pool))
  BY RefreshSound DEF SoundState
<1> QED
  BY <1>1, BalancesAside DEF Publish

\* One commit.
LEMMA CommitSound ==
    ASSUME NEW s, SoundState(s), NEW m, WellFormed(m), NEW h
    PROVE  SoundState(Commit(s, m, h).state)
<1> DEFINE r == Mutate(OpenGeneration(s, h), m, h)
<1>1. SoundState(r.state)
  BY MutateSound, OpenGenerationSound
<1>2. Commit(s, m, h) =
        IF r.ok /\ WithinCap(r.state) THEN Result(TRUE, ClearEvents(Publish(r.state)))
        ELSE Result(FALSE, r.state)
  BY DEF Commit, Closed
<1> HIDE DEF r
<1>3. SoundState(Publish(r.state))
  BY <1>1, PublishSound
<1>4. SoundState(ClearEvents(Publish(r.state)))
  BY <1>3, BalancesAside
<1> QED
  BY <1>1, <1>2, <1>4 DEF Result

-----------------------------------------------------------------------------
(* The node.                                                                *)

BodyOver(b, U) == b \in Seq(U) /\ \A m \in U : WellFormed(m)
IsBody(b) == \E U : BodyOver(b, U)

\* The inductive invariant: the three copies of the state are sound, and the
\* body holds mutations as the wallets and the producer make them.
IndInv ==
    /\ net \in Networks /\ IsBody(body)
    /\ SoundState(state) /\ SoundState(work) /\ SoundState(next)

LEMMA EmptySound == Sound(EmptyPool)
<1> DEFINE p == EmptyPool
<1>1. /\ DOMAIN p = Fields /\ p.notes = <<>> /\ p.v7 = Unopened /\ p.epoch = 0
      /\ p.v1_closed = FALSE /\ p.indexed = FALSE /\ p.archive = <<>>
      /\ p.anchors = <<>> /\ p.anchor_epoch = <<>>
  BY DEF EmptyPool, Fields
<1>2. /\ DOMAIN Unopened = {"epoch", "notes", "value_locked"}
      /\ Unopened.epoch = 0 /\ Unopened.notes = <<>>
  BY DEF Unopened
<1>3. DOMAIN <<>> = {} /\ Len(<<>>) = 0
  OBVIOUS
<1> HIDE DEF p
<1>4. IsPool(p)
  <2>1. <<>> \in Seq(Commitment) /\ <<>> \in Seq(Archived) /\ <<>> \in Seq(Root)
    OBVIOUS
  <2>2. DOMAIN p.anchor_epoch \subseteq Root
    <3>1. p.anchor_epoch = <<>>
      BY <1>1
    <3> QED
      BY <1>3, <3>1
  <2>3. p.v1_closed \in BOOLEAN /\ p.indexed \in BOOLEAN
    BY <1>1
  <2>4. p.epoch \in Nat /\ p.v7.epoch \in Nat /\ DOMAIN p.v7 = {"epoch", "notes", "value_locked"}
    BY <1>1, <1>2
  <2>5. /\ p.notes \in Seq(Commitment) /\ p.v7.notes \in Seq(Commitment)
        /\ p.archive \in Seq(Archived) /\ p.anchors \in Seq(Root)
    BY <1>1, <1>2, <2>1
  <2> QED
    BY <1>1, <2>2, <2>3, <2>4, <2>5 DEF IsPool
<1>5. Numbered(p)
  BY <1>1, <1>2, <1>3 DEF Numbered
<1>6. SeenIsHeld(p) /\ EpochsNamed(p)
  BY <1>1, <1>3 DEF SeenIsHeld, EpochsNamed
<1>7. \A t : t \in Trees(p) => t = Tree("V1", 0, <<>>)
  <2>1. ~v7_active(p)
    BY <1>1, <1>2 DEF v7_active
  <2> QED
    BY <1>1, <1>3, <2>1, TreesAre
<1>8. OneTreeEach(p)
  BY <1>7 DEF OneTreeEach, IsInjective, Tree
<1> QED
  BY <1>4, <1>5, <1>6, <1>8 DEF Sound, p

LEMMA EmptyBody == IsBody(<<>>)
<1>1. BodyOver(<<>>, {})
  BY DEF BodyOver
<1> QED
  BY <1>1, Zenon DEF IsBody

LEMMA LongerBody ==
    ASSUME NEW b, IsBody(b), NEW m, WellFormed(m)
    PROVE  IsBody(Append(b, m))
<1>1. PICK U : BodyOver(b, U)
  BY DEF IsBody
<1>2. b \in Seq(U \union {m})
  <2>1. U \subseteq U \union {m}
    OBVIOUS
  <2> QED
    BY <1>1, <2>1, SeqMonotonic DEF BodyOver
<1>3. BodyOver(Append(b, m), U \union {m})
  BY <1>1, <1>2 DEF BodyOver
<1> QED
  BY <1>3 DEF IsBody

LEMMA ShorterBody ==
    ASSUME NEW b, IsBody(b), b # <<>>
    PROVE  WellFormed(Head(b)) /\ IsBody(Tail(b))
<1>1. PICK U : BodyOver(b, U)
  BY DEF IsBody
<1>2. WellFormed(Head(b)) /\ BodyOver(Tail(b), U)
  BY <1>1 DEF BodyOver
<1> QED
  BY <1>2 DEF IsBody

LEMMA InitInd == Init => IndInv
<1> SUFFICES ASSUME Init PROVE IndInv
  OBVIOUS
<1>1. PICK master \in GenesisMaster : state = Genesis(master)
  BY DEF Init
<1>2. SoundState(state)
  BY <1>1, EmptySound DEF SoundState, Genesis
<1> QED
  BY <1>2, EmptyBody DEF Init, IndInv

\* The rotation and the coinbase of a body are well formed.
LEMMA ScheduledBody ==
    ASSUME NEW h
    PROVE  /\ IsBody(Scheduled(h))
           /\ Scheduled(h) # <<>> => WellFormed(Scheduled(h)[1])
           /\ \A s : WellFormed(split_coinbase(s, h))
<1>1. \A s : WellFormed(split_coinbase(s, h))
  BY DEF WellFormed, split_coinbase, Coinbase
<1> DEFINE turn == [op |-> "RotateMasterWallet", wallet |-> Rotation[h]]
<1>2. WellFormed(turn)
  BY DEF WellFormed
<1>3. Scheduled(h) = <<>> \/ Scheduled(h) = <<turn>>
  BY DEF Scheduled
<1> HIDE DEF turn
<1>4. IsBody(<<turn>>) /\ <<turn>>[1] = turn
  <2>1. <<turn>> \in Seq({turn}) /\ <<turn>>[1] = turn
    OBVIOUS
  <2>2. BodyOver(<<turn>>, {turn})
    BY <1>2, <2>1 DEF BodyOver
  <2> QED
    BY <2>1, <2>2, Zenon DEF IsBody
<1> QED
  BY <1>1, <1>2, <1>3, <1>4, EmptyBody

LEMMA ProposeInd == IndInv /\ Propose => IndInv'
<1> SUFFICES ASSUME IndInv, Propose PROVE IndInv'
  OBVIOUS
<1> DEFINE turned == IF Scheduled(height) = <<>> THEN state
                     ELSE Commit(state, Scheduled(height)[1], height).state
           coins == split_coinbase(turned, height)
<1>1. SoundState(turned)
  BY CommitSound, ScheduledBody DEF IndInv
<1>2. WellFormed(coins)
  BY ScheduledBody
<1>3. \/ work' = turned /\ body' = Scheduled(height)
      \/ work' = Commit(turned, coins, height).state /\ body' = Append(Scheduled(height), coins)
  BY DEF Propose
<1> HIDE DEF turned, coins
<1>4. SoundState(Commit(turned, coins, height).state)
  BY <1>1, <1>2, CommitSound
<1>5. IsBody(Scheduled(height)) /\ IsBody(Append(Scheduled(height), coins))
  BY <1>2, ScheduledBody, LongerBody
<1>6. net' = net /\ state' = state /\ next' = next
  BY DEF Propose
<1> QED
  BY <1>1, <1>3, <1>4, <1>5, <1>6 DEF IndInv

\* What the mempool offers is well formed.
LEMMA OffersWellFormed ==
    ASSUME net \in Networks, NEW tx \in Offers
    PROVE  WellFormed(tx)
<1>1. PICK t \in Payments[net], r \in Anchors \union {NoAnchor} :
             tx = [op |-> t.op, pay |-> t, anchor |-> r]
  BY DEF Offers
<1>2. /\ t.op \in {"Shield", "ShieldedSend", "Unshield"} /\ t.outs \in Seq(Commitment)
      /\ Len(t.outs) = IF t.op = "Shield" THEN 1 ELSE 2
  BY LedgerAssumption
<1>3. tx.op = t.op /\ tx.pay = t
  BY <1>1
<1>4. t.outs[1] \in Commitment /\ (t.op # "Shield" => t.outs[2] \in Commitment)
  BY <1>2
<1> QED
  BY <1>2, <1>3, <1>4 DEF WellFormed, PoolOp

LEMMA IncludeInd ==
    ASSUME IndInv, NEW tx \in Offers, Include(tx)
    PROVE  IndInv'
<1>1. WellFormed(tx)
  BY OffersWellFormed DEF IndInv
<1> DEFINE r == Commit(work, tx, height)
<1>2. SoundState(r.state) /\ IsBody(Append(body, tx))
  BY <1>1, CommitSound, LongerBody DEF IndInv
<1>3. /\ work' = r.state /\ body' = (IF r.ok THEN Append(body, tx) ELSE body)
      /\ net' = net /\ state' = state /\ next' = next
  BY DEF Include
<1> HIDE DEF r
<1> QED
  BY <1>2, <1>3 DEF IndInv

LEMMA DiscardInd == IndInv /\ Discard => IndInv'
  BY EmptyBody DEF Discard, IndInv

LEMMA SealBodyInd == IndInv /\ Seal_Body => IndInv'
<1> SUFFICES ASSUME IndInv, Seal_Body PROVE IndInv'
  OBVIOUS
<1>1. \/ Discard
      \/ /\ work' = restore_block_event_log(work, body)
         /\ next' = OpenGeneration(state, height)
         /\ UNCHANGED <<net, height, state, body>>
  BY DEF Seal_Body
<1>2. SoundState(restore_block_event_log(work, body)) /\ SoundState(OpenGeneration(state, height))
  BY BalancesAside, OpenGenerationSound DEF IndInv, restore_block_event_log
<1> QED
  BY <1>1, <1>2, DiscardInd DEF IndInv

LEMMA ApplyMutationInd == IndInv /\ ApplyMutation => IndInv'
<1> SUFFICES ASSUME IndInv, ApplyMutation PROVE IndInv'
  OBVIOUS
<1> DEFINE r == Mutate(next, Head(body), height)
<1>1. WellFormed(Head(body)) /\ IsBody(Tail(body))
  BY ShorterBody DEF IndInv, ApplyMutation
<1>2. SoundState(r.state)
  BY <1>1, MutateSound DEF IndInv
<1>3. \/ /\ next' = r.state /\ body' = Tail(body)
         /\ UNCHANGED <<net, height, state, phase, work, room>>
      \/ Discard
  BY DEF ApplyMutation
<1> HIDE DEF r
<1> QED
  BY <1>1, <1>2, <1>3, DiscardInd DEF IndInv

LEMMA SettleInd == IndInv /\ Settle => IndInv'
<1> SUFFICES ASSUME IndInv, Settle PROVE IndInv'
  OBVIOUS
<1>1. \/ /\ state' = ClearEvents(Publish(next)) /\ work' = state' /\ next' = state'
         /\ UNCHANGED <<net, body, room>>
      \/ Discard
  BY DEF Settle
<1>2. SoundState(ClearEvents(Publish(next)))
  BY BalancesAside, PublishSound DEF IndInv
<1> QED
  BY <1>1, <1>2, DiscardInd DEF IndInv

LEMMA RestartInd == IndInv /\ Restart => IndInv'
<1> SUFFICES ASSUME IndInv, Restart PROVE IndInv'
  OBVIOUS
<1>1. SoundState(InPool(state, Reloaded(state.pool)))
  <2>1. Sound(Reloaded(state.pool))
    BY BooksSound DEF IndInv, SoundState
  <2> QED
    BY <2>1, BalancesAside DEF IndInv
<1> QED
  BY <1>1 DEF Restart, IndInv

\* Every step keeps the invariant.
LEMMA NextInd == IndInv /\ [Next]_vars => IndInv'
<1> SUFFICES ASSUME IndInv, [Next]_vars PROVE IndInv'
  OBVIOUS
<1>1. CASE UNCHANGED vars
  BY <1>1 DEF vars, IndInv
<1>2. CASE \E tx \in Offers : Honest(tx) /\ Include(tx)
  BY <1>2, IncludeInd
<1> QED
  BY <1>1, <1>2, ProposeInd, SealBodyInd, ApplyMutationInd, SettleInd, RestartInd DEF Next

LEMMA IndImplies == IndInv => AnchorsNameTheirEpoch /\ ReplayIndexExact
<1> SUFFICES ASSUME IndInv PROVE AnchorsNameTheirEpoch /\ ReplayIndexExact
  OBVIOUS
<1>1. Sound(state.pool)
  BY DEF IndInv, SoundState
<1>2. AnchorsNameTheirEpoch
  BY <1>1 DEF AnchorsNameTheirEpoch, Sound
<1>3. ReplayIndexExact
  BY <1>1 DEF ReplayIndexExact, ReplayExact, Sound, OneTreeEach, SeenIsHeld, has_ever_held
<1> QED
  BY <1>2, <1>3

\* For every capacity, window, build, schedule and set of payments: a root the
\* pool remembers is of a tree whose epoch number is the one recorded, through
\* rotations, the v1 close, refused commits and restarts.
THEOREM EpochsStayNamed == Spec => []AnchorsNameTheirEpoch
<1>1. Spec => []IndInv
  BY InitInd, NextInd, PTL DEF Spec
<1> QED
  BY <1>1, IndImplies, PTL

\* The replay index of shielded.rs answers as a scan of every epoch would, and
\* no commitment is in the ledger twice, whatever was refused half way.
THEOREM ReplayIndexStaysExact == Spec => []ReplayIndexExact
<1>1. Spec => []IndInv
  BY InitInd, NextInd, PTL DEF Spec
<1> QED
  BY <1>1, IndImplies, PTL

\* The producer's scratch state and the follower's half-applied one keep the
\* same invariant, so that what is settled from them can be trusted.
THEOREM EveryCopySound == Spec => [](Sound(work.pool) /\ Sound(next.pool))
<1>1. Spec => []IndInv
  BY InitInd, NextInd, PTL DEF Spec
<1>2. IndInv => Sound(work.pool) /\ Sound(next.pool)
  BY DEF IndInv, SoundState
<1> QED
  BY <1>1, <1>2, PTL
=============================================================================
