-------------------------------- MODULE Braid --------------------------------
(***************************************************************************)
(* The braid of crates/sigil-dagknight: one node's window over the block    *)
(* DAG, its parked blocks, its finality line and the frozen linear order.   *)
(*                                                                          *)
(* A Rust `Braid` is the record `braid`; every `&mut self` method of        *)
(* braid.rs is an operator from a braid to a braid and every public call is *)
(* one action.  The braid is only ever touched through one exclusive        *)
(* borrow, so a call is atomic.                                             *)
(*                                                                          *)
(* Hashes are natural numbers, ordered as the code orders hash bytes.       *)
(* Ordering only uses v1 rules: `ghostdag_k` and `final_blue_depth` are     *)
(* None.  The frozen order is kept whole (the code drops a prefix nobody    *)
(* reads once it exceeds 4 * max_window) and the counters are left out.     *)
(***************************************************************************)
EXTENDS Integers, FiniteSets, Sequences, SequencesExt

CONSTANTS
    Block,           \* hashes of the blocks that may be offered to this braid
    View,            \* Block -> [parent, merge, height, producer] (BlockView)
    Trusted,         \* hash -> height: history anchored when the braid is built
    CaughtUp,        \* blocks a peer's settled chain serves during catch-up
    Certifiable,     \* blocks a committee certificate may name
    FinalDepth,      \* cfg.final_depth
    MaxWindow,       \* cfg.max_window
    MaxPending,      \* cfg.max_pending
    MaxMergeParents, \* cfg.max_merge_parents
    SelfHealWindow,  \* cfg.saturated_self_heal_window
    PendingMaxTipLag,\* cfg.pending_max_tip_lag (0 = no eviction)
    CertGrace,       \* cfg.cert_pending_grace (0 = off)
    ParentReach,     \* CERT_HOLD_PARENT_REACH (8 in the code, scaled to the model)
    CertForkChoice,  \* cfg.cert_fork_choice
    DepthFinality,   \* cfg.depth_finality
    FinalQuorum,     \* cfg.final_quorum (0 = None)
    CleanupStride    \* CLEANUP_STRIDE (32 in the code, scaled to the model)

NoBlock == 0         \* Option::None where the code holds an optional hash
Unknown == -1        \* Option::None where the code holds an optional height

Parents(v) ==
    IF View[v].height = 0 THEN {}
                          ELSE {View[v].parent} \union ToSet(View[v].merge)

Hash == Block \union DOMAIN Trusted \union UNION {Parents(v) : v \in Block}

ASSUME BraidAssumption ==
    /\ Block \subseteq Nat \ {NoBlock} /\ Hash \subseteq Nat \ {NoBlock}
    /\ IsFiniteSet(Block)
    /\ \A v \in Block : View[v].height \in Nat /\ View[v].producer \in Nat
    /\ \A h \in DOMAIN Trusted : Trusted[h] \in Nat
    /\ CaughtUp \subseteq Block /\ Certifiable \subseteq Block
    /\ {FinalDepth, MaxWindow, MaxPending, MaxMergeParents, SelfHealWindow,
        PendingMaxTipLag, CertGrace, ParentReach, FinalQuorum,
        CleanupStride} \subseteq Nat
    /\ {CertForkChoice, DepthFinality} \subseteq BOOLEAN

VARIABLES
    braid,        \* the Braid record, see BraidType
    admitted,     \* history: every block that ever entered the window
    drainLine     \* history: the line the last drain emitted through

vars == <<braid, admitted, drainLine>>

BraidType ==
    [recs       : SUBSET Block,            \* resident window records
     emitted    : SUBSET Block,            \* resident and already emitted
     children   : SUBSET (Block \X Block), \* <<parent, child>>, both resident
     pending    : Seq(Block),              \* parked views, longest wait first
     parked_at  : [Block -> Nat \union {Unknown}],
     waiters    : [Hash -> Seq(Block)],    \* missing parent -> parked children
     emitted_at : [Hash -> Nat \union {Unknown}],
     certified  : Block \union {NoBlock},
     sel_tip    : Block \union {NoBlock},  \* sel_tip_memo
     last_heavy : Nat,                     \* last_heavy_cleanup_f
     frozen     : Seq(Block)]

-----------------------------------------------------------------------------
(* Small helpers of the code's arithmetic and keys.                         *)

saturating_sub(x, y) == IF x > y THEN x - y ELSE 0

\* Key order of BlockRec::key: (height, producer, hash).
Precedes(v, w) ==
    LET a == View[v]
        b == View[w]
    IN \/ a.height < b.height
       \/ a.height = b.height /\ a.producer < b.producer
       \/ a.height = b.height /\ a.producer = b.producer /\ v <= w
FirstKey(S) == CHOOSE v \in S : \A w \in S : Precedes(v, w)

\* The tip comparison: max height, then min hash.
BetterTip(v, w) ==
    View[v].height > View[w].height \/ (View[v].height = View[w].height /\ v <= w)

known_height(b, h) == IF h \in b.recs THEN View[h].height ELSE b.emitted_at[h]

-----------------------------------------------------------------------------
(* Fork choice.                                                             *)

fork_anchor(b) == IF CertForkChoice THEN b.certified ELSE NoBlock
AnchorResident(b) == fork_anchor(b) \in b.recs

\* The anchor and its descendants by the parent walk, level by level.
anchored_candidates(b) ==
    LET a    == fork_anchor(b)
        base == View[a].height
        top  == base + Cardinality(b.recs)
        upTo[h \in base .. top] ==
            IF h = base THEN {a}
            ELSE LET below == upTo[h - 1]
                 IN below \union {k \in b.recs : /\ View[k].parent \in below
                                                 /\ <<View[k].parent, k>> \in b.children}
    IN upTo[top]

\* selected_tip recounted from the window, as if there were no memo.
selected_tip(b) ==
    LET cands == IF AnchorResident(b) THEN anchored_candidates(b) ELSE b.recs
    IN IF cands = {} THEN NoBlock
       ELSE CHOOSE v \in cands : \A w \in cands : BetterTip(v, w)

Recount(b) == [b EXCEPT !.sel_tip = selected_tip(b)]

tip_height(b) == IF b.sel_tip = NoBlock THEN Unknown ELSE View[b.sel_tip].height

\* The block the parent walk from v meets at `height`, inside the window.
AncestorAt(b, v, height) ==
    LET walk[n \in Nat] ==
            IF n = 0 THEN v
            ELSE LET below == walk[n - 1]
                 IN IF below \in b.recs THEN View[below].parent ELSE NoBlock
        up == View[v].height - height
    IN IF up >= 0 /\ walk[up] \in b.recs THEN walk[up] ELSE NoBlock

spine_block_at(b, height) ==
    IF b.sel_tip = NoBlock THEN NoBlock ELSE AncestorAt(b, b.sel_tip, height)

\* Mutated form: compare with the old tip even while an anchor is resident.
carry_tip_memo_Unanchored(b, old, v) ==
    IF old = NoBlock THEN selected_tip(b) ELSE IF BetterTip(v, old) THEN v ELSE old

\* carry_tip_memo: the memo after `v` alone entered the window.  (The code
\* recounts lazily when the memo is out of date; here it is recounted at once.)
carry_tip_memo(b, old, v) ==
    IF AnchorResident(b) \/ old = NoBlock THEN selected_tip(b)
    ELSE IF BetterTip(v, old) THEN v ELSE old

-----------------------------------------------------------------------------
(* The finality line.  Unknown stands for None; it is below every height.   *)

Parked(b) == ToSet(b.pending)
pending_floor(b) ==
    IF b.pending = <<>> THEN Unknown
    ELSE Min({View[v].height : v \in Parked(b)})

\* Mutated form: hold only for a child parked at or below the certificate.
cert_line_held_FloorGuard(b, h) ==
    LET floor == pending_floor(b)
        reach == saturating_sub(floor, 1 + ParentReach)
    IN IF CertGrace # 0 /\ floor # Unknown /\ floor <= h
       THEN Max({Min({h, reach}), saturating_sub(h, CertGrace)})
       ELSE h

\* A certificate at h, held for at most CertGrace heights under where a parent
\* some parked view is missing can sit.
cert_line_held(b, h) ==
    LET floor == pending_floor(b)
        reach == saturating_sub(floor, 1 + ParentReach)
    IN IF CertGrace # 0 /\ floor # Unknown /\ reach <= h
       THEN Max({Min({h, reach}), saturating_sub(h, CertGrace)})
       ELSE h

\* Mutated form: clamp one height lower than the code does.
PendingClamp_OffByOne(b) == saturating_sub(pending_floor(b), 2)

\* The highest line strictly below every parked view.
PendingClamp(b) == saturating_sub(pending_floor(b), 1)

depth_rule_final(b) ==
    LET tip     == tip_height(b)
        line    == tip - FinalDepth
        clamped == Min({line, PendingClamp(b)})
        window  == IF Len(b.pending) >= MaxPending
                   THEN Min({MaxWindow, SelfHealWindow}) ELSE MaxWindow
        hard    == saturating_sub(tip, window)
    IN IF tip = Unknown \/ tip < FinalDepth THEN Unknown
       ELSE IF pending_floor(b) = Unknown THEN line
       ELSE Min({Max({clamped, hard}), line})

\* The highest spine block with FinalQuorum distinct producers strictly above it.
quorum_final(b) ==
    LET above(h) == {View[spine_block_at(b, g)].producer : g \in (h + 1) .. tip_height(b)}
        final    == {h \in 0 .. tip_height(b) :
                        /\ spine_block_at(b, h) # NoBlock
                        /\ Cardinality(above(h)) >= FinalQuorum}
    IN IF FinalQuorum <= 1 \/ tip_height(b) = Unknown \/ final = {} THEN Unknown
       ELSE Max(final)

\* The line every insert is measured against: the depth rule, raised by the
\* certified height once this braid's own tip has reached it, and by the quorum
\* rule.
computed_final(b) ==
    LET depth == IF DepthFinality THEN depth_rule_final(b) ELSE Unknown
        base  == IF b.certified = NoBlock \/ View[b.certified].height > tip_height(b)
                 THEN depth
                 ELSE Max({depth, cert_line_held(b, View[b.certified].height)})
    IN Max({base, quorum_final(b)})

-----------------------------------------------------------------------------
(* Parking, waking and admitting.                                           *)

park(b, v) ==
    [b EXCEPT !.pending = Append(@, v),
              !.parked_at[v] = IF tip_height(b) = Unknown THEN View[v].height
                                                          ELSE tip_height(b)]

\* Vec::retain.
Retain(s, keep) ==
    LET upTo[i \in 0 .. Len(s)] ==
            IF i = 0 THEN <<>>
            ELSE IF s[i] \in keep THEN Append(upTo[i - 1], s[i]) ELSE upTo[i - 1]
    IN upTo[Len(s)]

unpark_take(b, v) ==
    [b EXCEPT !.pending = Retain(@, Block \ {v}), !.parked_at[v] = Unknown]

RetainWaiters(b, keep) ==
    [b EXCEPT !.waiters = [h \in Hash |-> Retain(@[h], keep)]]

\* Mutated form: a full pool grows.
evict_oldest_parked_Keeps(b) == b

evict_oldest_parked(b) ==
    LET oldest == Head(b.pending)
    IN RetainWaiters(unpark_take(b, oldest), Block \ {oldest})

\* Register v under each parent the braid does not know, then park it.
ParkOn(b, v, missing) ==
    park([b EXCEPT !.waiters = [h \in Hash |-> IF h \in missing THEN Append(@[h], v)
                                                              ELSE @[h]]], v)

structural_reject(v) ==
    LET w == View[v]
    IN \/ w.parent = v
       \/ Len(w.merge) > MaxMergeParents
       \/ w.height = 0 /\ w.merge # <<>>
       \/ v \in ToSet(w.merge)
       \/ w.height > 0 /\ w.parent \in ToSet(w.merge)
       \/ Cardinality(ToSet(w.merge)) # Len(w.merge)

MissingOf(b, v) == {p \in Parents(v) : known_height(b, p) = Unknown}

\* The verdict of try_accept before it changes anything (enum Accept).
Admission(b, v) ==
    CASE MissingOf(b, v) # {} -> "Missing"
      [] MissingOf(b, v) = {} /\ View[v].height > 0
            /\ known_height(b, View[v].parent) + 1 # View[v].height -> "Bad"
      [] OTHER -> IF Cardinality(b.recs) >= MaxWindow THEN "WindowFull" ELSE "Ok"

\* try_accept once the verdict is Ok.
Accept(b, v) ==
    LET in == [b EXCEPT !.recs = @ \union {v},
                        !.children = @ \union ((Parents(v) \intersect b.recs) \X {v})]
    IN [in EXCEPT !.sel_tip = carry_tip_memo(in, b.sel_tip, v)]

\* One turn of cascade_unpark's loop: take the child at the head of the work
\* queue.  With a grace the line is read while the child is still parked.
UnparkNext(s) ==
    LET b     == s.braid
        child == Head(s.work)
        rest  == Tail(s.work)
        taken == unpark_take(b, child)
        line  == IF CertGrace > 0 THEN computed_final(b) ELSE computed_final(taken)
        wake  == [taken EXCEPT !.waiters[child] = <<>>]
    IN IF child \notin Parked(b) THEN [braid |-> b, work |-> rest]
       ELSE IF View[child].height <= line THEN [braid |-> taken, work |-> rest]
       ELSE CASE Admission(taken, child) = "Ok" ->
                   [braid |-> Accept(wake, child), work |-> rest \o taken.waiters[child]]
              [] Admission(taken, child) = "Missing" ->
                   [braid |-> ParkOn(taken, child, MissingOf(taken, child)), work |-> rest]
              [] OTHER -> [braid |-> taken, work |-> rest]

\* Mutated form: nobody is woken.
cascade_unpark_None(b, accepted) == b

cascade_unpark(b, accepted) ==
    LET run[s \in [braid : BraidType, work : Seq(Block)]] ==
            IF s.work = <<>> THEN s.braid ELSE run[UnparkNext(s)]
    IN run[[braid |-> [b EXCEPT !.waiters[accepted] = <<>>],
            work  |-> b.waiters[accepted]]]

anchor_trusted(b, h, height) ==
    IF h \in b.recs \/ b.emitted_at[h] # Unknown THEN b
    ELSE [b EXCEPT !.emitted_at[h] = height]

\* Mutated form: a block exactly at the line is let in.
BelowFinal_Strict(b, v) == View[v].height < computed_final(b)

BelowFinal(b, v) == View[v].height <= computed_final(b)

\* Mutated form: a block below the line is refused whoever waits for it.
LateParent_Refused(b, v) == b

\* A block below the line that parked blocks wait for becomes anchored history
\* under cert_fork_choice; any other is refused (BelowFinal).
LateParent(b, v) ==
    IF CertForkChoice /\ b.waiters[v] # <<>>
    THEN cascade_unpark(anchor_trusted(b, v, View[v].height), v)
    ELSE b

ParkNew(b, v) ==
    IF Len(b.pending) < MaxPending THEN ParkOn(b, v, MissingOf(b, v))
    ELSE IF b.pending = <<>> THEN b                      \* "pending overflow"
    ELSE ParkOn(evict_oldest_parked(b), v, MissingOf(b, v))

insert(b, v) ==
    CASE v \in b.recs \union Parked(b) \/ structural_reject(v) -> b
      [] v \notin b.recs \union Parked(b) /\ ~structural_reject(v) ->
           CASE BelowFinal(b, v) -> LateParent(b, v)
             [] ~BelowFinal(b, v) /\ Admission(b, v) = "Ok" -> cascade_unpark(Accept(b, v), v)
             [] ~BelowFinal(b, v) /\ Admission(b, v) = "Missing" -> ParkNew(b, v)
             [] ~BelowFinal(b, v) /\ Admission(b, v) \in {"Bad", "WindowFull"} -> b

-----------------------------------------------------------------------------
(* Certificates.                                                            *)

\* Mutated form: only the very same certificate counts as covered.
AlreadyCovered_SameOnly(b, c) == b.certified = c

AlreadyCovered(b, c) ==
    b.certified # NoBlock /\ View[c].height <= View[b.certified].height

\* Mutated form: only a certificate at or below the finalized height conflicts.
ConflictsWithFinal_Above(b, c) ==
    LET final == Max({computed_final(b), 0})
    IN View[c].height <= final

\* Following c would replace the block our spine holds at the finalized height.
ConflictsWithFinal(b, c) ==
    LET final == Max({computed_final(b), 0})
    IN /\ final > 0
       /\ \/ spine_block_at(b, final) = NoBlock
          \/ spine_block_at(b, final) # AncestorAt(b, c, final)

set_certified(b, c) ==
    LET height   == View[c].height
        onSpine  == spine_block_at(b, height) = c
        followed == [b EXCEPT !.certified = c]
    IN IF \/ AlreadyCovered(b, c)
          \/ height > tip_height(b)                              \* AheadOfTip
          \/ ~onSpine /\ (~CertForkChoice \/ c \notin b.recs)    \* NotOnSpine
          \/ ~onSpine /\ ConflictsWithFinal(b, c)
       THEN b
       ELSE IF CertForkChoice THEN Recount(followed) ELSE followed

-----------------------------------------------------------------------------
(* Draining: evict, read the line, clean up, emit.                          *)

\* Mutated form: pending_max_tip_lag is never applied.
evict_stale_pending_Off(b) == b

evict_stale_pending(b) ==
    LET unclamped == saturating_sub(tip_height(b), FinalDepth)
        Stale(v)  == /\ View[v].height <= unclamped
                     /\ saturating_sub(tip_height(b), b.parked_at[v]) > PendingMaxTipLag
        kept      == Retain(b.pending, {v \in Block : ~Stale(v)})
        evicted   == [b EXCEPT !.pending = kept,
                               !.parked_at = [v \in Block |->
                                   IF v \in ToSet(kept) THEN @[v] ELSE Unknown]]
    IN IF PendingMaxTipLag = 0 \/ tip_height(b) = Unknown \/ kept = b.pending THEN b
       ELSE RetainWaiters(evicted, ToSet(kept))

cleanup_heavy(b, f) ==
    LET unemitted == {View[v].height : v \in b.recs \ b.emitted}
        cutoff    == Min({saturating_sub(f, FinalDepth)} \union unemitted)
        resident  == {v \in b.recs : View[v].height >= cutoff}
        forget    == saturating_sub(f, MaxWindow)
        trimmed   == [b EXCEPT !.recs = resident,
                               !.emitted = @ \intersect resident,
                               !.children = @ \intersect (resident \X resident),
                               !.emitted_at = [h \in Hash |->
                                   IF @[h] < forget THEN Unknown ELSE @[h]],
                               !.last_heavy = f]
    IN IF cutoff > 0 THEN Recount(trimmed) ELSE trimmed

cleanup_light(b, f) ==
    LET kept == Retain(b.pending, {v \in Block : View[v].height > f})
    IN RetainWaiters([b EXCEPT !.pending = kept,
                               !.parked_at = [v \in Block |->
                                   IF v \in ToSet(kept) THEN @[v] ELSE Unknown]],
                     ToSet(kept))

cleanup(b, f) ==
    cleanup_light(IF b.last_heavy = 0 \/ f >= b.last_heavy + CleanupStride
                  THEN cleanup_heavy(b, f) ELSE b, f)

\* deps_unmet = 0 and not emitted: no edge from a resident, unemitted parent.
frontier(b) ==
    {v \in b.recs \ b.emitted :
        \A p \in b.recs \ b.emitted : <<p, v>> \notin b.children}

emit(b, v) ==
    [b EXCEPT !.emitted = @ \union {v},
              !.frozen = Append(@, v),
              !.emitted_at[v] = View[v].height]

\* Pop the frontier's least key while it is at or below the line.
EmitThrough(b, f) ==
    LET run[n \in 0 .. Cardinality(b.recs)] ==
            IF n = 0 THEN b
            ELSE LET prev  == run[n - 1]
                     least == FirstKey(frontier(prev))
                 IN IF frontier(prev) = {} \/ View[least].height > f
                    THEN prev ELSE emit(prev, least)
    IN run[Cardinality(b.recs)]

drain_ordered(b) ==
    LET fresh == evict_stale_pending(b)
        f     == computed_final(fresh)
    IN IF f = Unknown THEN fresh ELSE EmitThrough(cleanup(fresh, f), f)

-----------------------------------------------------------------------------
(* The state machine of one braid.                                          *)

Init ==
    /\ braid = [recs |-> {}, emitted |-> {}, children |-> {}, pending |-> <<>>,
                parked_at |-> [v \in Block |-> Unknown],
                waiters |-> [h \in Hash |-> <<>>],
                emitted_at |-> [h \in Hash |->
                    IF h \in DOMAIN Trusted THEN Trusted[h] ELSE Unknown],
                certified |-> NoBlock, sel_tip |-> NoBlock,
                last_heavy |-> 0, frozen |-> <<>>]
    /\ admitted = {}
    /\ drainLine = Unknown

Becomes(b) ==
    /\ braid' = b
    /\ admitted' = admitted \union b.recs

\* A block arrives by gossip, by hash or from the local producer; any block
\* may be offered at any time and again.
Insert(v) == Becomes(insert(braid, v)) /\ UNCHANGED drainLine

\* Mutated form: the merge parents are left to the network.
AnchorMerges_Skipped(b, v) == b

\* Anchor every merge parent of v that is not parked one height below v.
AnchorMerges(b, v) ==
    LET merges == ToSet(View[v].merge) \ (Parked(b) \union b.recs)
    IN [b EXCEPT !.emitted_at = [h \in Hash |->
           IF h \in merges /\ @[h] = Unknown THEN saturating_sub(View[v].height, 1) ELSE @[h]]]

\* Catch-up applied v to the settled chain, on top of its parent: the merge
\* parents are anchored and then v itself is offered.
CatchUp(v) ==
    /\ known_height(braid, View[v].parent) # Unknown
    /\ Becomes(insert(AnchorMerges(braid, v), v))
    /\ UNCHANGED drainLine

SetCertified(c) == Becomes(set_certified(braid, c)) /\ UNCHANGED drainLine

Drain ==
    /\ Becomes(drain_ordered(braid))
    /\ drainLine' = Max({drainLine, computed_final(evict_stale_pending(braid))})

Next ==
    \/ \E v \in Block : Insert(v)
    \/ \E v \in CaughtUp : CatchUp(v)
    \/ \E c \in Certifiable : SetCertified(c)
    \/ Drain

Spec == Init /\ [][Next]_vars

-----------------------------------------------------------------------------
(* Properties.                                                              *)

TypeOK ==
    /\ braid \in BraidType
    /\ braid.emitted \subseteq braid.recs
    /\ braid.recs \subseteq admitted /\ admitted \subseteq Block
    /\ drainLine \in Nat \union {Unknown}
    /\ Len(braid.pending) <= MaxPending

\* Every block at or below the line has been emitted in the order a batch
\* Kahn walk over all blocks ever admitted would give them.
BatchOrder(S) ==
    LET order[n \in 0 .. Cardinality(S)] ==
            IF n = 0 THEN <<>>
            ELSE LET prev  == order[n - 1]
                     ready == {v \in S \ ToSet(prev) :
                                 Parents(v) \intersect S \subseteq ToSet(prev)}
                 IN IF ready = {} THEN prev ELSE Append(prev, FirstKey(ready))
    IN order[Cardinality(S)]

\* The module doc's invariant: what the drains handed out so far is a prefix of
\* the batch linearization of everything this braid ever admitted, so no late
\* arrival can be ordered before a block that was already drained.
FrozenIsBatchPrefix == IsPrefix(braid.frozen, BatchOrder(admitted))

\* The line never falls back below a height a drain has already frozen: inserts
\* at or below that height stay refused for good.
DrainedLineHolds == computed_final(braid) >= drainLine

\* A parked view waits for a parent the braid does not know, and the arrival of
\* that parent will wake it.  Otherwise nobody asks for the block again and it
\* pins the finality line until it is evicted.
ParkedWaitsOnUnknown ==
    \A v \in Parked(braid) :
        \E p \in MissingOf(braid, v) : v \in ToSet(braid.waiters[p])

missing_parents(b) ==
    {p \in Hash : /\ known_height(b, p) = Unknown /\ p \notin Parked(b)
                  /\ ToSet(b.waiters[p]) \intersect Parked(b) # {}}

\* Whatever missing_parents asks the network for moves the braid when it comes:
\* the block is admitted, anchored or parked, never turned away at the door.
MissingParentsAdmissible ==
    \A p \in {h \in missing_parents(braid) : h \in Block /\ ~structural_reject(h)} :
        LET after == insert(braid, p)
        IN known_height(after, p) # Unknown \/ p \in Parked(after)

\* The bounded hold of cert_line_held: a missing parent within ParentReach of
\* the block waiting for it, and within the grace of the certificate, can still
\* be admitted however far the certificate has run ahead.
LateParentAdmissible ==
    \A v \in Parked(braid) : \A p \in MissingOf(braid, v) \intersect Block :
        (/\ braid.certified # NoBlock
         /\ View[p].height >= View[v].height - ParentReach
         /\ View[p].height > View[braid.certified].height - CertGrace)
        => View[p].height > computed_final(braid)

\* The memo carried across inserts is what a full recount would select.
TipMemoIsRecount == braid.sel_tip = selected_tip(braid)

\* A certificate only raises the line.
CertificateNeverLowers ==
    [][\A c \in Certifiable :
         SetCertified(c) => computed_final(braid') >= computed_final(braid)]_vars

\* Fork choice never changes the selected spine at a height a drain has frozen.
\* With a grace there is one exception: a late parked block holds the line below
\* that height, and a new certificate, which ConflictsWithFinal compares at the held
\* line, names a block of another branch.
FrozenSpineStable ==
    [][\A h \in 0 .. drainLine :
         LET before == spine_block_at(braid, h)
             after  == spine_block_at(braid', h)
         IN before # NoBlock /\ after # NoBlock
              => \/ before = after
                 \/ /\ CertGrace > 0 /\ h > computed_final(braid)
                    /\ braid'.certified # braid.certified]_vars

\* The braid follows catch-up: a block a peer has settled, offered on top of a
\* known parent, enters the window unless the line already covers it or one of
\* the blocks involved was parked before.
CaughtUpJoins ==
    [][\A v \in CaughtUp :
         (/\ CatchUp(v)
          /\ ({v} \union ToSet(View[v].merge)) \intersect Parked(braid) = {})
         => v \in braid'.recs \/ BelowFinal(braid, v)]_vars

\* Every block keeps being offered (gossip, range backfill and by-hash fetch
\* repeat until the block is known) and the node drains on every tick.  Each
\* conjunct is weak fairness with ENABLED written out: the call is owed only while
\* it would change the braid.
Fairness ==
    /\ \A v \in Block : []<>(insert(braid, v) = braid) \/ []<><<Insert(v)>>_vars
    /\ []<>(drain_ordered(braid) = braid) \/ []<><<Drain>>_vars
FairSpec == Spec /\ Fairness

\* No block is lost: whatever the arrival order was and however often the full
\* pool dropped a waiter, each block joins the window or becomes anchored
\* history, unless a certificate has put the line above it.
EventuallyDecided ==
    \A v \in Block :
        <>[](v \in admitted \/ known_height(braid, v) # Unknown \/ BelowFinal(braid, v))

\* A parked view whose parent can no longer come does not hold the line for
\* good: it ends up within the tip lag of where the depth rule alone puts it.
LineNotPinned ==
    <>[](computed_final(braid) >= tip_height(braid) - FinalDepth - PendingMaxTipLag)

=============================================================================
