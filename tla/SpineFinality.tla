----------------------------- MODULE SpineFinality -----------------------------
(***************************************************************************)
(* Votes, certificates, fork choice and settlement of the nodes of          *)
(* crates/sigil-node, put together: a validator votes for the block its own *)
(* spine holds, a quorum of votes makes a certificate, the certificate      *)
(* steers the fork choice of the braid, and a node settles the finalized    *)
(* part of its spine.                                                       *)
(*                                                                          *)
(* Each event of the node's select loop is one action and runs to its end,  *)
(* as the loop does.  What Braid and FinalityVotes model in detail is       *)
(* abstract here: a block enters the window once its parent is there, no    *)
(* block leaves it, the pending clamp and the certificate grace are off,    *)
(* and a node learns a certificate in one step once a quorum has signed.    *)
(***************************************************************************)
EXTENDS Committee, FiniteSets

CONSTANTS
    Validator,          \* the committee
    Byzantine,          \* members that sign anything
    Producer,           \* validators that mint (`produce`)
    CrashProne,         \* validators that may restart or rebuild their braid
    Block,              \* block hashes, ordered as the code orders hash bytes
    Root,               \* genesis; stands for None where the code has no block yet
    Chain,              \* Block -> its ancestors by the parent walk, itself included
    Height,             \* Block -> header height
    VoteDepth,          \* SIGIL_FINALITY_VOTE_DEPTH
    CheckpointInterval, \* cfg.checkpoint_interval
    FinalDepth,         \* cfg.final_depth
    CertForkChoice,     \* cfg.cert_fork_choice
    DepthFinality,      \* cfg.depth_finality
    AnchorSeed,         \* SIGIL_DAG_ANCHOR_SEED
    HashFetch,          \* peers answer requests for blocks by hash
    RangeSync,          \* peers answer requests for a range of their settled chain
    ReseedLag           \* 8 in the code, scaled to the model

Honest == Validator \ Byzantine

ASSUME SpineAssumption ==
    /\ IsFiniteSet(Validator) /\ Validator # {}
    /\ Byzantine \subseteq Validator
    /\ Producer \subseteq Honest /\ CrashProne \subseteq Honest
    /\ Block \subseteq Nat /\ IsFiniteSet(Block) /\ Root \in Block
    /\ {VoteDepth, FinalDepth, ReseedLag} \subseteq Nat
    /\ CheckpointInterval \in Nat \ {0}
    /\ {CertForkChoice, DepthFinality, AnchorSeed, HashFetch,
        RangeSync} \subseteq BOOLEAN

\* The parent walk: every chain goes down to the root one height at a time, and a
\* block's ancestors have their own chains inside it.
ASSUME ChainAssumption ==
    /\ Chain \in [Block -> SUBSET Block] /\ Height \in [Block -> Nat]
    /\ Height[Root] = 0
    /\ \A b \in Block : b \in Chain[b] /\ Root \in Chain[b]
    /\ \A b \in Block : \A a \in Chain[b] :
          /\ Chain[a] \subseteq Chain[b]
          /\ \A c \in Chain[b] : Height[c] <= Height[a] => c \in Chain[a]
          /\ Height[a] <= Height[b] /\ (Height[a] = Height[b] => a = b)
    /\ \A b \in Block : \A h \in 0 .. Height[b] : \E a \in Chain[b] : Height[a] = h

VARIABLES
    node,   \* each honest validator's node, see NodeType
    signed  \* <<validator, block>>: every vote made so far

vars == <<node, signed>>

NodeType ==
    [window    : SUBSET Block, \* braid.recs
     certified : Block,        \* braid.certified, and the fork anchor with it
     settled   : Block,        \* the tip of the settled chain
     last      : Block,        \* VoteGuard.last, on disk
     newest    : Block]        \* the observer's latest_certificate

Quorum == availability_quorum(Cardinality(Validator))

\* Blocks for which a quorum's votes exist.
Certifiable(S) ==
    {b \in Block \ {Root} : Cardinality({v \in Validator : <<v, b>> \in S}) >= Quorum}

is_checkpoint(h) == h % CheckpointInterval = 0

-----------------------------------------------------------------------------
(* The braid's fork choice and finality line.                               *)

\* spine_block_at: the block at height h on the parent walk from b.
BlockAt(b, h) == CHOOSE a \in Chain[b] : Height[a] = h

\* Mutated form: the certificate does not steer the fork choice.
Candidates_Unanchored(n) == n.window

\* Blocks the fork choice may select: all, or the descendants of the anchor.
Candidates(n) ==
    IF CertForkChoice THEN {b \in n.window : n.certified \in Chain[b]} ELSE n.window

\* Max height, then min hash.
Tip(n) ==
    LET cands == Candidates(n)
    IN CHOOSE b \in cands : \A c \in cands :
           Height[b] > Height[c] \/ (Height[b] = Height[c] /\ b <= c)

\* Mutated form: the depth rule applies whether it is on or not.
Line_DepthToo(n) ==
    LET tip   == Height[Tip(n)]
        depth == IF tip > FinalDepth THEN tip - FinalDepth ELSE 0
    IN IF Height[n.certified] > depth THEN Height[n.certified] ELSE depth

\* computed_final.
Line(n) ==
    LET tip   == Height[Tip(n)]
        depth == IF DepthFinality /\ tip > FinalDepth THEN tip - FinalDepth ELSE 0
        cert  == IF Height[n.certified] <= tip THEN Height[n.certified] ELSE 0
    IN IF cert > depth THEN cert ELSE depth

\* Mutated form: a block is let in without its parents.
Admissible_Orphan(n, b) == b \notin n.window /\ Height[b] > Line(n)

\* insert admits b: new, its ancestors known, above the line.
Admissible(n, b) ==
    /\ b \notin n.window
    /\ Chain[b] \ {b} \subseteq n.window
    /\ Height[b] > Line(n)

insert(n, b) == [n EXCEPT !.window = @ \union {b}]

\* set_certified would replace the block our spine holds at the finalized height.
ConflictsWithFinal(n, c) ==
    /\ Line(n) > 0
    /\ \/ Height[c] < Line(n)
       \/ BlockAt(Tip(n), Line(n)) # BlockAt(c, Line(n))

\* set_certified gets past "already covered" and "ahead of tip".
Considered(n, c) == Height[n.certified] < Height[c] /\ Height[c] <= Height[Tip(n)]

set_certified(n, c) ==
    IF /\ Considered(n, c)
       /\ \/ c \in Chain[Tip(n)]                                       \* Raised
          \/ CertForkChoice /\ c \in n.window /\ ~ConflictsWithFinal(n, c) \* Followed
    THEN [n EXCEPT !.certified = c] ELSE n

apply_finality_gate(n) == set_certified(n, n.newest)

-----------------------------------------------------------------------------
(* The vote.                                                                *)

\* Mutated form: the last vote binds nothing.
extends_Anything(n) == TRUE

\* The lock of spine_vote: the last vote is on our spine or on our settled chain,
\* or a certificate at or above it is on our spine.
extends(n) ==
    \/ n.last \in Chain[Tip(n)]
    \/ n.last \in Chain[n.settled]
    \/ n.newest # Root /\ Height[n.newest] >= Height[n.last] /\ n.newest \in Chain[Tip(n)]

\* Heights a vote is due at: checkpoints above the last vote, VoteDepth under the tip.
Due(n) ==
    {h \in 1 .. Height[Tip(n)] :
        h > Height[n.last] /\ h + VoteDepth <= Height[Tip(n)] /\ is_checkpoint(h)}

\* The block spine_vote signs, Root if none: the one at the highest height due.
spine_vote(n) ==
    IF Due(n) = {} \/ ~extends(n) THEN {Root}
    ELSE {BlockAt(Tip(n), h) : h \in {g \in Due(n) : \A k \in Due(n) : k <= g}}

\* The node and the votes after v signed t.
Voted(n, t) == IF t = Root THEN n ELSE [n EXCEPT !.last = t]
Signed(v, t) == IF t = Root THEN signed ELSE signed \union {<<v, t>>}

\* Certificates the observer may hold as its newest once the votes S exist.
Learnable(n, S) == {n.newest} \union {c \in Certifiable(S) : Height[c] > Height[n.newest]}

-----------------------------------------------------------------------------
(* Settlement.                                                              *)

\* Mutated form: the whole spine is settled, not only what is final.
dag_drain_apply_ToTip(n) ==
    {n} \union
    {[n EXCEPT !.settled = BlockAt(Tip(n), h)] :
        h \in {g \in Height[n.settled] .. Height[Tip(n)] : n.settled \in Chain[Tip(n)]}}

\* dag_drain_apply: the spine from the settled tip up to the line is applied.  A
\* body that is missing or refused stops it early, a spine that has left the
\* settled chain before it starts.
dag_drain_apply(n) ==
    {n} \union
    {[n EXCEPT !.settled = BlockAt(Tip(n), h)] :
        h \in {g \in Height[n.settled] .. Line(n) : n.settled \in Chain[Tip(n)]}}

\* Mutated form: every seed forgets what is final.
dag_seed_braid_NoAnchor(n) ==
    [n EXCEPT !.window = Chain[n.settled], !.certified = Root]

\* A braid rebuilt from the settled chain.
dag_seed_braid(n) ==
    [n EXCEPT !.window = Chain[n.settled],
              !.certified = IF AnchorSeed /\ CertForkChoice THEN n.settled ELSE Root]

\* Where a producer mints: the selected tip if the settled chain leads there.
FrontierTip(n) == IF n.settled \in Chain[Tip(n)] THEN Tip(n) ELSE n.settled

-----------------------------------------------------------------------------
(* The events of the node.                                                  *)

\* A block arrives by gossip: insert, vote, gate, drain.
OnBlock(v, b) ==
    LET in == insert(node[v], b)
    IN /\ Admissible(node[v], b)
       /\ \E t \in spine_vote(in) :
             /\ signed' = Signed(v, t)
             /\ \E c \in Learnable(in, signed') :
                  \E n \in dag_drain_apply(
                             apply_finality_gate([Voted(in, t) EXCEPT !.newest = c])) :
                     node' = [node EXCEPT ![v] = n]

\* A producer mints a block on its frontier: insert, drain, vote, gate.
OnMint(v, b) ==
    /\ \A w \in Honest : b \notin node[w].window
    /\ Height[b] > 0 /\ BlockAt(b, Height[b] - 1) = FrontierTip(node[v])
    /\ Admissible(node[v], b)
    /\ \E in \in dag_drain_apply(insert(node[v], b)) :
          \E t \in spine_vote(in) :
             /\ signed' = Signed(v, t)
             /\ \E c \in Learnable(in, signed') :
                  node' = [node EXCEPT ![v] =
                     apply_finality_gate([Voted(in, t) EXCEPT !.newest = c])]

\* A block arrives by hash, or is woken by one that did: it is only inserted.
OnFetched(v, b) ==
    /\ HashFetch
    /\ Admissible(node[v], b)
    /\ node' = [node EXCEPT ![v] = insert(node[v], b)]
    /\ UNCHANGED signed

\* Votes arrive and may complete a certificate: gate, and a producer drains.
OnVotes(v) ==
    \E c \in Learnable(node[v], signed) :
        LET gated == apply_finality_gate([node[v] EXCEPT !.newest = c])
        IN /\ \E n \in IF v \in Producer THEN dag_drain_apply(gated) ELSE {gated} :
                 node' = [node EXCEPT ![v] = n]
           /\ UNCHANGED signed

\* What the catch-up loop makes of the blocks of w's settled chain up to `top`:
\* they extend the settled chain of n and are offered to its braid one by one.
CaughtUp(n, top) ==
    LET joins(b) == \A a \in Chain[b] :
                       Height[a] >= Height[n.settled] => a \in n.window \/ Height[a] > Line(n)
    IN [n EXCEPT !.settled = top,
                 !.window = @ \union {b \in Chain[top] : joins(b)}]

\* A braid whose tip is ReseedLag behind the node's own settled chain is rebuilt.
Reseeded(n) ==
    IF CertForkChoice /\ Height[n.settled] + 1 > Height[Tip(n)] + ReseedLag
    THEN dag_seed_braid(n) ELSE n

\* A range of w's settled chain arrives: apply, insert, reseed, drain.
OnRange(v, w) ==
    /\ RangeSync
    /\ node[v].settled \in Chain[node[w].settled] /\ node[v].settled # node[w].settled
    /\ \E top \in Chain[node[w].settled] :
          /\ Height[top] > Height[node[v].settled]
          /\ \E n \in dag_drain_apply(Reseeded(CaughtUp(node[v], top))) :
                node' = [node EXCEPT ![v] = n]
    /\ UNCHANGED signed

\* The settled chain and the signer guard are on disk; the braid is seeded from the
\* first, and the certificates and votes the observer held are gone.
Restart(v) ==
    /\ node' = [node EXCEPT ![v] = [dag_seed_braid(node[v]) EXCEPT !.newest = Root]]
    /\ UNCHANGED signed

\* A braid that keeps rejecting blocks is rebuilt while the node runs.
ReAnchor(v) ==
    /\ node' = [node EXCEPT ![v] = dag_seed_braid(node[v])]
    /\ UNCHANGED signed

\* A Byzantine member's votes all exist from the start: a signature more only
\* makes more certificates possible.
Init ==
    /\ node = [v \in Honest |-> [window |-> {Root}, certified |-> Root,
                                 settled |-> Root, last |-> Root, newest |-> Root]]
    /\ signed = Byzantine \X Block

Next ==
    \/ \E v \in Honest, b \in Block : OnBlock(v, b)
    \/ \E v \in Producer, b \in Block : OnMint(v, b)
    \/ \E v \in Honest, b \in Block : OnFetched(v, b)
    \/ \E v \in Honest : OnVotes(v)
    \/ \E v, w \in Honest : OnRange(v, w)
    \/ \E v \in CrashProne : Restart(v)
    \/ \E v \in CrashProne : ReAnchor(v)

Spec == Init /\ [][Next]_vars

-----------------------------------------------------------------------------
(* Properties.                                                              *)

TypeOK ==
    /\ node \in [Honest -> NodeType]
    /\ signed \subseteq Validator \X Block
    /\ \A v \in Honest :
          /\ {Root, node[v].certified} \subseteq node[v].window
          /\ \A b \in node[v].window : Chain[b] \subseteq node[v].window

\* Certificates never contradict each other across heights: all certified blocks
\* lie on one branch, however the validators' spines moved between their votes.
CertificatesOneBranch ==
    \A a, b \in Certifiable(signed) : a \in Chain[b] \/ b \in Chain[a]

\* The chain a node has settled stays on the spine it votes and mints on.
SettledOnSpine == \A v \in Honest : node[v].settled \in Chain[Tip(node[v])]

\* The gate never meets a certificate that contradicts what the node finalized.
GateNeverConflicts ==
    \A v \in Honest :
        LET n == node[v]
        IN ~(/\ Considered(n, n.newest) /\ n.newest \notin Chain[Tip(n)]
             /\ n.newest \in n.window /\ ConflictsWithFinal(n, n.newest))

\* The lock as spine_vote documents it: a validator whose last vote is not on its
\* spine votes only if a certificate at or above that vote is on its spine.
LockReleasedOnlyByCertificate ==
    [][\A v \in Honest :
         LET old == node[v].last
             new == node'[v].last
         IN new = old \/ old \in Chain[new]
              \/ \E c \in Certifiable(signed') : Height[c] >= Height[old]
                    /\ (c \in Chain[new] \/ new \in Chain[c])]_vars

\* Final are the blocks below a certificate.
FinalBlocks == {Root} \union UNION {Chain[c] : c \in Certifiable(signed)}

\* Whether it drained them itself or caught up with a peer, a node has settled only
\* blocks at or below a certificate.
SettledIsFinal == \A v \in Honest : node[v].settled \in FinalBlocks

Abstract == INSTANCE FinalChain
    WITH Node <- Honest, final <- FinalBlocks, settled <- [v \in Honest |-> node[v].settled]

\* The nodes together implement one growing chain of final blocks.
ImplementsFinalChain == Abstract!Spec

=============================================================================
