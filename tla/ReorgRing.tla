------------------------------ MODULE ReorgRing ------------------------------
(***************************************************************************)
(* A follower's ring of recent chain tips (sigil-node follower_reorg.rs):   *)
(* what it keeps, when a mismatch becomes a rollback, and where to.         *)
(***************************************************************************)
EXTENDS ChainLog

CONSTANTS
    Cadence,    \* SIGIL_REORG_CADENCE
    RingCap,    \* SIGIL_REORG_DEPTH
    ForkHits    \* FORK_HITS_BEFORE_REORG

\* with_params clamps; the threshold is a constant of the code.
ASSUME RingAssumption ==
    /\ Cadence \in Nat \ {0} /\ RingCap \in Nat \ {0, 1} /\ ForkHits \in Nat \ {0, 1}

EmptyRing == [ckpts |-> <<>>, last_capture |-> 0, ceiling |-> NoHeight, hits |-> 0]

push(q, c) ==
    IF Len(q) < RingCap THEN Append(q, c) ELSE Tail(Append(q, c))

\* Once the distance is covered; a capture past the ceiling lifts it.
maybe_capture(r, chain) ==
    IF r.last_capture # 0 /\ Height(chain) < r.last_capture + Cadence THEN r
    ELSE [r EXCEPT !.ckpts = push(@, chain), !.last_capture = Height(chain),
                   !.ceiling = IF Height(chain) > @ THEN NoHeight ELSE @]

clear_fork_hits(r) == [r EXCEPT !.hits = 0]

\* Mutated form: a mismatch is noted, not counted.
note_fork_hit_Once(r) == [r EXCEPT !.hits = 1]

\* Counted to the threshold only: past it every count answers alike.
note_fork_hit(r) == [r EXCEPT !.hits = IF @ < ForkHits THEN @ + 1 ELSE @]

Persistent(r) == r.hits >= ForkHits

\* The rollback must go below the tip and below the last restored height.
Ceiling(r, chain) ==
    IF r.ceiling = NoHeight \/ r.ceiling > Height(chain) THEN Height(chain)
    ELSE r.ceiling

Eligible(r, chain) == {k \in DOMAIN r.ckpts : Height(r.ckpts[k]) < Ceiling(r, chain)}

\* The newest of them.
Newest(r, chain) == Max(Eligible(r, chain))
Target(r, chain) == r.ckpts[Newest(r, chain)]

\* Mutated form: checkpoints of the abandoned suffix stay.
Reorged_KeepsNewer(r, chain) ==
    LET t == Target(r, chain)
    IN [r EXCEPT !.ceiling = Height(t), !.last_capture = Height(t), !.hits = 0]

\* Checkpoints above the restored one go with the suffix.
Reorged(r, chain) ==
    LET t == Target(r, chain)
    IN [r EXCEPT !.ckpts = SubSeq(@, 1, Newest(r, chain)),
                 !.ceiling = Height(t), !.last_capture = Height(t), !.hits = 0]

=============================================================================
