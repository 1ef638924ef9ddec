------------------------------- MODULE Follower -------------------------------
(***************************************************************************)
(* A follower of a producer that may restart, rewind and mint other blocks, *)
(* with a braid and a checkpoint ring (SIGIL_DAG=1, SIGIL_FOLLOWER_REORG=1): *)
(* catch-up from peers (the braid's backfill arm of the event loop in       *)
(* sigil-node's lib.rs), the blocks its braid settles, the ring that leads  *)
(* it off an abandoned branch, the log it writes behind the chain, and      *)
(* stops of every kind with the boot after.  Without a braid a follower     *)
(* does not roll back: it halts at the first mismatch (diverged); that arm  *)
(* is not modelled.                                                         *)
(*                                                                          *)
(* Applying and appending are two steps with the disk between them, so a    *)
(* stop may lose what was applied and not written, or tear the record being *)
(* written.  Log and index are never synced: a power loss may take the tail *)
(* of each.                                                                 *)
(***************************************************************************)
EXTENDS ReorgRing

CONSTANTS
    Chunk,    \* fetch_chunk: how far a range reaches (adaptive in the code)
    Limits,   \* bounds, one record per scenario: height the producer mints to,
              \* its rewinds, stops of the follower, answers on their way, and
              \* whether peers left on an abandoned branch answer
    Damages   \* what a stop may do to the disk: tear a record ("cut",
              \* "headless"), take entries of the index ("index")

VARIABLES
    canon,      \* the producer's chain
    era,        \* rewinds so far
    abandoned,  \* branches it left that others still hold
    answers,    \* bag of asks answered and not arrived: the height from, the chain
    up,         \* is the follower running
    chain,      \* its tip
    frontier,   \* req_frontier: the next height the windowed fetcher asks for
    pending,    \* blocks waiting by height
    unwritten,  \* applied, not yet appended
    ring,       \* its ReorgRing
    indexing,   \* do its index entries reach chain.idx
    log, idx, snap,   \* chain.log, chain.idx, state-snapshot.bin
    stops,      \* stops so far
    limits      \* the scenario's bounds; fixed

network == <<canon, era, abandoned>>
memory == <<chain, frontier, pending, unwritten, ring, indexing>>
disk == <<log, idx, snap>>
vars == <<canon, era, abandoned, answers, up, chain, frontier, pending, unwritten, ring,
          indexing, log, idx, snap, stops, limits>>

Tears == Damages \intersect {"cut", "headless"}

ASSUME FollowerAssumption ==
    /\ Chunk \in Nat \ {0}
    /\ Limits \subseteq [height : Nat, rewinds : Nat, stops : Nat, answers : Nat,
                          records : Nat, laggards : BOOLEAN]
    /\ Damages \subseteq {"cut", "headless", "index"}

genesis == <<0>>

Init ==
    /\ canon = genesis /\ era = 0 /\ abandoned = {} /\ answers = EmptyBag
    /\ up = TRUE /\ chain = genesis /\ frontier = 1 /\ pending = {} /\ unwritten = <<>>
    /\ ring = EmptyRing /\ indexing = TRUE
    /\ log = <<Rec(genesis)>> /\ idx = Indexed(<<>>, <<>>, genesis) /\ snap = NoBlock
    /\ stops = 0 /\ limits \in Limits

-----------------------------------------------------------------------------
(* The producer, as its followers see it.                                    *)

Mint ==
    /\ Height(canon) < limits.height
    /\ canon' = Append(canon, era)
    /\ UNCHANGED <<era, abandoned, answers, up, memory, disk, stops, limits>>

\* A restart from an older state; every block minted from then on is new.  The
\* branch it leaves is still in circulation.
Rewind ==
    /\ era < limits.rewinds /\ Height(canon) < limits.height
    /\ \E h \in 0 .. Height(canon) - 1 : canon' = UpTo(canon, h)
    /\ era' = era + 1
    /\ abandoned' = abandoned \union {canon}
    /\ UNCHANGED <<answers, up, memory, disk, stops, limits>>

\* Nobody holds the abandoned branches any more.
Forget ==
    /\ abandoned # {} /\ abandoned' = {}
    /\ UNCHANGED <<canon, era, answers, up, memory, disk, stops, limits>>

-----------------------------------------------------------------------------
(* Asks.  A peer answers with blocks of its own chain, from a height on.     *)

\* Bound of the instance: abandoned branches come back to a log no longer than this.
InBounds == Len(log) + Len(unwritten) < limits.records

Peers == {canon} \union {c \in abandoned : limits.laggards /\ InBounds}

\* Mutated form: the window runs on past the height of the peer.
Request_PastTip(from, c) ==
    /\ up /\ unwritten = <<>> /\ BagCardinality(answers) < limits.answers
    /\ LET to == IF Height(c) < from + Chunk THEN Height(c) ELSE from + Chunk
       IN answers' = answers (+) SetToBag({[from |-> from, chain |-> UpTo(c, to)]})
    /\ UNCHANGED <<network, up, chain, pending, unwritten, ring, indexing, disk, stops, limits>>

Request(from, c) ==
    /\ up /\ unwritten = <<>> /\ Height(c) >= from /\ BagCardinality(answers) < limits.answers
    /\ LET to == IF Height(c) < from + Chunk THEN Height(c) ELSE from + Chunk
       IN answers' = answers (+) SetToBag({[from |-> from, chain |-> UpTo(c, to)]})
    /\ UNCHANGED <<network, up, chain, pending, unwritten, ring, indexing, disk, stops, limits>>

\* The windowed fetcher asks on from where it is, without waiting for answers;
\* a rollback does not take it back.
AskAhead ==
    LET from == IF frontier > Len(chain) THEN frontier ELSE Len(chain)
    IN /\ \E c \in Peers : Request(from, c)
       /\ frontier' = from + Chunk

\* A parked block or a peer's height shows a gap: an ask from the next height.
\* The code leaves it out while a range in flight covers that height; a range is
\* out of flight once its request ended, however it ended.
AskNext ==
    /\ \E c \in Peers : Request(Len(chain), c)
    /\ UNCHANGED frontier

-----------------------------------------------------------------------------
(* Catch-up.                                                                 *)

Blocks(a) == {UpTo(a.chain, h) : h \in a.from .. Height(a.chain)}

\* backfill_candidates: a height that waits already keeps the block it has.
Waiting(a) ==
    pending \union
    {b \in Blocks(a) : Height(b) > Height(chain) /\ \A c \in pending : Height(c) # Height(b)}

\* The tip after every waiting block that fits has been applied in turn.
Extended(W) ==
    LET reach == {b \in W \union {chain} :
                     /\ IsPrefix(chain, b)
                     /\ \A h \in Height(chain) + 1 .. Height(b) : UpTo(b, h) \in W}
    IN CHOOSE b \in reach : \A c \in reach : Height(c) <= Height(b)

\* Where dag_drain_apply may take a chain: up any branch that is in circulation
\* and extends it.  Which one is the braid's matter (module Braid).
Drained(c) ==
    {c} \union UNION {{UpTo(e, h) : h \in Height(c) .. Height(e)} :
                        e \in {b \in abandoned \union {canon} : IsPrefix(c, b) /\ InBounds}}

Path(c, d) == [k \in 1 .. Height(d) - Height(c) |-> UpTo(d, Height(c) + k)]

\* An answer arrives.  What fits is applied and goes to the log; the block after
\* it, if one waits there, is a mismatch: it is dropped, and enough of those in
\* a row roll the chain back.  If they do not, the braid settles what it can;
\* a braid seeded anew from the restored tip has nothing to settle.
\* What a drain overtakes is never read again and left out of pending.
Deliver(a) ==
    LET W     == Waiting(a)
        tip   == Extended(W)
        clear == IF tip # chain THEN clear_fork_hits(ring) ELSE ring
        fork  == \E b \in W : Height(b) = Height(tip) + 1
        noted == IF fork THEN note_fork_hit(clear) ELSE clear
        back  == fork /\ Persistent(noted) /\ Eligible(noted, tip) # {}
    IN /\ up /\ unwritten = <<>>
       /\ answers' = answers (-) SetToBag({a})
       /\ \E d \in IF back THEN {tip} ELSE Drained(tip) :
             /\ unwritten' = Path(chain, d)
             /\ chain' = IF back THEN Target(noted, tip) ELSE d
             /\ pending' = IF back THEN {}
                           ELSE {b \in W : Height(b) > Height(tip) + 1 /\ Height(b) > Height(d)}
       /\ ring' = IF back THEN Reorged(noted, tip) ELSE noted
       /\ UNCHANGED <<network, up, frontier, indexing, disk, stops, limits>>

\* A gossiped block or a certificate lets the braid settle; the ring's count of
\* mismatches stays.
Drain ==
    /\ up /\ unwritten = <<>>
    /\ \E d \in Drained(chain) \ {chain} :
          /\ chain' = d /\ unwritten' = Path(chain, d)
          /\ pending' = {b \in pending : Height(b) > Height(d)}
    /\ UNCHANGED <<network, answers, up, frontier, ring, indexing, disk, stops, limits>>

\* The log follows the chain, record by record.
Write ==
    /\ up /\ unwritten # <<>>
    /\ log' = Append(log, Rec(Head(unwritten)))
    /\ idx' = IF indexing THEN Indexed(idx, log, Head(unwritten)) ELSE idx
    /\ unwritten' = Tail(unwritten)
    /\ UNCHANGED <<network, answers, up, chain, frontier, pending, ring, indexing, snap, stops,
                   limits>>

Heartbeat ==
    /\ up /\ unwritten = <<>>
    /\ ring' = maybe_capture(ring, chain) /\ ring' # ring
    /\ UNCHANGED <<network, answers, up, chain, frontier, pending, unwritten, indexing, disk,
                   stops, limits>>

-----------------------------------------------------------------------------
(* Stops and boots.                                                          *)

Halt ==
    /\ up /\ stops < limits.stops
    /\ up' = FALSE /\ stops' = stops + 1
    /\ chain' = NoBlock /\ frontier' = 1 /\ pending' = {} /\ unwritten' = <<>>
    /\ ring' = EmptyRing /\ indexing' = TRUE
    /\ answers' = EmptyBag
    /\ UNCHANGED <<network, limits>>

\* SIGTERM of a follower: the snapshot of the tip, synced and renamed into place.
Shutdown ==
    /\ unwritten = <<>> /\ snap' = chain
    /\ Halt
    /\ UNCHANGED <<log, idx>>

\* The process dies: between two writes, in the middle of a record, or behind a
\* record whose index entry is not written yet.
Crash ==
    /\ \/ log' = log
       \/ unwritten # <<>> /\ log' = Append(log, Rec(Head(unwritten)))
       \/ unwritten # <<>> /\ \E k \in Tears : log' = Append(log, Torn(k))
    /\ Halt
    /\ UNCHANGED <<idx, snap>>

\* The machine dies, and the end of the log was not on disk yet; nor, whatever
\* became of the log, were the last entries of the index.
PowerLoss ==
    /\ \E n \in 1 .. Len(log) :
          \/ log' = SubSeq(log, 1, n)
          \/ n < Len(log) /\ \E k \in Tears : log' = Append(SubSeq(log, 1, n), Torn(k))
    /\ \/ idx' = idx
       \/ "index" \in Damages /\ \E n \in 0 .. Len(idx) - 1 : idx' = SubSeq(idx, 1, n)
    /\ Halt
    /\ UNCHANGED snap

Boot ==
    /\ ~up
    /\ up' = TRUE
    /\ chain' = BootedChain(log, idx, snap) /\ frontier' = Len(chain')
    /\ idx' = BootedIdx(log, idx, snap)
    /\ indexing' = IndexReached(log, idx, snap)
    /\ UNCHANGED <<network, answers, pending, unwritten, ring, log, snap, stops, limits>>

-----------------------------------------------------------------------------
Arrive == \E a \in BagToSet(answers) : Deliver(a)
Next ==
    \/ Mint \/ Rewind \/ Forget \/ AskAhead \/ AskNext \/ Arrive \/ Drain \/ Write
    \/ Heartbeat \/ Shutdown \/ Crash \/ PowerLoss \/ Boot

Follow == AskAhead \/ AskNext \/ Arrive \/ Write \/ Boot

\* The producer mints, and the follower's loop turns with peers that answer.
\* Nothing has to stop, no heartbeat has to come at a given time, the braid need
\* not settle anything, and no one answer has to arrive before others asked for
\* later.
Fairness == WF_vars(Mint) /\ WF_vars(Follow)

Spec == Init /\ [][Next]_vars /\ Fairness

-----------------------------------------------------------------------------
(* Type, and what must hold.                                                 *)

ChainOf == UNION {[1 .. n -> 0 .. limits.rewinds] : n \in 1 .. limits.height + 1}
Items == {Rec(b) : b \in ChainOf} \union {Torn(k) : k \in Tears}

\* Every part of the follower holds what its type says.
TypeOK ==
    /\ limits \in Limits /\ canon \in ChainOf /\ era \in 0 .. limits.rewinds
    /\ abandoned \subseteq ChainOf
    /\ \A a \in BagToSet(answers) : a.chain \in ChainOf /\ a.from \in 1 .. Height(a.chain)
    /\ frontier \in 1 .. limits.height + Chunk /\ indexing \in BOOLEAN
    /\ up \in BOOLEAN /\ (IF up THEN chain \in ChainOf ELSE chain = NoBlock)
    /\ pending \subseteq ChainOf
    /\ \A b, c \in pending : Height(b) = Height(c) => b = c
    /\ \A b \in pending : Height(b) > Height(chain)
    /\ \A k \in DOMAIN unwritten : unwritten[k] \in ChainOf
    /\ \A k \in DOMAIN ring.ckpts : ring.ckpts[k] \in ChainOf
    /\ \A p \in DOMAIN log : log[p] \in Items
    /\ snap \in ChainOf \union {NoBlock}

\* The snapshot is on the branch of the last record and above every record of
\* an abandoned branch: the state the module doc of follower_reorg.rs asks for.
SnapshotPast(own) ==
    /\ Intact(log) /\ snap # NoBlock /\ IsPrefix(snap, own)
    /\ \A b \in RecordsOf(log) : IsPrefix(b, own) \/ Height(b) < Height(snap)

\* The reader finds what such a boot needs: looking the snapshot's block up by
\* height does not run into the limit of get_by_height on the abandoned branch,
\* and no record above it is before the place the index leads to.
IndexServes ==
    /\ get_by_height(log, idx, Height(snap)) = snap
    /\ \A p \in 1 .. idx_seek_offset(idx, log, Height(snap) + 1) - 1 :
          Height(log[p].block) <= Height(snap)

OneBranch(own) == \A b \in RecordsOf(log) : IsPrefix(b, own)

\* A boot resumes at the last record before the first torn one, whichever way it
\* takes (snapshot and tail, index or no index, full replay), while the log holds
\* one branch; with a rolled back branch in it, if a snapshot is past that branch
\* and the index serves it.
BootResumes ==
    [][ LET own == Last(replay(log)).block
        IN (~up /\ up' /\ (OneBranch(own) \/ (SnapshotPast(own) /\ IndexServes)))
              => chain' = own ]_vars

\* The block the log's own account says the chain got to, torn or not.
AppendedBlocksSurviveRestart ==
    [][ LET own == Last(SelectSeq(log, IsRec)).block
        IN (~up /\ up' /\ OneBranch(own)) => chain' = own ]_vars

\* Every block of a running node's chain that is not on its way to the log is in
\* the log: state never comes from blocks the node cannot serve or replay.
HistoryOnDisk ==
    up => \A h \in 0 .. Height(chain) :
              UpTo(chain, h) \in RecordsOf(log) \union ToSet(unwritten)

\* Checkpoints are ancestors of the tip, oldest first, no more than the cap: no
\* rollback leads to a branch the node has left.
RingOnChain ==
    /\ Len(ring.ckpts) <= RingCap
    /\ \A k \in DOMAIN ring.ckpts :
          /\ IsPrefix(ring.ckpts[k], chain)
          /\ \A l \in 1 .. k - 1 : Height(ring.ckpts[l]) <= Height(ring.ckpts[k])

OnCanon == IsPrefix(chain, canon)

\* A checkpoint of the producer's chain a rollback may still reach, and that no
\* capture of the tip is about to push out.
CanRecover ==
    \/ OnCanon
    \/ /\ maybe_capture(ring, chain) = ring
       /\ \E k \in Eligible(ring, chain) : IsPrefix(ring.ckpts[k], canon)

\* No block of an abandoned branch is on its way, waits, or can be settled.
NothingStale ==
    /\ \A b \in abandoned : IsPrefix(b, canon)
    /\ \A a \in BagToSet(answers) : IsPrefix(a.chain, canon)
    /\ \A b \in pending : IsPrefix(b, canon)

\* After the producer's last rewind, a follower on its chain, or left on an
\* abandoned branch with a checkpoint below the fork, gets to the producer's tip
\* once nothing stale is left, unless it is stopped.
FollowerRecovers ==
    (up /\ era = limits.rewinds /\ CanRecover /\ NothingStale)
        ~> (~up \/ (chain = canon /\ Height(chain) = limits.height))

-----------------------------------------------------------------------------
(* Not kept: what the docs of the ring and the log say and TLC finds false,   *)
(* the first two of LateAnswers, the third, with IdxEvery = 1, of Reboots.    *)

\* A follower on the producer's chain is not rolled back: mismatches of late
\* answers are single ones, a handful in a row is a fork.
NoRollbackOffCanon == [][ (up /\ up' /\ OnCanon) => IsPrefix(chain, chain') ]_vars

\* The mismatches counted are in a row: a step that applies a block cleanly leaves
\* at most the one it ended on.
HitsInARow ==
    [][ (up /\ up' /\ chain' # chain /\ IsPrefix(chain, chain')) => ring'.hits <= 1 ]_vars

\* A snapshot past the reorg point is enough: no boot replays the rolled back
\* branch any more, whatever the index says.
SnapshotClosesWindow ==
    [][ LET own == Last(replay(log)).block
        IN (~up /\ up' /\ SnapshotPast(own)) => chain' = own ]_vars

=============================================================================
