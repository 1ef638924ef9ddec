------------------------------- MODULE ChainLog -------------------------------
(***************************************************************************)
(* What a node keeps on disk and how it boots from it: the append-only      *)
(* chain.log and its sparse index (sigil-node chain_log.rs), the state      *)
(* snapshot (snapshot.rs) and the order the boot trusts them in (lib.rs).   *)
(*                                                                          *)
(* A block hash commits to the parent's, so a block is the sequence of      *)
(* choices that led to it: its parent is its Front, its height its length   *)
(* less one, and a chain is its tip.  The state follows from the blocks,    *)
(* so a chain tip, a checkpoint and a snapshot are that block too.          *)
(*                                                                          *)
(* The log is a sequence of items: a record, a record whose payload is cut  *)
(* short ("cut"), or less than the four bytes of a length ("headless").     *)
(* Readers stop at a torn item: nothing after one is framed any more, and   *)
(* misframed bytes are taken not to decode.                                 *)
(***************************************************************************)
EXTENDS Integers, Sequences, SequencesExt, FiniteSets

CONSTANT IdxEvery      \* IDX_EVERY: records per entry of chain.idx

ASSUME IdxEveryAssumption == IdxEvery \in Nat \ {0}

NoBlock == <<>>        \* None, and the tip of a chain without blocks
NoHeight == -1         \* None, where a height is expected
Unusable == 0          \* idx_seek_offset's None; positions start at 1

Height(b) == Len(b) - 1
Parent(b) == Front(b)
UpTo(c, h) == SubSeq(c, 1, h + 1)

Rec(b) == [kind |-> "rec", block |-> b]
Torn(k) == [kind |-> k, block |-> NoBlock]
IsRec(i) == i.kind = "rec"
Intact(log) == \A p \in DOMAIN log : IsRec(log[p])
RecordsOf(log) == {log[p].block : p \in {q \in DOMAIN log : IsRec(log[q])}}

\* The records a reader gets to: all those before the first torn item.
Readable(log) ==
    LET t == SelectInSeq(log, LAMBDA i : ~IsRec(i))
    IN IF t = 0 THEN log ELSE SubSeq(log, 1, t - 1)
Torn1(log) == Len(Readable(log)) + 1   \* where the first torn item is

\* open: seek_relative does not fail past the end of the file, so a cut record
\* counts; the remains of a length do not, unless something follows them.
height(log) ==
    IF \/ Intact(log)
       \/ log[Torn1(log)].kind = "headless" /\ Torn1(log) = Len(log)
    THEN Len(Readable(log)) ELSE Torn1(log)

\* The height of the record at the last offset open found.
tip_real_height(log) ==
    IF height(log) = Len(Readable(log)) THEN Height(Last(Readable(log)).block)
    ELSE NoHeight

-----------------------------------------------------------------------------
(* The index: one entry per IdxEvery records, the record's height and where  *)
(* it starts.                                                               *)

\* append_bytes, over a torn tail: the offset it keeps count of is wrong.
Indexed(idx, log, b) ==
    IF Len(log) % IdxEvery # 0 THEN idx
    ELSE Append(idx, [height |-> Height(b),
                      pos    |-> IF Intact(log) THEN Len(log) + 1 ELSE Unusable])

\* full_scan_rebuild's index.
Rebuilt(log) ==
    LET R == Readable(log)
    IN [k \in 1 .. (Len(R) + IdxEvery - 1) \div IdxEvery |->
          [height |-> Height(R[(k - 1) * IdxEvery + 1].block),
           pos    |-> (k - 1) * IdxEvery + 1]]

\* The largest height at or below `from`, the later entry of equals, if the
\* record there has that height.
idx_seek_offset(idx, log, from) ==
    LET low  == {k \in DOMAIN idx : idx[k].height <= from}
        best == idx[CHOOSE k \in low : \A l \in low :
                       \/ idx[l].height < idx[k].height
                       \/ idx[l].height = idx[k].height /\ l <= k]
    IN IF low = {} THEN 1
       ELSE IF /\ best.pos \in DOMAIN Readable(log)
               /\ Height(log[best.pos].block) = best.height
            THEN best.pos ELSE Unusable

\* get_by_height: from the index, at most MAX_SCAN records, up to the first one
\* that is not below the height.
get_by_height(log, idx, h) ==
    LET seek  == idx_seek_offset(idx, log, h)
        start == IF seek = Unusable THEN 1 ELSE seek
        R     == Readable(log)
        read  == {p \in start .. Len(R) :
                     p < start + 4 * IdxEvery /\ Height(R[p].block) >= h}
        first == CHOOSE p \in read : \A q \in read : p <= q
    IN IF read # {} /\ Height(R[first].block) = h THEN R[first].block ELSE NoBlock

\* replay_from, before it leaves out what is below `from`.
replay_from(log, idx, from) ==
    LET seek  == idx_seek_offset(idx, log, from)
        start == IF seek = Unusable THEN 1 ELSE seek
    IN SubSeq(Readable(log), start, Len(Readable(log)))

replay(log) == Readable(log)

-----------------------------------------------------------------------------
(* Boot.                                                                     *)

\* The tip after each record: ChainTip::apply on every block from a height on;
\* what does not fit is passed over.
Tips(chain, records, from) ==
    LET tip[n \in 0 .. Len(records)] ==
            IF n = 0 THEN chain
            ELSE LET c == tip[n - 1]
                     b == records[n].block
                 IN IF Height(b) >= from /\ Parent(b) = c THEN b ELSE c
    IN tip

ApplyAll(chain, records, from) == Tips(chain, records, from)[Len(records)]

Restored(log, idx, snap) ==
    ApplyAll(snap, replay_from(log, idx, Height(snap) + 1), Height(snap) + 1)

\* Mutated form: the log need not hold the snapshot's block.
SnapshotBoots_Unmatched(log, idx, snap) ==
    snap # NoBlock /\ (\/ tip_real_height(log) < Height(snap)
                      \/ Height(Restored(log, idx, snap)) = tip_real_height(log))

\* Mutated form: a snapshot of the last record itself is not taken.
SnapshotBoots_BelowTip(log, idx, snap) ==
    /\ snap # NoBlock /\ Height(snap) < tip_real_height(log)
    /\ get_by_height(log, idx, Height(snap)) = snap
    /\ Height(Restored(log, idx, snap)) = tip_real_height(log)

\* The snapshot is on the log's chain, and its tail reaches the last record.
SnapshotBoots(log, idx, snap) ==
    /\ snap # NoBlock /\ Height(snap) < height(log)
    /\ get_by_height(log, idx, Height(snap)) = snap
    /\ Height(Restored(log, idx, snap)) = tip_real_height(log)

BootedChain(log, idx, snap) ==
    IF SnapshotBoots(log, idx, snap) THEN Restored(log, idx, snap)
    ELSE ApplyAll(NoBlock, replay(log), 0)

\* replay_from writes the index anew when it could not use it.
RebuildsIndex(log, idx, snap) ==
    /\ snap # NoBlock /\ Height(snap) < height(log)
    /\ get_by_height(log, idx, Height(snap)) = snap
    /\ idx_seek_offset(idx, log, Height(snap) + 1) = Unusable

BootedIdx(log, idx, snap) ==
    IF RebuildsIndex(log, idx, snap) THEN Rebuilt(log) ELSE idx

\* The writer was opened before: after a rebuild its entries go to the file that
\* was renamed over.
IndexReached(log, idx, snap) == ~RebuildsIndex(log, idx, snap)

=============================================================================
