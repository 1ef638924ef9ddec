----------------------------- MODULE ShieldedPool -----------------------------
(***************************************************************************)
(* The shielded pool of crates/sigil-state/src/shielded.rs: two generations *)
(* of note trees, their sealed epochs, the window of roots a spend may prove *)
(* against and the set of spent nullifiers.                                 *)
(*                                                                          *)
(* A pool is a record and every mutator of `impl ShieldedPool` an operator  *)
(* from a pool to a pool.  A root is the pair of a generation and the notes *)
(* of the tree it commits to; a nullifier is what the circuit derives it    *)
(* from, the owner's key and the position in the tree.  Delivery envelopes  *)
(* are left out but for whether a note has one; so are the key registries   *)
(* and the caches that only save a hash.                                    *)
(***************************************************************************)
EXTENDS Integers, FiniteSets, Sequences, SequencesExt

CONSTANTS
    Commitment,   \* note commitments that may ever be offered
    Shape,        \* Commitment -> generation whose format it has (is_v1_shaped)
    Owner,        \* Commitment -> the spend key that opens it
    Value,        \* Commitment -> the amount it hides
    Tagged,       \* the commitments sent with a view-tagged envelope
    Capacity,     \* POOL_CAPACITY (32768 in the code)
    AnchorWindow  \* ANCHOR_WINDOW (256 in the code)

Generation == {"V1", "V7"}
NoEpoch == -1      \* Option::None where the code holds an optional epoch

\* A commitment is 32 bytes long.
ASSUME PoolAssumption ==
    /\ IsFiniteSet(Commitment)
    /\ Shape \in [Commitment -> Generation]
    /\ Value \in [Commitment -> Nat] /\ Tagged \subseteq Commitment
    /\ Capacity \in Nat \ {0} /\ AnchorWindow \in Nat \ {0}

\* The v7 live epoch before it is opened: real ones are numbered from 1.
Unopened == [epoch |-> 0, notes |-> <<>>, value_locked |-> 0]

EmptyPool ==
    [notes |-> <<>>, value_locked |-> 0, epoch |-> 0, v1_closed |-> FALSE,
     v7 |-> Unopened, archive |-> <<>>, nullifiers |-> {},
     anchors |-> <<>>, anchor_epoch |-> <<>>, anchors_dirty |-> FALSE,
     indexed |-> FALSE, seen |-> {}]

v7_active(p) == p.v7.epoch > 0

RootV1(p) == <<"V1", p.notes>>
RootV7(p) == <<"V7", p.v7.notes>>
SealedRoot(a) == <<a.generation, a.notes>>

\* Every commitment the pool holds, in any epoch of either generation.
Held(p) ==
    ToSet(p.notes) \union ToSet(p.v7.notes)
    \union UNION {ToSet(a.notes) : a \in ToSet(p.archive)}

-----------------------------------------------------------------------------
(* Roots and nullifiers.                                                    *)

\* Mutated form: a sealed root has no epoch of its own once it leaves the window.
epoch_of_anchor_WindowOnly(p, r) ==
    IF r \in DOMAIN p.anchor_epoch /\ r \in ToSet(p.anchors) THEN p.anchor_epoch[r] ELSE NoEpoch

\* The epoch whose tree has this root: as recorded, or the place of the sealed
\* root, or epoch 0 for a windowed root nobody recorded.
epoch_of_anchor(p, r) ==
    LET sealed == {i \in DOMAIN p.archive : SealedRoot(p.archive[i]) = r}
    IN CASE r \in DOMAIN p.anchor_epoch -> p.anchor_epoch[r]
         [] r \notin DOMAIN p.anchor_epoch /\ sealed # {} ->
              (CHOOSE i \in sealed : \A j \in sealed : i <= j) - 1
         [] OTHER -> IF r \in ToSet(p.anchors) THEN 0 ELSE NoEpoch

\* The generation of a known root, "none" for an epoch that is neither live nor
\* sealed.
generation_of_anchor(p, r) ==
    LET e == epoch_of_anchor(p, r)
    IN CASE v7_active(p) /\ e = p.v7.epoch -> "V7"
         [] ~(v7_active(p) /\ e = p.v7.epoch) /\ e = p.epoch /\ ~p.v1_closed -> "V1"
         [] OTHER -> IF e + 1 \in DOMAIN p.archive THEN p.archive[e + 1].generation
                                                   ELSE "none"

\* The tag the circuit reveals for the note at its place in the tree of root r.
NullifierAt(r, cm) ==
    [generation |-> r[1], key |-> Owner[cm],
     position |-> CHOOSE i \in DOMAIN r[2] : r[2][i] = cm]

scoped_nullifier(e, nf) == <<e, nf>>

is_spent_in_epoch(p, e, nf) == scoped_nullifier(e, nf) \in p.nullifiers

\* The epoch-0 question of the older callers.
is_spent(p, nf) == is_spent_in_epoch(p, 0, nf)

has_ever_held(p, cm) == IF p.indexed THEN cm \in p.seen ELSE cm \in Held(p)

ensure_commitment_index(p) ==
    IF p.indexed THEN p ELSE [p EXCEPT !.indexed = TRUE, !.seen = Held(p)]

Remap(p, r, e) ==
    [x \in DOMAIN p.anchor_epoch \union {r} |-> IF x = r THEN e ELSE p.anchor_epoch[x]]

\* Add a root to the window; the oldest leaves it, with its epoch unless sealed.
push_anchor_for(p, r, e) ==
    LET full    == Len(p.anchors) >= AnchorWindow
        evicted == Head(p.anchors)
        sealed  == \E a \in ToSet(p.archive) : SealedRoot(a) = evicted
        known   == Remap(p, r, e)
    IN IF r \in ToSet(p.anchors) THEN p
       ELSE [p EXCEPT
               !.anchors = Append(IF full THEN Tail(@) ELSE @, r),
               !.anchor_epoch =
                   IF full /\ ~sealed
                   THEN [x \in DOMAIN known \ {evicted} |-> known[x]] ELSE known]

\* Publish the roots of the live trees.
refresh_anchor(p) ==
    LET one == IF p.v1_closed THEN p ELSE push_anchor_for(p, RootV1(p), p.epoch)
        two == IF v7_active(p) THEN push_anchor_for(one, RootV7(p), p.v7.epoch) ELSE one
    IN [two EXCEPT !.anchors_dirty = FALSE]

-----------------------------------------------------------------------------
(* Epochs.                                                                  *)

Seal(p, notes, g, e) ==
    ensure_commitment_index(
        [p EXCEPT !.archive = Append(@, [notes |-> notes, generation |-> g]),
                  !.anchor_epoch = Remap(p, <<g, notes>>, e),
                  !.anchors_dirty = TRUE])

\* Seal the live v1 epoch.  Once v7 is open, v1 opens no other: it closes.
rotate_epoch(p) ==
    LET sealed == [Seal(p, p.notes, "V1", p.epoch) EXCEPT !.notes = <<>>]
    IN IF v7_active(p) THEN [sealed EXCEPT !.v1_closed = TRUE]
                       ELSE [sealed EXCEPT !.epoch = @ + 1]

\* The sealed v7 epoch joins the archive; the next takes the place after it.
SealV7(p) ==
    [Seal(p, p.v7.notes, "V7", p.v7.epoch)
        EXCEPT !.v7.epoch = Len(p.archive) + 1, !.v7.notes = <<>>]

\* Mutated form: v1 is not closed before the v7 epoch seals.
rotate_v7_LeavesV1(p) == SealV7(p)

\* Seal the live v7 epoch, closing v1 first if it still takes notes.
rotate_v7(p) == SealV7(IF p.v1_closed THEN p ELSE rotate_epoch(p))

activate_v7(p) ==
    IF v7_active(p) THEN p
    ELSE [p EXCEPT !.v7.epoch = p.epoch + 1, !.anchors_dirty = TRUE]

\* v7 as the only generation: v1 is sealed empty and closed at once.
activate_v7_only(p) ==
    IF v7_active(p) THEN p ELSE rotate_epoch([p EXCEPT !.v7.epoch = p.epoch + 1])

-----------------------------------------------------------------------------
(* Notes and value.  A fallible mutator returns what it left behind and      *)
(* whether it succeeded.                                                    *)

Outcome(ok, p) == [ok |-> ok, pool |-> p]

\* Where a deposit goes: by shape once v7 is open, and then only into v7.
DepositGeneration(p, cm) ==
    IF ~v7_active(p) THEN "V1" ELSE IF Shape[cm] = "V1" THEN "refused" ELSE "V7"

Appended(p, g, cm) ==
    [p EXCEPT !.notes = IF g = "V1" THEN Append(@, cm) ELSE @,
              !.v7.notes = IF g = "V7" THEN Append(@, cm) ELSE @,
              !.seen = IF p.indexed THEN @ \union {cm} ELSE @]

\* A closed, unopened or wrongly shaped generation takes no note; on g3 one
\* without a tagged envelope is refused too.
Misfit(p, g, cm, g3) ==
    \/ g = "V1" /\ p.v1_closed
    \/ g = "V7" /\ (~v7_active(p) \/ Shape[cm] = "V1" \/ (g3 /\ cm \notin Tagged))

\* A tree at its limit is rotated before it takes a note.
RotatedAt(p, g, limit) ==
    CASE g = "V1" /\ Len(p.notes) >= limit -> rotate_epoch(p)
      [] g = "V7" /\ Len(p.v7.notes) >= limit -> rotate_v7(p)
      [] OTHER -> p

\* A commitment ever held is refused, in the pool as the rotation left it.
AppendFresh(p, g, cm) ==
    IF (g = "V1" /\ p.v1_closed) \/ has_ever_held(p, cm) THEN Outcome(FALSE, p)
    ELSE Outcome(TRUE, Appended(p, g, cm))

\* Mutated form: a full tree takes one note more.
append_note_in_OneTooMany(p, g, cm, g3) ==
    IF Misfit(p, g, cm, g3) THEN Outcome(FALSE, p)
    ELSE AppendFresh(RotatedAt(p, g, Capacity + 1), g, cm)

\* Append to the live tree of g, rotating it first when it is full.
append_note_in(p, g, cm, g3) ==
    IF Misfit(p, g, cm, g3) THEN Outcome(FALSE, p)
    ELSE AppendFresh(RotatedAt(p, g, Capacity), g, cm)

value_locked_in(p, g) == IF g = "V1" THEN p.value_locked ELSE p.v7.value_locked
value_locked(p) == p.value_locked + p.v7.value_locked

AddLocked(p, g, v) ==
    [p EXCEPT !.value_locked = IF g = "V1" THEN @ + v ELSE @,
              !.v7.value_locked = IF g = "V7" THEN @ + v ELSE @]
lock_value_in(p, g, v) == AddLocked(p, g, v)
unlock_value_in(p, g, v) ==
    IF v > value_locked_in(p, g) THEN Outcome(FALSE, p) ELSE Outcome(TRUE, AddLocked(p, g, -v))

spend_nullifier_in_epoch(p, e, nf) ==
    [p EXCEPT !.nullifiers = @ \union {scoped_nullifier(e, nf)}]

\* What the header commits to: the numbers and trees, not the anchor window, the
\* lookup index or the envelopes.
pool_root(p) ==
    <<p.epoch, p.v1_closed, p.notes, p.nullifiers, p.value_locked, p.archive, p.v7>>

\* Mutated form: the snapshot says the index is there, but does not hold it.
Reloaded_IndexLost(p) == [p EXCEPT !.seen = {}, !.anchors_dirty = FALSE]

\* A pool read back from a state snapshot: the skipped fields are defaults.
Reloaded(p) == [p EXCEPT !.indexed = FALSE, !.seen = {}, !.anchors_dirty = FALSE]
=============================================================================
