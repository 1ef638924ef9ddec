-------------------------------- MODULE Ledger --------------------------------
(***************************************************************************)
(* How a block changes the ledger: sigil-tx's apply_tx, the commit          *)
(* chokepoint of sigil-state, the body the producer builds on a copy of the *)
(* state (sigil-node coinbase.rs) and the follower's application of it      *)
(* (chain.rs), which every producer runs on its own block too.              *)
(*                                                                          *)
(* The producer commits transaction by transaction, the follower mutation   *)
(* by mutation inside one commit; neither rolls a refused commit back.      *)
(* Only native coin is modelled.  Proof verification is the circuit's: it   *)
(* accepts what an honest wallet proves.                                    *)
(***************************************************************************)
EXTENDS ShieldedPool

CONSTANTS
    Wallet,            \* transparent wallets, the three below among them
    GenesisMaster,     \* dev-fee wallets a genesis block may set, or NoMaster
    Commons, Winner, Sharer,  \* tithe wallet, solver of every block, co-miner
    Premine,           \* Wallet -> genesis balance
    Rotation,          \* MASTER_WALLET_ROTATIONS: height -> new master
    Reward, SharerCut, \* block_reward, and the sharer's part of it
    DevFee, Tithe,     \* master_share and commons_share of one cut
    MaxSupply,         \* MAX_SUPPLY
    Fee,               \* SHIELDED_FEE
    Denomination,      \* DENOMINATIONS
    Networks,          \* builds: "g2" v1 only, "r1" dual, "g3" v7 only
    ActivationHeight,  \* V7_POOL_ACTIVATION_HEIGHT of r1
    Payments,          \* network -> what its wallets may send
    MaxHeight,         \* bound: blocks applied
    MaxOffers          \* bound: transactions offered to a body

VARIABLES
    net,     \* the build; fixed
    height,  \* ChainTip::height
    state,   \* the settled SigilState
    phase,   \* "idle", "building" or "applying"
    work,    \* the producer's copy of the state
    body,    \* the transition: all of it, then what is left to apply
    next,    \* the follower's copy of the state
    room     \* offers left

vars == <<net, height, state, phase, work, body, next, room>>

NoAnchor == <<"none", <<>>>>
NoMaster == "no master"

Sum(f) == MapThenSumSet(LAMBDA w : f[w], DOMAIN f)
Worth(S) == MapThenSumSet(LAMBDA cm : Value[cm], S)

\* Wallets are 32 bytes long; genesis passes the cap like any block; what an
\* honest wallet deposits is what its note hides.
ASSUME LedgerAssumption ==
    /\ IsFiniteSet(Wallet) /\ Sum(Premine) <= MaxSupply
    /\ {Commons, Winner, Sharer} \subseteq Wallet /\ NoMaster \notin Wallet
    /\ GenesisMaster \subseteq Wallet \union {NoMaster}
    /\ Premine \in [Wallet -> Nat]
    /\ \A h \in DOMAIN Rotation : h \in Nat /\ Rotation[h] \in Wallet
    /\ {Reward, SharerCut, DevFee, Tithe, MaxSupply, Fee} \subseteq Nat
    /\ SharerCut <= Reward /\ Denomination \subseteq Nat
    /\ Networks \subseteq {"g2", "r1", "g3"} /\ ActivationHeight \in Nat
    /\ MaxHeight \in Nat /\ MaxOffers \in Nat
    /\ \A b \in Networks : \A t \in Payments[b] :
          /\ t.op \in {"Shield", "ShieldedSend", "Unshield"} /\ t.outs \in Seq(Commitment)
          /\ Len(t.outs) = IF t.op = "Shield" THEN 1 ELSE 2
          /\ t.ins \in Seq(Commitment) /\ t.amount \in Nat /\ t.wallet \in Wallet
          /\ t.op = "Shield" => Value[t.outs[1]] = t.amount

\* minted and burned are history: no code reads them.
Genesis(master) ==
    [bal |-> Premine, native_supply |-> Sum(Premine), master |-> master,
     pool |-> EmptyPool, events |-> <<>>, minted |-> Sum(Premine), burned |-> 0]

Result(ok, s) == [ok |-> ok, state |-> s]
InPool(s, p) == [s EXCEPT !.pool = p]
Dirty(p) == [p EXCEPT !.anchors_dirty = TRUE]

set_balance(s, w, v) ==
    [s EXCEPT !.bal[w] = v, !.native_supply = @ + v - s.bal[w]]
credit(s, w, v) == set_balance(s, w, s.bal[w] + v)

v7_pool_active(h) == net = "g3" \/ (net = "r1" /\ h >= ActivationHeight)

\* What the header commits to: not the master wallet, nor the native supply.
roots(s) == <<s.bal, s.events, pool_root(s.pool)>>

-----------------------------------------------------------------------------
(* The commit chokepoint: what precedes the mutations, each of them, and     *)
(* what follows.                                                            *)

\* The v7 generation opens before the first mutation of its height.
OpenGeneration(s, h) ==
    IF v7_pool_active(h) /\ ~v7_active(s.pool)
    THEN InPool(s, IF net = "g3" THEN activate_v7_only(s.pool) ELSE activate_v7(s.pool))
    ELSE s

\* The value follows the note into the pool.
Deposited(s, pay, g, added) ==
    IF ~added.ok THEN Result(FALSE, InPool(s, added.pool))
    ELSE Result(TRUE, set_balance(InPool(s, Dirty(lock_value_in(added.pool, g, pay.amount))),
                                  pay.wallet, s.bal[pay.wallet] - pay.amount))

\* Into the pool: the note is appended before any value moves.
Shield(s, m) ==
    LET cm == m.pay.outs[1]
        g  == DepositGeneration(s.pool, cm)
    IN IF \/ m.pay.amount \notin Denomination
          \/ s.bal[m.pay.wallet] < m.pay.amount
          \/ g = "refused"
       THEN Result(FALSE, s)
       ELSE Deposited(s, m.pay, g, append_note_in(s.pool, g, cm, net = "g3"))

Nullifiers(m) == {NullifierAt(m.anchor, cm) : cm \in ToSet(m.pay.ins)}

\* verify_spend_against_anchor: the inputs are in the proven tree, and what they
\* are worth is what the outputs and the public amount are worth.
Proves(m, g) ==
    /\ g = m.anchor[1] /\ ToSet(m.pay.ins) \subseteq ToSet(m.anchor[2])
    /\ Worth(ToSet(m.pay.ins)) = m.pay.amount + Worth(ToSet(m.pay.outs))

\* Mutated form: only the first input's tag is recorded.
Burn_FirstOnly(p, e, m) ==
    spend_nullifier_in_epoch(p, e, NullifierAt(m.anchor, m.pay.ins[1]))

Burn(p, e, m) ==
    [p EXCEPT !.nullifiers = @ \union {scoped_nullifier(e, nf) : nf \in Nullifiers(m)}]

AppendNext(first, g, cm) ==
    IF ~first.ok THEN first ELSE append_note_in(first.pool, g, cm, net = "g3")

\* Both outputs of the circuit go to the tree of the spent generation.
AppendOuts(p, g, outs) ==
    AppendNext(append_note_in(p, g, outs[1], net = "g3"), g, outs[2])

\* The chokepoint's refusals of a spend, before it changes anything.
Spendable(s, m) ==
    LET e == epoch_of_anchor(s.pool, m.anchor)
        g == generation_of_anchor(s.pool, m.anchor)
    IN /\ e # NoEpoch /\ g # "none"
       /\ Cardinality(Nullifiers(m)) = Len(m.pay.ins)
       /\ \A nf \in Nullifiers(m) : ~is_spent_in_epoch(s.pool, e, nf)
       /\ Proves(m, g)

PayFee(s) ==
    IF s.master = NoMaster THEN [s EXCEPT !.burned = @ + Fee] ELSE credit(s, s.master, Fee)

\* The fee leaves the pool last, when the outputs are in.
FeePaid(s, g, outs) ==
    LET paid == unlock_value_in(outs.pool, g, Fee)
    IN IF ~(outs.ok /\ paid.ok) THEN Result(FALSE, InPool(s, outs.pool))
       ELSE Result(TRUE, PayFee(InPool(s, Dirty(paid.pool))))

\* Within the pool: tags first, then the outputs, then the fee to the master.
ShieldedSpend(s, m) ==
    LET e == epoch_of_anchor(s.pool, m.anchor)
        g == generation_of_anchor(s.pool, m.anchor)
    IN IF m.pay.amount # Fee \/ ~Spendable(s, m) THEN Result(FALSE, s)
       ELSE FeePaid(s, g, AppendOuts(Burn(s.pool, e, m), g, m.pay.outs))

\* The wallet is credited when the change is in.
Withdrawn(s, pay, outs) ==
    IF ~outs.ok THEN Result(FALSE, InPool(s, outs.pool))
    ELSE Result(TRUE, credit(InPool(s, Dirty(outs.pool)), pay.wallet, pay.amount))

\* Out of the pool: the value is unlocked before the tag and the change.
Unshield(s, m) ==
    LET e    == epoch_of_anchor(s.pool, m.anchor)
        g    == generation_of_anchor(s.pool, m.anchor)
        paid == unlock_value_in(s.pool, g, m.pay.amount)
    IN IF m.pay.amount \notin Denomination \/ ~Spendable(s, m) \/ ~paid.ok THEN Result(FALSE, s)
       ELSE Withdrawn(s, m.pay, AppendOuts(Burn(paid.pool, e, m), g, m.pay.outs))

\* A rotation is valid at its height of the schedule and nowhere else.
RotateMasterWallet(s, m, h) ==
    IF h \in DOMAIN Rotation /\ Rotation[h] = m.wallet
    THEN Result(TRUE, [s EXCEPT !.master = m.wallet]) ELSE Result(FALSE, s)

\* The absolute balance writes of a coinbase.
SetBalances(s, m) ==
    Result(TRUE, [s EXCEPT !.native_supply = @ + Sum(m.bal) - Sum(s.bal), !.bal = m.bal,
                           !.minted = @ + m.minted])

\* A spend carries the event apply_tx pairs it with.
WithEvent(r, m) ==
    IF r.ok THEN Result(TRUE, [r.state EXCEPT !.events = Append(@, m)]) ELSE r

Mutate(s, m, h) ==
    CASE m.op = "SetBalance" -> SetBalances(s, m)
      [] m.op = "RotateMasterWallet" -> RotateMasterWallet(s, m, h)
      [] m.op = "Shield" -> Shield(s, m)
      [] m.op = "Unshield" -> Unshield(s, m)
      [] m.op = "ShieldedSend" -> WithEvent(ShieldedSpend(s, m), m)

total_issued(s) == s.native_supply + value_locked(s.pool)

\* Mutated form: shielded value is not counted as issued.
WithinCap_NativeOnly(s) == s.native_supply <= MaxSupply

WithinCap(s) == total_issued(s) <= MaxSupply

\* After the last mutation: publish the roots of a pool that changed.
Publish(s) == IF s.pool.anchors_dirty THEN InPool(s, refresh_anchor(s.pool)) ELSE s
ClearEvents(s) == [s EXCEPT !.events = <<>>]

Closed(r) ==
    IF r.ok /\ WithinCap(r.state) THEN Result(TRUE, ClearEvents(Publish(r.state)))
    ELSE Result(FALSE, r.state)

\* commit_state_transition with one mutation.  A refused one keeps what it did.
Commit(s, m, h) == Closed(Mutate(OpenGeneration(s, h), m, h))

-----------------------------------------------------------------------------
(* The producer.                                                            *)

\* An absolute write, from the balances before the cut.
credit_mutation(bal, base, w, v) == IF v = 0 THEN bal ELSE [bal EXCEPT ![w] = base[w] + v]

\* The writes of one cut in their order; of two for the same wallet the last stays.
CutWrites(bal, to, master, share, fee, cut) ==
    LET paid == credit_mutation(bal, bal, to, cut - share - fee)
    IN credit_mutation(credit_mutation(paid, bal, master, fee), bal, Commons, share)

Grown(a, b) == Sum(b) - Sum(a)

\* One wallet's cut: the protocol's parts come out of it, and a cut that does not
\* fit under the cap is skipped, its writes left in the split's copy.
credit_one(s, to, cut, h) ==
    LET share == IF s.master = NoMaster THEN 0 ELSE Tithe
        fee   == IF s.master \in {NoMaster, to} THEN 0 ELSE DevFee
        step  == CutWrites(s.bal, to, s.master, share, fee, cut)
    IN IF cut < share + fee THEN Result(FALSE, s)
       ELSE Commit(s, [op |-> "SetBalance", bal |-> step, minted |-> Grown(s.bal, step)], h)

\* The writes of the cuts that fit; the second one was computed on `base`.
Coinbase(s, one, base, two) ==
    [op |-> "SetBalance",
     bal |-> IF two.ok THEN two.state.bal ELSE IF one.ok THEN one.state.bal ELSE s.bal,
     minted |-> (IF one.ok THEN Grown(s.bal, one.state.bal) ELSE 0)
                + (IF two.ok THEN Grown(base.bal, two.state.bal) ELSE 0)]

\* Mutated form: both cuts are computed on the balances before the coinbase.
split_coinbase_StaleBase(s, h) ==
    Coinbase(s, credit_one(s, Sharer, SharerCut, h), s,
             credit_one(s, Winner, Reward - SharerCut, h))

\* Cuts are credited one on top of the other, the winner's last.
split_coinbase(s, h) ==
    LET one == credit_one(s, Sharer, SharerCut, h)
    IN Coinbase(s, one, one.state, credit_one(one.state, Winner, Reward - SharerCut, h))

Scheduled(h) ==
    IF h \in DOMAIN Rotation
    THEN <<[op |-> "RotateMasterWallet", wallet |-> Rotation[h]]>> ELSE <<>>

\* A body begins with the scheduled rotation and the coinbase.
Propose ==
    /\ phase = "idle" /\ height < MaxHeight
    /\ LET turned == IF Scheduled(height) = <<>> THEN state
                     ELSE Commit(state, Scheduled(height)[1], height).state
           coins  == split_coinbase(turned, height)
       IN IF coins.minted = 0
          THEN work' = turned /\ body' = Scheduled(height)
          ELSE /\ work' = Commit(turned, coins, height).state
               /\ body' = Append(Scheduled(height), coins)
    /\ phase' = "building" /\ room' = MaxOffers
    /\ UNCHANGED <<net, height, state, next>>

\* Anchors a wallet can know: the window of the settled state and sealed roots.  A
\* root that only the building producer's commits of earlier transactions of the
\* same block published is none of them.
Anchors == ToSet(state.pool.anchors) \union {SealedRoot(a) : a \in ToSet(state.pool.archive)}

\* What the mempool may offer: what a wallet can prove.
Offers ==
    {[op |-> t.op, pay |-> t, anchor |-> r] : t \in Payments[net], r \in Anchors \union {NoAnchor}}

Honest(tx) ==
    IF tx.op = "Shield" THEN tx.anchor = NoAnchor
    ELSE tx.anchor # NoAnchor /\ Proves(tx, tx.anchor[1])

AlreadyLanded(s, tx) == \A cm \in ToSet(tx.pay.outs) : has_ever_held(s.pool, cm)

\* apply_tx's own refusals.
apply_tx(s, tx) ==
    IF tx.op = "Shield" THEN s.bal[tx.pay.wallet] >= tx.pay.amount + Fee
    ELSE \A nf \in Nullifiers(tx) : ~is_spent(s.pool, nf)

\* Offer one transaction to the body: skipped, refused or included.
Include(tx) ==
    /\ phase = "building" /\ room > 0
    /\ ~AlreadyLanded(work, tx)
    /\ apply_tx(work, tx)
    /\ LET r == Commit(work, tx, height)
       IN /\ work' = r.state
          /\ body' = IF r.ok THEN Append(body, tx) ELSE body
    /\ room' = room - 1
    /\ UNCHANGED <<net, height, state, phase, next>>

-----------------------------------------------------------------------------
(* The follower.                                                            *)

Discard ==
    /\ phase' = "idle" /\ body' = <<>> /\ room' = 0
    /\ work' = state /\ next' = state /\ UNCHANGED <<net, height, state>>

Spends(b) == SelectSeq(b, LAMBDA m : m.op = "ShieldedSend")

\* Mutated form: the header's event root is the one the last commit left.
restore_block_event_log_Off(s, b) == s

restore_block_event_log(s, b) == [s EXCEPT !.events = Spends(b)]

\* The body is closed and handed to ChainTip::apply.
Seal_Body ==
    /\ phase = "building"
    /\ IF Scheduled(height) # <<>> /\ (body = <<>> \/ Head(body) # Scheduled(height)[1])
       THEN Discard
       ELSE /\ phase' = "applying" /\ room' = 0
            /\ work' = restore_block_event_log(work, body)
            /\ next' = OpenGeneration(state, height)
            /\ UNCHANGED <<net, height, state, body>>

\* One mutation of the block on the follower's copy.
ApplyMutation ==
    /\ phase = "applying" /\ body # <<>>
    /\ LET r == Mutate(next, Head(body), height)
       IN IF r.ok
          THEN /\ next' = r.state /\ body' = Tail(body)
               /\ UNCHANGED <<net, height, state, phase, work, room>>
          ELSE Discard

\* The copy becomes the state only when cap and roots hold.
Settle ==
    /\ phase = "applying" /\ body = <<>>
    /\ LET done == Publish(next)
       IN IF WithinCap(next) /\ roots(done) = roots(work)
          THEN /\ state' = ClearEvents(done) /\ work' = state' /\ next' = state'
               /\ height' = height + 1 /\ phase' = "idle"
               /\ UNCHANGED <<net, body, room>>
          ELSE Discard

\* The node restarts from a snapshot of its state.
Restart ==
    /\ phase = "idle"
    /\ state' = InPool(state, Reloaded(state.pool)) /\ work' = state' /\ next' = state'
    /\ UNCHANGED <<net, height, phase, body, room>>

Init ==
    /\ net \in Networks /\ height = 0 /\ phase = "idle" /\ body = <<>> /\ room = 0
    /\ \E master \in GenesisMaster : state = Genesis(master)
    /\ work = state /\ next = state

Next ==
    \/ Propose \/ Seal_Body \/ ApplyMutation \/ Settle \/ Restart
    \/ \E tx \in Offers : Honest(tx) /\ Include(tx)

Spec == Init /\ [][Next]_vars

-----------------------------------------------------------------------------
(* Properties.                                                              *)

\* Every tree of the pool, with the number of its epoch.
Trees(p) ==
    {[generation |-> p.archive[i].generation, epoch |-> i - 1, notes |-> p.archive[i].notes]
        : i \in DOMAIN p.archive}
    \union {t \in {[generation |-> "V1", epoch |-> p.epoch, notes |-> p.notes]} : ~p.v1_closed}
    \union {t \in {[generation |-> "V7", epoch |-> p.v7.epoch, notes |-> p.v7.notes]} : v7_active(p)}

TreeRoot(t) == <<t.generation, t.notes>>

\* Every note of the pool with the tag that spends it.
Notes(p) ==
    UNION {{[cm |-> cm, tree |-> t, raw |-> NullifierAt(TreeRoot(t), cm)] : cm \in ToSet(t.notes)}
            : t \in Trees(p)}
Unspent(p) == {n \in Notes(p) : <<n.tree.epoch, n.raw>> \notin p.nullifiers}
Commitments(S) == {n.cm : n \in S}

SettledState(s) ==
    /\ s.bal \in [Wallet -> Nat] /\ s.native_supply \in Nat
    /\ s.master \in Wallet \union {NoMaster}
    /\ s.events = <<>> /\ s.minted \in Nat /\ s.burned \in Nat
    /\ s.pool.notes \in Seq(Commitment) /\ s.pool.v7.notes \in Seq(Commitment)
    /\ Len(s.pool.notes) <= Capacity /\ Len(s.pool.v7.notes) <= Capacity
    /\ Len(s.pool.anchors) <= AnchorWindow /\ ToSet(s.pool.anchors) \subseteq DOMAIN s.pool.anchor_epoch
    /\ s.pool.value_locked \in Nat /\ s.pool.v7.value_locked \in Nat
    /\ ~s.pool.anchors_dirty

\* Types; between blocks no tree and no window is over its size, every windowed
\* root has its epoch, and nothing block-scoped is left over.
TypeOK ==
    /\ net \in Networks /\ height \in 0..MaxHeight
    /\ phase \in {"idle", "building", "applying"} /\ room \in 0..MaxOffers
    /\ SettledState(state)
    /\ phase = "idle" => work = state /\ next = state /\ body = <<>>

\* The value counted into a generation is what its unspent notes are worth: no
\* spend, deposit or rotation makes the cap's books differ from the notes.
ValueBacked ==
    \A g \in Generation :
        value_locked_in(state.pool, g)
            = Worth(Commitments({n \in Unspent(state.pool) : n.tree.generation = g}))

\* The supply counter is the sum of the balances, and with the pool's value it
\* stays under MAX_SUPPLY whichever side of the pool the coin is on.
CapHolds ==
    /\ state.native_supply = Sum(state.bal)
    /\ Sum(state.bal) + Worth(Commitments(Unspent(state.pool))) <= MaxSupply

\* Every root the pool remembers is of a tree with the epoch recorded for it.
EpochsNamed(p) ==
    \A r \in DOMAIN p.anchor_epoch : Len(r[2]) > 0 =>
        \E t \in Trees(p) :
            /\ t.generation = r[1] /\ t.epoch = p.anchor_epoch[r]
            /\ \A i \in DOMAIN r[2] : i \in DOMAIN t.notes /\ t.notes[i] = r[2][i]

\* A root names the epoch its tree has or will be sealed under: rotation, closing
\* v1 and numbering v7 keep archive index and epoch number equal.
AnchorsNameTheirEpoch == EpochsNamed(state.pool)

\* The chokepoint's way to a note: a root it knows, that proves the note, in the
\* note's own epoch and generation.
Reachable(p, n) ==
    \E r \in ToSet(p.anchors) \union {SealedRoot(a) : a \in ToSet(p.archive)} :
        /\ r[1] = n.tree.generation /\ n.cm \in ToSet(r[2])
        /\ epoch_of_anchor(p, r) = n.tree.epoch
        /\ generation_of_anchor(p, r) = n.tree.generation
        /\ ~is_spent_in_epoch(p, n.tree.epoch, NullifierAt(r, n.cm))

\* No note is stranded by the window, a rotation or a restart: each unspent one
\* can be proven against a known root.  On a chain with both generations live the
\* idle v1 root can fall out of the window for a block; that case is excepted.
NotesStayReachable ==
    \A n \in Unspent(state.pool) :
        \/ Reachable(state.pool, n)
        \/ net = "r1" /\ n.tree.generation = "V1" /\ ~state.pool.v1_closed

\* The index answers as a scan would, and no commitment is in two places.
ReplayExact(p) ==
    /\ \A cm \in Commitment : has_ever_held(p, cm) <=> cm \in Held(p)
    /\ \A t \in Trees(p) : IsInjective(t.notes)
    /\ \A s, t \in Trees(p) : s # t => ToSet(s.notes) \intersect ToSet(t.notes) = {}

\* The replay guard spans both generations and all epochs, before and after a
\* rotation or a restart: a commitment enters the ledger once.
ReplayIndexExact == ReplayExact(state.pool)

\* A wallet's honest spend of an unspent note gets past apply_tx.  Its doc says
\* the pool's scoping by epoch is there so that no second note is confiscated.
NotesStayPayable ==
    \A n \in Unspent(state.pool) : ~is_spent(state.pool, n.raw)

Refused == phase = "applying" /\ phase' = "idle" /\ height' = height

\* The producer's body is one its own chain applies, whatever was refused while
\* it was built, with offers against settled and sealed roots (Anchors); on a dual
\* chain only until v1 closes.
OwnBodyApplies == [][Refused => net = "r1" /\ work.pool.v1_closed]_vars

\* The ledger is the abstract bank of notes.
Bank == INSTANCE NoteBank WITH
    Note <- Commitment, Worth <- Worth, Allotment <- Sum(Premine),
    Emission <- Reward, Cap <- MaxSupply,
    unspent <- Commitments(Unspent(state.pool)),
    gone <- Held(state.pool) \ Commitments(Unspent(state.pool)),
    native <- Sum(state.bal), minted <- state.minted, burned <- state.burned

\* Across blocks, restarts and rotations coin is only issued by the coinbase, a
\* note is opened once, and what is issued is in balances, notes or burned.
LedgerIsABank == Bank!Spec
=============================================================================
