# Verification of sigilgraph: block DAG, committee finality, ledger, and the log a node boots from

This directory holds TLA+ models of the node in `src/crates/sigil-node` and of the crates
it decides with: `sigil-dagknight` (the braid), `sigil-finality` (votes and certificates),
`sigil-braidpool/committee` (quorum arithmetic), `sigil-state` and `sigil-tx` (the ledger
and its shielded pool). TLC checks them on small instances, TLAPS proves some of the
results for every instance. `PROJECT.json` maps each definition to its source lines.

## 1. Inventory

The workspace has about a hundred crates. The ones that decide what the chain is, what
the ledger says and what a restart comes back to:

| Component | State it keeps | Operations | Hard parts |
|---|---|---|---|
| **Braid** (`sigil-dagknight/src/braid.rs`) | window of block records, parked blocks with their waiters, emitted heights, frontier, frozen order, certificate, fork anchor, tip memo | `insert`, `anchor_trusted`, `set_certified`, `drain_ordered`, `missing_parents` | arrival order, full pool, finality line that depends on what is parked, memoised tip |
| **Signer guard and vote wire** (`sigil-node/src/finality_wire.rs`) | last signed height, in memory and in a file | `load`, `record`, `on_spine_vote`, `on_block`, `on_gossip` | crash between record and publish, damaged or unreadable file |
| **Vote observer** (`sigil-finality`) | retained votes, certificates, pruning stride | `observe`, `try_assemble`, `prune`, `assemble` | order, duplicates, equivocation, caps, restarts |
| **Node loop** (`sigil-node/src/lib.rs`, `dag.rs`) | settled chain, bodies, the three above | block gossip, mint, by-hash answers, votes, range catch-up, reseed | one validator's votes on moving spines; the settled chain and the spine diverging; restarts |
| **Ledger** (`sigil-state`, `sigil-tx`, `coinbase.rs`, `chain.rs`) | balances, supply, both note generations with their epochs, root window, nullifiers, replay index | build a body, apply a block mutation by mutation, snapshot and reload | refused commits that are not rolled back, two copies that must agree, rotation and activation at a height, the cap's edge |
| **Follower reorg** (`follower_reorg.rs`, backfill arm) | checkpoint ring, fork count, waiting blocks | capture, count a mismatch, roll back | late answers of an abandoned branch, settlements in between, ceiling of the last rollback |
| **Chain log and snapshot** (`chain_log.rs`, `snapshot.rs`, boot of `lib.rs`) | append-only log, sparse index, snapshot | append, seek, replay, boot | torn records, lost tails, an index stale or rewritten under its writer, two branches in one log |
| **GRANDPA** (`sigil-grandpa`, `grandpa_node.rs`) | spine tree, signer guard, held votes | replaces the spine vote when enabled | parking, catch-up, held votes at a cap |
| **Parent fetch, transport** | in-flight tables | by-hash asks, gossip, ranges | retry of what is already under way |
| **Economy, bridges, apps** | ledgers and views on top | | mostly sequential |

How they interact: a block arrives (gossip, own mint, by-hash answer or a range of a
peer's chain) and is inserted in the braid. The braid selects a tip by height and hash,
restricted to descendants of the certified block when `SIGIL_DAG_CERT_FORK_CHOICE=1`.
A validator votes for the block its spine holds `VoteDepth` under the tip; the guard
file makes it one vote per height. Votes travel by gossip; each node's observer
assembles certificates; `apply_finality_gate` hands the newest to the braid, which
raises its line; `dag_drain_apply` applies the spine up to the line to the settled
chain, which is on disk. Applying a block runs its mutations on a copy of the ledger
state and keeps the copy when supply and roots hold; the block is then appended to
`chain.log`. After a restart the node boots from snapshot and log, and the braid is
rebuilt from the settled chain. A node that does not mint follows a producer: it asks peers
for ranges, applies what fits and what its braid settles, and, with a checkpoint ring, takes
repeated mismatches for a fork.
Everything in one node runs on one task, in a `select!` loop, so an arm is atomic with
respect to other arms; the concurrency is between nodes, messages, crashes and the disk.

What makes the components correct:
* braid: what is drained is never reordered, re-finalized or left; a block that can
  still be ordered is admitted; a parked block is woken; one that cannot be does not
  hold finality for good;
* votes: an honest validator signs a height once; certificates agree; memory is bounded;
* node: certified blocks lie on one branch, settled blocks are final and stay on the spine;
* ledger: coin is issued by the coinbase only, within the cap; a note is opened once and can
  always be opened; producer and follower compute the same state;
* follower and log: the chain in memory is on disk; a boot resumes it; stale answers should not
  take a follower off the right branch (they do, section 5), and it gets off a wrong one.

## 2. Modules

| Module | What it is |
|---|---|
| `Braid`, `BraidProofs` | `braid.rs` without GHOSTDAG v2, one record `braid` for the Rust struct, one action per public operation |
| `MCBraid` | small DAGs: `Delayed`, `Crossed` |
| `Committee`, `CommitteeProofs` | `max_byzantine`, `availability_quorum`; quorum arithmetic for any committee, least element of a set of naturals |
| `FinalityVotes`, `FinalityVotesProofs`, `MCFinalityVotes` | guard, observer, gossip, crashes, damaged files |
| `FinalChain`, `FinalChainProofs` | abstract: one growing chain of final blocks, nodes settle along it |
| `SpineFinality`, `SpineFinalityProofs`, `MCSpineFinality` | the node loop of all validators: insert, vote, gate, drain, catch-up, restart; refines `FinalChain` |
| `ShieldedPool` | `shielded.rs`: every mutator of the pool as an operator from pool to pool |
| `Ledger`, `LedgerProofs`, `LedgerBooksProofs`, `MCLedger` | commit chokepoint, producer's body, follower's application, restart from a snapshot |
| `NoteBank` | abstract: a bank of notes, which `Ledger` implements |
| `ChainLog` | `chain_log.rs`, snapshot and boot as operators on what is on disk |
| `ReorgRing` | `follower_reorg.rs` as operators on the ring |
| `Follower`, `FollowerProofs`, `MCFollower` | a follower of a rewinding producer: catch-up, rollback, log writes, stops, boots |

`SpineFinality` composes what the braid and vote modules model in detail. Its header names
what it abstracts: no window limits, no parking (a block enters once its ancestors are
there), the pending clamp and grace off, a certificate learned in one step once a quorum has
signed. It extends `Committee` and refines `FinalChain` under `final <- FinalBlocks` (the
blocks at or below a certificate) and each node's settled tip. `Ledger` extends
`ShieldedPool`; `Follower` extends `ReorgRing`, which extends `ChainLog`.

### Correspondence with the code

**Braid.** The variable `braid` is the struct (`recs`, `pending` as a sequence in arrival
order, `waiters`, `emitted`, `known` heights, `frozen`, `certified`, `anchor`, `sel_tip`).
`admitted` and `drainLine` are history variables: every block ever admitted, and the
highest line a drain used. `Insert` is `insert` with its whole tail (late parent,
eviction, parking, `try_accept`, `cascade_unpark`); `CatchUp` is one iteration of the
catch-up loop (anchor the merge parents, then insert); `SetCertified` and `Drain` are the
two remaining calls. Hashes are naturals ordered as the code orders bytes. `ParkOn`,
`cert_line_held`, `carry_tip_memo` and the rest keep the source's names.

**FinalityVotes.** `disk` is the guard file (`NoFile`, a height, or `Garbled`), `guard`
the height in memory, `outbox` the vote between `guard.record` and the publish. The
split of `on_spine_vote` into `RecordVote` and `PublishVote` is the point where a crash
bites. `signed` is every published vote; `on_gossip` may deliver any of them, so loss,
duplication and reordering need no extra action. `history` remembers certificates of
observers that have since restarted.

**SpineFinality.** `node[v]` holds a validator's braid window, certificate (also fork
anchor), settled tip, last vote and newest certificate. `OnBlock`, `OnMint`, `OnFetched`,
`OnVotes`, `OnRange` are the arms of the loop with all they call, in the order they call
it; `Restart` and `ReAnchor` rebuild the braid. Byzantine votes exist from the start: a
further signature only makes more certificates possible, so this is the strongest case.

**ShieldedPool and Ledger.** A pool is a record with the struct's fields; a root is the
generation and the notes it commits to, a nullifier the owner's key and the position, which
is what the circuit derives it from. `state` is the settled `SigilState`, `work` the
producer's copy while it builds a body (`Propose`, `Include`, `Seal_Body`), `next` the
follower's while it applies one (`ApplyMutation`, `Settle`). The producer commits
transaction by transaction, the follower applies mutation by mutation inside one commit;
neither rolls back a commit that is refused, and the model keeps what a refused one wrote.
Every producer applies its own body as a follower does, so `Settle` is also the check that
the two computations agree (`roots`). `Restart` is a snapshot written and read back
(`Reloaded`: derived caches are dropped, the replay index is rebuilt on demand). `net` is the
build: v1 notes only, both generations with an activation height, v7 only.

**ChainLog, ReorgRing, Follower.** A block is the sequence of choices that led to it, since its
hash commits to its parent's: a chain, a checkpoint and a snapshot are their tips. `log` holds
records and torn items ("cut": part of the payload is missing; "headless": less than a length is
there). Nothing after a torn item is framed, as in the code. `Follower` is a follower with a
braid and a ring; without a braid the code halts at the first mismatch (`diverged`,
lib.rs:4850-4891), and that arm is not modelled. `AskAhead` is the windowed fetcher, which goes
on from `frontier` without waiting for answers, `AskNext` the gap fetch from the next height;
`answers` is a bag, so the same question may be under way more than once. `Deliver` is the
backfill arm with a braid, from the filter on the answer to the drain it ends in: waiting
blocks, what is applied, the mismatch counted or cleared, the rollback or else `Drained`.
`Drain` is the same settlement after a gossiped block or a certificate. Neither clears the count
of mismatches. Which branch a drain settles is the braid's matter: here it is any block in
circulation above the tip. `Write` appends one applied block, so a stop between two `Write`s
finds the log behind. `Shutdown`, `Crash`, `PowerLoss` and `Boot` are the ways down and up; a
power loss takes the ends of log and index, each on its own. After a boot that rebuilt the index
`indexing` is FALSE: the open writer appends to the file that was renamed over. The producer
(`Mint`, `Rewind`) is external and may restart from an older state a bounded number of times.

## 3. Runs

| Run | Question | Instance |
|---|---|---|
| `braid_depth` | Is the frozen order a prefix of the batch order, does the line stay above what was drained, do caught-up blocks join, and does a hopeless parked block stop holding the line? | `Crossed`, depth rule 1, pool 2, catch-up of one strand, fair delivery and draining |
| `braid_cert` | With certificates on both strands and a block that waits for a merge parent: are late parents admitted, is what `missing_parents` asks for usable, is the tip memo exact, does a certificate never lower the line, does the frozen spine move only where the hold gave it back, is every block finally decided? | `Delayed`, fork choice by certificate, no depth rule, grace 2, pool 3, fair delivery |
| `votes_safety` | One vote per height across crashes and file damage; one tuple per certified height across observers | n = 4, 1 Byzantine, 2 observers, 1 outsider |
| `votes_prune` | No certifiable tuple is sat on, memory bounded, certificates stand, one view never conflicts | n = 2 equivocating under the per-block rule, 3 heights, cap 3, stride 2 |
| `spine_anchored` | Certificates on one branch, settled chain on the spine, gate never meets a conflict, lock released only under a certificate | n = 4, 1 Byzantine, fork of height 3 |
| `spine_restart` | Is what is settled final, and is the whole a `FinalChain`? | n = 2 ("solo" gate), mint, restart, rebuild, by-hash, catch-up |
| `ledger` | Do the pool's books match its notes, does the cap hold, do roots name their epoch, can every note be reached, is the replay guard exact, does the chain apply its own bodies, and is the whole a `NoteBank`? | three builds, trees of 3, window of 2 roots, 7 blocks of up to 3 offers |
| `follower` | Is the chain on disk, does a boot resume what was written, does the ring stay on the chain, and does a recoverable follower reach the producer's tip? | five scenarios: three late answers and peers left behind; two rewinds; a fork of height 3; one stop; two stops of any kind. Ring of 3, index stride 2 |
| `votes_read_error` | violation: an unreadable guard file counts as missing | n = 4 |
| `spine_lock` | violation: the vote lock is released without a certificate | n = 4, catch-up on |
| `ledger_frozen` | violation: an unspent note that `apply_tx` refuses for ever | v1 build, one rotation |
| `follower_torn` | violation: blocks appended behind a torn record are lost to every boot | two stops, as in `follower` |

Every passing property has a mutant: a definition of the model changed the way a plausible
bug would change it, under which TLC finds the property violated.

**Bounds and why they suffice.** A braid hazard needs two strands, one late block, one full pool
and a line that passes the late block: seven or eight blocks of height at most 4 with depth 1 or
2 and a pool of 2 or 3 reach all of them (`Crossed` has merges both ways; in `Delayed` a third
producer's block waits for a merge parent while the two strands and certificates on both go on,
so that the hold and a change of branch meet). `MaxWindow` 8 is above every height, so that
window overflow does not hide the orderings; `CleanupStride` 2 makes both cleanups run. For
votes, agreement is about two tuples of one height, hence one height and two tuples suffice for
safety and the theorems cover the rest; pruning needs a height below, at and above the floor,
hence three. In `SpineFinality` two branches that split at height 1 and are voted at two heights
are the smallest case where one-vote-per-height is not enough; the longer branch has height 3,
so that the spine moves under a vote already cast. In `Ledger` a tree of three notes fills with
two deposits and one more, so that a two-output spend meets a full tree; seven blocks hold a
deposit, a merge of two notes, a withdrawal, a re-payment with a spent input, a rotation of the
tree and of the master wallet, the activation height and the last block under the cap; a window
of two roots loses the idle tree's root, which 256 does as well. In `Follower` the index has a
stride of two, so that it names some heights and not others. A scenario (`limits`) bounds the
producer's height and rewinds, stops, answers on their way, and, where peers left on an
abandoned branch answer (`laggards`) or the braid settles, the records in the log (`InBounds`),
since otherwise a follower may go back and forth for ever. A range has `Chunk` + 1 blocks; two,
so that one answer can be part fit and part fork. The fork threshold is the code's 3, and as
many late answers are there. Height 3 leaves blocks waiting above a fork. Hits saturate at the
threshold, above which all counts answer alike. Symmetry is used only over tuples and over
validators that play no distinguished role, and never in a run with a liveness property.

**Fairness.** Braid: each block keeps being offered (gossip, ranges and by-hash asks repeat
until it is known) and drains repeat on every produce tick; `Fairness` writes weak fairness
of "an offer that would change the braid" with the enabling condition spelled out. Follower:
`WF_vars(Mint)`, the producer's tick, and `WF_vars(Follow)`, the follower's loop, which asks,
takes an answer, writes and boots. No heartbeat has to come, nothing has to stop or settle, and no
particular answer has to arrive before a later one. `FollowerRecovers` speaks of the time
after the producer's last rewind, of a follower on its chain or with a checkpoint below the
fork that a rollback may still take, and with nothing of an abandoned branch on the way, waiting
or left for a peer or the braid to bring up (`NothingStale`); section 5 says what happens
otherwise. The other runs state safety only.

## 4. What is proved

`FinalityVotesProofs`, for every committee, set of heights and tuples, cap, stride and
retention (assumption `VotesAssumption`):

* `TypeCorrect`: the type invariant.
* `SignerNeverRepeats` (assuming spine voting and a readable file): an honest validator
  signs at most one tuple per height. One vote per height is not inductive: a restart
  reads the guard back from the file. `GuardInv` adds `GuardCoversVotes` (every vote made,
  even the one still in the outbox, is at or below the height in the file, or the file
  refuses to be used; and at or below the height in memory while running) and
  `MadeOncePerHeight`.
* `OneView`: two quorums of one committee intersect, and an equivocator counts for none,
  so one set of votes never certifies two tuples, whatever the number of equivocators.
* `CertificatesBacked`: a certificate stays backed by published votes of a quorum though
  the votes are pruned and observers restart.
* `Agreement` (additionally at most `max_byzantine(n)` Byzantine): two quorums share an
  honest member (`HonestOverlap`, from `CommitteeSize` and `QuorumOverlap`), who by
  `SignerNeverRepeats` signed one tuple; so all certificates of a height agree.

* `NoQuorumUnused`, `FloodBounded`, `RunningNodesNeverGoBack`: one inductive `ObserverInv`, of
  the votes, certificates and stride counter of one node: at most `MaxVotes` plus the counter
  votes, one certificate per height, and one at every height the votes certify. It is kept
  because `prune` keeps or drops a height as a whole (`Pruned`), a quorum is never empty
  (`NoVotesNothing`), and a step either leaves an observer alone, counts one vote or crashes it
  (`ObserverMoves`). That heights are below `u64::MAX` gives a set of them its highest.

`SpineFinalityProofs`, for every committee, block tree and set of producing or restarting
validators (assumptions `SpineAssumption` and `ChainAssumption`: finitely many blocks,
chains that go down one height at a time). All but the first assume `CertificatesDecide`:
certificates alone make finality (`DepthFinality` off), steer the fork choice and seed a
rebuilt braid, and no peer's range is applied. `spine_lock` is why the last is needed.
From `OneBranchCertified` on they also assume at most `max_byzantine(n)` Byzantine members.

* `TypeCorrect`: windows are closed under ancestors and hold the certificate, in every
  configuration. The fork choice is a CHOOSE, so this rests on `BestExists`: finitely many
  blocks have one that beats all (by a least counterexample, `LeastNatural`).
* Every step is then an `Event(v)` of one validator (`NextIsEvent`): it votes for a block or
  not, and its node gets a new value, with the properties `Effect` and `AnchoredEffect`
  list. What follows looks at events only, not at the seven actions.
* `SettledStays`: `AnchoredInv`, settled tip below certificate. It is kept because a raised
  certificate is above the old one on the spine and a followed one holds the block of our
  spine at the line, which is the old certificate (`GateRaises`).
* `OneBranchCertified`: one vote per height does not stop certificates at different heights
  from contradicting each other, and the lock of one validator lets it change branch. The
  inductive `VotesLocked` says that whatever it voted for is an ancestor of its last vote or
  `Dead`: more than f honest validators have voted higher without voting it, and never
  will. `Outvoted` is the heart: once c is certified every block not above c and off its
  branch is dead, because the honest voters of c either passed over it or left it, and what
  one of them left was already dead. Two certificates off one branch would make one dead.
* `SettledFinal`, `GateConsistent` and `LockKept` follow from the same `LockInv`.
* `RefinesFinalChain`: Byzantine votes alone certify nothing, so the initial states map; an
  event maps to `Advance` of its node, since certifiable blocks only become more, stay on
  one branch, and the settled tip moves up below the certificate.
* `NodesAgree` (`FinalChainProofs`): in a `FinalChain` any two nodes have settled one chain
  or a part of it; with the refinement this holds of the nodes.

`LedgerProofs`, for every capacity, window, schedule, cap and set of payments, and all three
builds (assumptions `PoolAssumption` and `LedgerAssumption`):

* `EpochsStayNamed` and `ReplayIndexStaysExact`. Neither is inductive alone. `Sound(p)` joins
  the pool's shape, the numbering of the epochs (`Numbered`: while v1 is open the archive has
  as many trees as v1 has sealed and v7 is one ahead; once it is closed, as many as v7's
  number), `EpochsNamed`, `SeenIsHeld` (the index, once built, holds what the trees and the
  archive hold) and `OneTreeEach` (no commitment is in two places). Each mutator of the pool
  keeps it, and a body keeps being made of the mutations the code makes (`IsBody`).
* `EveryCopySound`: the same holds of the producer's and of the follower's copy at every
  intermediate step, which is why a commit refused half way does no harm to either.

`LedgerBooksProofs`, on top of it and under the same assumptions, for the coin and for what
wallets can do with it:

* `LedgerTypes`, `ValueStaysBacked`, `CapStaysHeld`, `NotesAlwaysReachable` and
  `LedgerRefinesBank`, all from one inductive `BooksInv`. A settled state alone is not inductive:
  a block is decided over many steps, of which only the last one settles. Its parts:
  `Accounted`, the settled state: each generation's counter is the worth of its open notes
  (`Booked`), what was minted is in balances, notes or burned (`Solid`), under the cap, current
  roots published; `Following`, the same of the follower's copy at every mutation, and `Since`,
  how it differs from the settled state (what it opened was held, what it made is new, nothing
  burned comes back, at most one reward minted); `FairBody`, what is left to apply: a payment
  spends notes that were settled, a coinbase credits what it mints and comes before every
  payment, so that its absolute balance writes find the balances they were computed on;
  `Control`. The producer's own copy is not in it: a commit it refuses leaves burned tags and
  moved value behind, which is why only the follower's copy may become the state.
* The sums are a fold of the community modules; `SumWritten`, `WorthAdds` and their like are
  proved from its definition by least counterexample. A mutation is shown to be `Moved` on the
  pool (notes I spent, notes N new, value in step with them), whatever tree its outputs land
  in: `append_note_in` may seal a full tree between the two outputs of one spend. A refused
  mutation only matters to the follower, which discards.
* `NotesAlwaysReachable` needs that the current root of each live tree is in the window once
  a block is closed (`Published`) and that a root of a tree that holds a note names that tree's
  epoch and generation (`KnownRoot`, from `EpochsNamed` and `OneTreeEach`).
* `LedgerRefinesBank`: only `Settle` changes what the bank sees, by `Since`; every other step,
  a restart included, maps to a stutter.

Four assumptions on the constants are for these: finitely many wallets and commitments (both
are 32 bytes long); the premine is under the cap; a payment has an amount and a wallet; and a
deposit's note hides the deposited amount. The last is what an honest wallet does; the chain
sees only the commitment (`sigil-state/src/lib.rs:1404-1440`), so `ValueBacked` and `CapHolds`
speak of notes as honest wallets make them.

`FollowerProofs`, for every set of scenarios, range, damage, ring and index
stride (assumptions `IdxEveryAssumption`, `RingAssumption`, `FollowerAssumption`):

* `TypeCorrect`, `RingStaysOnChain` and `HistoryStaysOnDisk`, from one inductive `IInv`. Its
  heart is `GoodLog`: the log starts with genesis and the parent of every record is a record
  before it, whatever was torn, lost or rolled back; `GoodTail` says the same of the blocks on
  their way to it. A boot then ends on a chain the log accounts for (`BootIsLogged`),
  whichever of its ways it takes. What a boot applies is a recursive function over the
  records; that it exists, and that all its values are records, is shown by least
  counterexample (`TraceExists`, `AppliedIn`), as `BestExists` is, which needs no induction
  rule. `ExtendedIs` finds the tip a delivery reaches in the same way, and what a drain settles
  is above that tip.
* `OneBranchResumes`: while the log holds one branch, a boot ends at the last record before the
  first torn one, with any snapshot and index behind it. No hypothesis: a stale snapshot or
  index can only make it read more.
* `BootsResume`: with an abandoned branch in the log and a snapshot past it, the boot still does.
  A record is no earlier in the log than it is high, and the parent of each record above the
  snapshot is an earlier one, so the records the index leads to reach the last one (`FoundBoots`).
  `IndexServes` (`get_by_height` finds the snapshot's block, the seek skips no record above
  it) is part of the property, and not always true: the reader stops four strides after the
  place the index leads to (`MAX_SCAN`, chain_log.rs:355-383), so an abandoned suffix, or the
  records an unlinked index did not get, can hide the block (section 5). `follower`
  reaches boots from a snapshot past an abandoned branch that the index serves.

`BraidProofs`, for every block graph, trusted base, window, pool size and finality rule
(assumption `BraidAssumption`):

* Loops first. A recursive function has a value only if it is shown to; `Iterated` gives every
  loop counted by a number one, and `LoopHasValue` every loop whose turns descend in a
  well-founded order, each by least counterexample. `cascade_unpark`, a loop over its own
  results, is the hard one: a turn takes a view off the queue and adds to the queue only when
  it also takes that view from the pool to the window, so the pair of pool size and queue
  length goes down lexicographically. What every turn keeps, the end has (`LoopKeeps`,
  `CascadeKeeps`).
* `BraidTypes` and `MemoIsExact`, in every configuration, from one inductive `WindowInv`. Its
  `Sound(b)`: types, what is emitted is resident, edges join resident views, and the memo is a
  recount. The carried memo is exact because a new view only adds one candidate, unless the
  anchor is resident, and then `carry_tip_memo` recounts; the proof has one
  lemma per mutator of the window, with what it may change (`Joins`, `PoolCut`, `Forgets`,
  `Emits`).
* `NobodyForgotten`: while a cascade runs, a parked view may wait on a parent that has just
  entered, as long as that parent is still in the queue (`WaitsOr(b, W)`, W the queue). It
  assumes that a block settled by catch-up has no merge parents: with them, TLC finds a view
  left behind (section 5).
* `DrainedStays`, from `HoldsLine(b, l)`: everything parked is above l, and the tip or the
  certificate is high enough to put the line at l. Its hypotheses are
  exactly the rules that do take a line back: a grace, which lets a late parked block hold the
  certificate's line; the quorum rule; and the depth rule measured from a tip that
  certificates choose. `braid_depth` satisfies them, the certificate mode with a grace does
  not, as section 5 says of it.
* `CertificateRaises`: both clamps of `cert_line_held` grow with the certificate's height, and a
  lower or equal certificate is `AlreadyCovered`. Where certificates steer the fork choice
  the depth and quorum rules must be off, since both measure from the tip a new certificate moves.
* `LateParentsFit`: while the line is held it is no higher than the reach under the lowest
  parked view or the grace under the certificate, whichever is higher, and the parent is above
  both. It assumes that certificates alone draw the line (the depth rule knows nothing of the
  reach) and that no block has height 0, which only genesis has.
* `FrozenOrderIsFinal`: `Ordered(b, A, l)` says that the frozen order is a run of Kahn's
  algorithm (`KahnRun`) over all blocks A ever admitted, each block handed out the least of the
  ready ones, and that it stays at or below the drained line l. `HoldsLine` keeps newcomers
  above that line, so they are no candidates for a place already taken. Two such runs over one
  graph agree, which replaces induction over the batch order. Its hypotheses are those of
  `DrainedStays` and one more: parents are below their children (`LowParents`), or nothing is
  taken on a peer's word (`OwnWindow`). Without both the order is not final (section 5). Honest
  producers do mint merges below the block, since a merge tip is no higher than the selected
  tip (`merge_tips`, braid.rs:1121-1143) they mint on, unless `SIGIL_MINT_ON_BROKEN_SPINE=1`
  lets them mint below it (lib.rs:1533, 2378); `insert` does not ask for it.
* `AskedForIsTaken` and `CatchUpFollowed`: the heights the braid remembers are the blocks' own
  (`Remembers(b, real)`), so a block that comes for a missing parent, or on a known one, is not
  refused for its height. Both say so while the window has room: at `MaxWindow` the code
  refuses on purpose. `RealHeights` says that a parent is one below its child, and that
  so is a merge parent of a settled block: catch-up anchors those at the child's height less one
  whatever their height (lib.rs:4745-4747; dag.rs:56-58 does the same for the seed), and what
  builds on a wrongly anchored one is refused. `AskedForIsTaken` is of certificate fork
  choice; the depth rule does refuse below its line (section 5).
* `SpineStays`: every certificate taken descends from the one before it, and the spine up to
  a certificate is the certificate's past whichever tip is selected (`AncestorsAgree`,
  `CandidatesDescend`: a parent edge climbs one height); so no frozen height changes hands. A
  certificate off the branch is refused at the line (`ConflictsWithFinal`), which is why the
  line must be at the certificate: no grace (the default, lib.rs:219 of `sigil-dagknight`),
  no other rule, no certificate at height 0; the property then has no exception. With a grace it
  has the one `FrozenSpineStable` names (section 5), which `braid_cert` reaches.

`CertificateRaises`, `LateParentsFit`, `NobodyForgotten` and `AskedForIsTaken` hold of the
configuration of `braid_cert`, and `DrainedStays`, `FrozenOrderIsFinal` and `CatchUpFollowed` of
that of `braid_depth`, so that there TLC and the theorem speak of the same thing.

**Only model-checked:** `FrozenSpineStable` with a grace; `SpineFinality` with catch-up
(`spine_restart`); of the ledger `OwnBodyApplies`, which is about what a refused commit leaves
in the producer's copy; and
the liveness properties `LineNotPinned`, `EventuallyDecided` and `FollowerRecovers`. Liveness
under fairness and ENABLED are out of this prover's reach; so are the library's induction
theorems, which take an operator as a parameter.

## 5. What the models show about the code

Four disagreements with what the code documents have a run (section 3, "violation"):

* the unreadable guard file and the vote lock. Of the lock, TLC also finds the consequence:
  with catch-up on and n = 4, f = 1 (or with unanchored seeds and restarts, n = 2 and both
  honest) certificates appear on two branches. That is why `spine_anchored` has catch-up off
  and `spine_restart` the anchored seed on (`SIGIL_DAG_ANCHOR_SEED=1`, not the default);
* the frozen note. After a rotation a note at the position of a spent note of the first epoch
  has that note's raw nullifier; the pool scopes nullifiers by epoch, but `apply_tx` asks the
  unscoped question and refuses the spend for ever;
* the torn record. A record torn by a crash is neither cut off nor skipped, the next append
  goes behind it, and no boot reads past it.

Other things seen while modelling, which the code mentions, which need opt-in settings, or
which are kept here as notes.

*Braid and votes*
* anchoring a merge parent by catch-up (`anchor_trusted`, braid.rs:248) does not wake the
  blocks already parked on it, unlike the late-parent branch of `insert`: such a block stays
  parked with no unknown parent until it is evicted;
* under the depth rule `missing_parents` can name a parent that `insert` then refuses as below
  the line, although its doc (braid.rs:1405) says supplying it unparks work;
* in certificate mode a block can be admitted that belongs in front of drained ones, so
  the module doc's prefix invariant is one of the depth rule (`braid_depth` checks that);
* with `SIGIL_DAG_FINAL_QUORUM` the line falls again when a longer branch of fewer
  producers wins; `quorum_final` is modelled and off in all runs;
* merge parents may be higher than their child ("Merge parents are unconstrained in height",
  braid.rs:530-531), and heights in the frozen order then decrease, against the comment above
  `order_from_height`. With catch-up the order is then not final either. Take block 4 of
  height 2 with the merge parent 5, also of height 2, of another strand. Catch-up anchors 5 and
  inserts 4, a drain hands 4 out, then 5 arrives: frozen is 2 3 4 5, the batch order 2 3 5 4;
* a grace lets certificates move the spine at a frozen height. `braid_cert` reaches it: with the
  strands 2, 4 and 3, 5 certificate 2 drains height 1; block 6 on 2 parks for its merge parent
  and holds the line down to 0; a certificate for 5 passes `ConflictsWithFinal`, which compares
  at the held line, and the spine at height 1 moves from 2 to 3. That is the exception in
  `FrozenSpineStable`; without it TLC finds the property violated there, and with no grace it
  holds without it. The other strand's certificate takes more than f Byzantine validators, so
  with the votes of section 4 it does not come; the default has no grace;
* the per-block vote rule, the default, signs a height more than once (`finality_wire.rs`
  says so); `SignedOncePerHeight` holds under spine voting only;
* `FrozenSpineStable` is a property of certificate mode; the depth rule alone freezes
  heights that a longer branch may still replace on the spine.

*Ledger*
* on the dual build, a v1 spend that meets a full v1 tree after activation seals and closes v1
  and burns tags in the producer's copy before it is refused (`V1Closed`). The follower never
  sees that transaction, the roots differ, and the producer refuses its own block, against
  coinbase.rs:238 and 253-256. `OwnBodyApplies` excepts that case;
* on the same build the idle v1 root can leave the window of 256 roots when v7 fills it
  (`push_anchor_for`), so that v1 notes cannot be proven until a v1 root is published again;
  `NotesStayReachable` excepts it. Once the full v1 tree is closed, the change of a v1 spend
  has no tree to land in and the spend is refused, although the doc of `activate_v7`
  (shielded.rs:790-793) says v1 notes keep spending;
* a cut of the coinbase refused at the cap leaves the inflated supply in the split's copy, so
  later, smaller cuts of that block are skipped too; no coin is created by it;
* the header commits neither to the master wallet nor to the native supply.

*Follower and log*. `Follower` states the first three as properties under "Not kept", and TLC finds
them violated on the scenarios of `MCFollower` named there.
* late answers: "a handful in a row is a real fork" (follower_reorg.rs:55-57), but three answers
  with blocks of a branch the producer has left, asked for before it rewound, are three
  mismatches in a row, and take a follower off the producer's chain. Nothing keeps them below
  three: the windowed fetcher has up to 16 ranges under way, and gap fetches are not registered
  as ranges in flight (lib.rs:1970, 4058-4103). `FollowerRecovers` says when it gets back;
* mismatches not in a row: `clear_fork_hits` is to be called "when a block applies cleanly"
  (follower_reorg.rs:179), but a block that `dag_drain_apply` settles (lib.rs:4141-4145,
  4840-4847) does not clear the count, so mismatches before and after it add up;
* the index under its writer: `ChainLog::open` has `chain.idx` open (chain_log.rs:190-191, 217)
  when a boot that finds it unusable renames a new one over it (:821), and what is appended from
  then on goes to the unlinked file. At the next boot, with the snapshot's block more than
  four strides above the last entry, the snapshot is refused; if the log also holds a rolled back
  branch, the full replay ends there, although "enabling follower snapshotting past the
  reorg tip closes that window" (follower_reorg.rs:44-45);
* blocks a drain overtakes stay in `pending` below the tip, where nothing reads them, and count
  against `PENDING_MAX_ENTRIES` (dag.rs:352); `Follower` drops them;
* the ring's ceiling: after a rollback to a checkpoint that was right, a stale answer, a forked
  peer or a second rewind within `cadence` blocks makes that checkpoint unreachable, since
  the next rollback must go strictly below it; if it was the oldest, the ring is exhausted
  for ever, although the module doc says exhaustion means a fork deeper than the ring spans;
* a rollback leaves the abandoned suffix in the log, which the doc of `follower_reorg.rs`
  accepts: until a snapshot is past it, a full replay boots onto the abandoned branch.
  `BootResumes` is about logs of one branch or with such a snapshot;
* "heights are non-decreasing in append order" (`replay_from`) is false after a rollback, and
  the scan limit of `get_by_height` (four strides) can miss the snapshot's own block when
  the abandoned suffix is longer than that too: the boot then replays in full, and so onto the
  abandoned branch;
* the frontier of the range requests is not lowered by a rollback; gap recovery covers it, and
  `FollowerRecovers` rests on it (`AskNext`).

## 6. Not modelled, and why

* GHOSTDAG v2 scores (off by default); the body store and its eviction; `pending_insert` and
  deep catch-up; the vote hold clock; parent fetch and the choice of peers.
* GRANDPA, used in rehearsal only (`SIGIL_FINALITY_PROTOCOL=grandpa`): a model would have one
  vote per round and phase, the spine tree with its parking, `KEEP_ROUNDS`, the restart above
  `newest_round` and rounds that must meet; the voting rounds are an external crate.
* Of the ledger: AMM pools (whose reserves the cap does not count), tokens, contracts, key
  registries and nonces; transparent sends, retired from height 0, and the shielded coinbase,
  never active. The welfare wallet is folded into the tithe. Offers name roots of the settled state
  and sealed roots: a spend against a root that only the producer's commits of earlier
  transactions of the same block published is not offered.
* Of the follower: the arm without a braid, which halts at the first mismatch; retry pauses and
  the frontier's return to a failed range (`refetch_from`), so a lost answer is one that stays on
  its way; range sizes adapt in the code and are `Chunk` here.
* Of the log: record encodings, signatures and checksums, range serving (which may serve an
  abandoned branch), recompression, the genesis guard, and the producer's own periodic
  snapshots. A snapshot's rename is taken as atomic and durable though its directory is not
  synced.
* Environment parsing, logging and HTTP views. Economy, bridges and applications are outside
  the consensus path. Cryptography is taken as given: a signature is the identity of its
  signer, a proof is accepted when an honest wallet made it, and is not opened.
* External: Byzantine and foreign messages (`RogueVote`), damage of the guard file (`Damage`),
  and the producer and the stops of `Follower`.

## 7. Plan

1. `FrozenOrder`, an abstract append-only order that `Braid` refines, now that its steps are
   proved; `SpineStays` with a grace, from certificates on one branch (`OneBranchCertified`).
2. `SpineFinality` with catch-up: the invariant under which `SettledIsFinal` survives a peer's
   range (`spine_restart` checks it on n = 2).
3. `IndexServes` from a bound on the abandoned suffix and on what an unlinked index lacks: four
   strides against the ring's span.
4. GRANDPA in place of the spine vote, with a smaller run of another component given up.
5. Body store, `pending_insert` and `parent_fetch` as a resource-bounded component, with
   liveness of settlement.
6. Emission and fee arithmetic against reference definitions; GHOSTDAG colouring.
