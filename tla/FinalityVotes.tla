---------------------------- MODULE FinalityVotes ----------------------------
(***************************************************************************)
(* Committee votes and certificates: the signer guard of                    *)
(* crates/sigil-node/src/finality_wire.rs and the vote observer of          *)
(* crates/sigil-finality.                                                   *)
(*                                                                          *)
(* Every validator signs at most one vote per checkpoint height.  What it   *)
(* signed last is written to disk before the vote leaves, so a crash        *)
(* between the two cannot make it sign the height again.  Votes travel by   *)
(* gossip: `signed` is every vote that ever left a signer, and a node may   *)
(* receive any of them, in any order, twice or never.  Each node tallies    *)
(* what it received and keeps the certificates it could assemble.           *)
(*                                                                          *)
(* A signature is the identity in the field `signer`; a tuple stands for    *)
(* (spine_block_hash, order_hash).  Which block a validator's spine holds   *)
(* at a height is chosen freely here: `spine_vote` picks it, and its hold   *)
(* and lock only withhold votes.                                            *)
(***************************************************************************)
EXTENDS Committee, FiniteSets, FiniteSetsExt

CONSTANTS
    Validator,          \* the committee
    Byzantine,          \* members that sign anything
    Outsider,           \* keys outside the committee, also on the gossip topic
    Node,               \* nodes whose observer is followed
    CrashProne,         \* validators and nodes that may crash
    Height,             \* block heights
    Tuple,              \* (spine_block_hash, order_hash) pairs
    MaxHeight,          \* u64::MAX, above every height
    CheckpointInterval, \* cfg.checkpoint_interval
    RetentionHeights,   \* cfg.retention_heights
    MaxVotes,           \* cfg.max_votes
    PruneEvery,         \* PRUNE_EVERY (64 in the code, scaled to the model)
    SpineVoting,        \* vote_depth > 0; FALSE is the legacy per-block rule
    ReadErrors          \* the guard file can be present but fail to be read

Honest == Validator \ Byzantine
Vote   == [signer : Validator \union Outsider, height : Height, tuple : Tuple]
Cert   == [height : Height, tuple : Tuple]

ASSUME VotesAssumption ==
    /\ IsFiniteSet(Validator) /\ Validator # {}
    /\ Byzantine \subseteq Validator /\ Outsider \intersect Validator = {}
    /\ Node \intersect (Byzantine \union Outsider) = {}
    /\ Height \subseteq Nat /\ MaxHeight \in Nat
    /\ \A h \in Height : 0 < h /\ h <= MaxHeight
    /\ CheckpointInterval \in Nat \ {0} /\ PruneEvery \in Nat \ {0}
    /\ RetentionHeights \in Nat /\ MaxVotes \in Nat \ {0}
    /\ SpineVoting \in BOOLEAN /\ ReadErrors \in BOOLEAN

VARIABLES
    disk,     \* finality-vote-guard.json of each validator
    guard,    \* VoteGuard.last in memory, as a height
    outbox,   \* a vote recorded in the guard and not yet published
    up,       \* which processes run
    signed,   \* every vote published so far
    votes,    \* FinalityObserver.votes of each node
    certs,    \* FinalityObserver.certificates of each node
    unpruned, \* votes_since_prune of each node
    history   \* every certificate any followed node ever assembled

observers == <<votes, certs, unpruned, history>>
vars == <<disk, guard, outbox, up, signed, observers>>

Process == Honest \union Node

NoFile  == 0    \* no guard file: a fresh validator
Garbled == -1   \* a guard file that does not parse

is_checkpoint(h) == h % CheckpointInterval = 0

-----------------------------------------------------------------------------
(* Assembly: a pure function of the votes a node holds.                     *)

Quorum == availability_quorum(Cardinality(Validator))

Equivocates(S, v, h) ==
    \E x, y \in S : /\ x.signer = v /\ x.height = h
                    /\ y.signer = v /\ y.height = h /\ x.tuple # y.tuple

\* Mutated form: an equivocator's two votes both count.
Tally_WithEquivocators(S, h, t) ==
    {v \in Validator : [signer |-> v, height |-> h, tuple |-> t] \in S}

\* Committee members whose only vote at h in S names t.
Tally(S, h, t) ==
    {v \in Validator : /\ [signer |-> v, height |-> h, tuple |-> t] \in S
                       /\ ~Equivocates(S, v, h)}

Certifiable(S, h) == {t \in Tuple : Cardinality(Tally(S, h, t)) >= Quorum}

-----------------------------------------------------------------------------
(* The observer.                                                            *)

\* Mutated form: the first key of the map instead of the last.
finalized_height_First(C) == IF C = {} THEN 0 ELSE Min({c.height : c \in C})

finalized_height(C) == IF C = {} THEN 0 ELSE Max({c.height : c \in C})

\* 0 stands for "no certificate yet": it refuses nothing, as None does.
retention_floor(C) ==
    IF finalized_height(C) > RetentionHeights
    THEN finalized_height(C) - RetentionHeights ELSE 0

\* Mutated form: no certificate below the newest one is assembled any more.
try_assemble_NewestOnly(S, C, h) ==
    IF Certifiable(S, h) = {} \/ \E c \in C : c.height >= h
    THEN {C}
    ELSE {C \union {[height |-> h, tuple |-> t]} : t \in Certifiable(S, h)}

\* The certificates after try_assemble ran at height h over the votes S: the
\* first one at a height stays.
try_assemble(S, C, h) ==
    IF Certifiable(S, h) = {} \/ \E c \in C : c.height = h
    THEN {C}
    ELSE {C \union {[height |-> h, tuple |-> t]} : t \in Certifiable(S, h)}

\* Mutated form: the cap is left to the retention window.
prune_NoCap(S, C) == {x \in S : x.height >= retention_floor(C)}

\* Drop what is below the floor, then whole heights, lowest first, down to the cap.
prune(S, C) ==
    LET recent == {x \in S : x.height >= retention_floor(C)}
    IN {x \in recent : Cardinality({y \in recent : y.height >= x.height}) <= MaxVotes}

\* Observe is Ignored, Rejected or Duplicate for these votes.
Refused(n, x) ==
    \/ ~is_checkpoint(x.height)
    \/ x.height < retention_floor(certs[n])
    \/ x.signer \notin Validator
    \/ x \in votes[n]

observe(n, x) ==
    \/ Refused(n, x) /\ UNCHANGED observers
    \/ /\ ~Refused(n, x)
       /\ \E C \in try_assemble(votes[n] \union {x}, certs[n], x.height) :
            LET held == votes[n] \union {x}
                due  == \/ retention_floor(C) # retention_floor(certs[n])
                        \/ C # certs[n] /\ certs[n] = {}
                        \/ unpruned[n] + 1 >= PruneEvery
            IN /\ votes' = [votes EXCEPT ![n] = IF due THEN prune(held, C) ELSE held]
               /\ certs' = [certs EXCEPT ![n] =
                     IF due THEN {c \in C : c.height >= retention_floor(C)} ELSE C]
               /\ unpruned' = [unpruned EXCEPT ![n] = IF due THEN 0 ELSE @ + 1]
               /\ history' = history \union C

-----------------------------------------------------------------------------
(* The signer.                                                              *)

\* Mutated form: the placeholder of an unparsable file is kept as a height.
load_Raw(file) == {file}

\* Mutated form: a file that does not parse is a fresh validator.
load_GarbledIsFresh(file) == IF file = Garbled THEN {NoFile} ELSE {file}

\* What VoteGuard::load makes of the file.  Any error of the read itself counts
\* as a missing file; only a file that does not parse refuses every height.
load(file) ==
    (IF file = Garbled THEN {MaxHeight} ELSE {file})
        \union (IF ReadErrors THEN {NoFile} ELSE {})

may_sign(v, h) == h > guard[v]

\* on_spine_vote up to guard.record: the vote exists and the guard file names it.
RecordVote(v, h, t) ==
    /\ SpineVoting /\ up[v] /\ outbox[v] = {}
    /\ is_checkpoint(h) /\ may_sign(v, h)
    /\ disk' = [disk EXCEPT ![v] = h]
    /\ guard' = [guard EXCEPT ![v] = h]
    /\ outbox' = [outbox EXCEPT ![v] = {[signer |-> v, height |-> h, tuple |-> t]}]
    /\ UNCHANGED <<up, signed, observers>>

\* The rest of on_spine_vote and the caller: count our own vote, publish it.
PublishVote(v) ==
    \E x \in outbox[v] :
        /\ up[v]
        /\ outbox' = [outbox EXCEPT ![v] = {}]
        /\ signed' = signed \union {x}
        /\ IF v \in Node THEN observe(v, x) ELSE UNCHANGED observers
        /\ UNCHANGED <<disk, guard, up>>

\* The legacy rule: a vote for every block accepted, and no guard.
on_block(v, h, t) ==
    LET x == [signer |-> v, height |-> h, tuple |-> t]
    IN /\ ~SpineVoting /\ up[v] /\ is_checkpoint(h)
       /\ signed' = signed \union {x}
       /\ IF v \in Node THEN observe(v, x) ELSE UNCHANGED observers
       /\ UNCHANGED <<disk, guard, outbox, up>>

\* Anybody may publish anything under a key it holds.
RogueVote(v, h, t) ==
    /\ signed' = signed \union {[signer |-> v, height |-> h, tuple |-> t]}
    /\ UNCHANGED <<disk, guard, outbox, up, observers>>

on_gossip(n, x) ==
    /\ up[n]
    /\ observe(n, x)
    /\ UNCHANGED <<disk, guard, outbox, up, signed>>

\* Memory is lost, the guard file stays; a vote not yet published is gone.
Crash(p) ==
    /\ up[p]
    /\ up' = [up EXCEPT ![p] = FALSE]
    /\ outbox' = IF p \in Honest THEN [outbox EXCEPT ![p] = {}] ELSE outbox
    /\ IF p \in Node
       THEN /\ votes' = [votes EXCEPT ![p] = {}]
            /\ certs' = [certs EXCEPT ![p] = {}]
            /\ unpruned' = [unpruned EXCEPT ![p] = 0]
       ELSE UNCHANGED <<votes, certs, unpruned>>
    /\ UNCHANGED <<disk, guard, signed, history>>

Restart(p) ==
    /\ ~up[p]
    /\ up' = [up EXCEPT ![p] = TRUE]
    /\ IF p \in Honest
       THEN \E last \in load(disk[p]) : guard' = [guard EXCEPT ![p] = last]
       ELSE UNCHANGED guard
    /\ UNCHANGED <<disk, outbox, signed, observers>>

\* External: the guard file is damaged while the node is down.
Damage(v) ==
    /\ ~up[v] /\ disk[v] # NoFile
    /\ disk' = [disk EXCEPT ![v] = Garbled]
    /\ UNCHANGED <<guard, outbox, up, signed, observers>>

Init ==
    /\ disk = [v \in Honest |-> NoFile]
    /\ guard = [v \in Honest |-> 0]
    /\ outbox = [v \in Honest |-> {}]
    /\ up = [p \in Process |-> TRUE]
    /\ signed = {}
    /\ votes = [n \in Node |-> {}]
    /\ certs = [n \in Node |-> {}]
    /\ unpruned = [n \in Node |-> 0]
    /\ history = {}

Next ==
    \/ \E v \in Honest, h \in Height, t \in Tuple : RecordVote(v, h, t)
    \/ \E v \in Honest : PublishVote(v)
    \/ \E v \in Honest, h \in Height, t \in Tuple : on_block(v, h, t)
    \/ \E v \in Byzantine \union Outsider, h \in Height, t \in Tuple : RogueVote(v, h, t)
    \/ \E n \in Node, x \in signed : on_gossip(n, x)
    \/ \E p \in Process \intersect CrashProne : Crash(p) \/ Restart(p)
    \/ \E v \in Honest \intersect CrashProne : Damage(v)

Spec == Init /\ [][Next]_vars

-----------------------------------------------------------------------------
(* Properties.                                                              *)

TypeOK ==
    /\ disk \in [Honest -> Height \union {NoFile, Garbled}]
    /\ guard \in [Honest -> Height \union {0, MaxHeight}]
    /\ outbox \in [Honest -> SUBSET Vote]
    /\ up \in [Process -> BOOLEAN]
    /\ signed \subseteq Vote
    /\ votes \in [Node -> SUBSET signed]
    /\ certs \in [Node -> SUBSET Cert]
    /\ unpruned \in [Node -> Nat]
    /\ history \subseteq Cert

\* Votes a validator has made: published, or recorded and still in memory.
MadeBy(v) == {x \in signed \union outbox[v] : x.signer = v}

\* What the crash ordering buys: every vote a validator made is at or below the
\* height its guard file names (or the file refuses to be used), at or below the
\* height in memory while it runs, and nothing unpublished outlives a crash.
GuardCoversVotes ==
    \A v \in Honest :
        /\ \A x \in outbox[v] : x.signer = v
        /\ ~up[v] => outbox[v] = {}
        /\ \A x \in MadeBy(v) :
              /\ disk[v] = Garbled \/ x.height <= disk[v]
              /\ up[v] => x.height <= guard[v]

MadeOncePerHeight ==
    \A v \in Honest : \A x, y \in MadeBy(v) : x.height = y.height => x.tuple = y.tuple

\* Every certificate rests on published votes of a quorum.
CertsBacked ==
    /\ \A n \in Node : certs[n] \subseteq history
    /\ \A c \in history : \E Q \in SUBSET Validator :
          /\ Cardinality(Q) >= Quorum
          /\ \A v \in Q : [signer |-> v, height |-> c.height, tuple |-> c.tuple] \in signed

\* The premise of BFT safety, and what the signer guard is for: an honest
\* validator never has votes for two different tuples of one height on the
\* network, whatever crashes and restarts lie between them.
SignedOncePerHeight ==
    \A x, y \in signed :
        (/\ x.signer \in Honest /\ y.signer = x.signer
         /\ y.height = x.height) => y.tuple = x.tuple

\* No two nodes ever assemble certificates for different tuples of one height,
\* whichever votes reached each of them and however often they restarted.
CertificateAgreement ==
    \A c, d \in history : c.height = d.height => c.tuple = d.tuple

\* The claim made for equivocator exclusion: within one node's set of votes two
\* tuples of one height are never both certifiable, however many validators sign
\* both.
OneViewNeverConflicts ==
    \A n \in Node, h \in Height :
        \A t, u \in Certifiable(votes[n], h) : t = u

\* A node never sits on a quorum: whenever the votes it retains certify a tuple,
\* it holds a certificate for that height.
NoMissedCertificate ==
    \A n \in Node, h \in Height :
        Certifiable(votes[n], h) # {} => \E c \in certs[n] : c.height = h

\* Retained votes stay within the cap and one pruning stride, whoever floods.
RetainedBounded ==
    \A n \in Node : Cardinality(votes[n]) < MaxVotes + PruneEvery

\* While a node runs, its finalized height never goes down and the certificate at
\* a height it still keeps is never replaced.
CertificatesStand ==
    [][\A n \in Node : up[n] /\ up'[n] =>
         /\ finalized_height(certs'[n]) >= finalized_height(certs[n])
         /\ \A c \in certs[n], d \in certs'[n] :
                c.height = d.height => c = d]_vars

=============================================================================
