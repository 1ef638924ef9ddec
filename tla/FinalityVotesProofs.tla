------------------------- MODULE FinalityVotesProofs -------------------------
(***************************************************************************)
(* Proofs about FinalityVotes for every committee, set of heights and       *)
(* tuples, cap and stride: the signer signs a height once, and while at     *)
(* most f members are Byzantine no two certificates of a height differ.     *)
(***************************************************************************)
EXTENDS FinalityVotes, CommitteeProofs

-----------------------------------------------------------------------------
(* The observer.                                                            *)

\* What assembly may add to the certificates: one for the height asked, for a
\* tuple that a quorum of the votes S names.
LEMMA AssembleAdds ==
    ASSUME NEW S, NEW C, NEW h \in Height, NEW D \in try_assemble(S, C, h)
    PROVE  \A d \in D : \/ d \in C
                        \/ /\ d.height = h /\ d.tuple \in Tuple
                           /\ d = [height |-> d.height, tuple |-> d.tuple]
                           /\ Cardinality(Tally(S, h, d.tuple)) >= Quorum
<1> SUFFICES ASSUME NEW d \in D, d \notin C
             PROVE  /\ d.height = h /\ d.tuple \in Tuple
                    /\ d = [height |-> d.height, tuple |-> d.tuple]
                    /\ Cardinality(Tally(S, h, d.tuple)) >= Quorum
  OBVIOUS
<1>1. PICK t \in Certifiable(S, h) : D = C \union {[height |-> h, tuple |-> t]}
  BY DEF try_assemble
<1>2. d = [height |-> h, tuple |-> t]
  BY <1>1
<1>3. t \in Tuple /\ Cardinality(Tally(S, h, t)) >= Quorum
  BY DEF Certifiable
<1> QED
  BY <1>2, <1>3

\* One vote observed: a node retains only votes it held or was given, keeps only
\* certificates it held or assembled, and every assembled one is remembered.
LEMMA ObserveStep ==
    ASSUME TypeOK, NEW n \in Node, NEW x \in Vote, observe(n, x)
    PROVE  /\ votes' \in [Node -> SUBSET (signed \union {x})]
           /\ certs' \in [Node -> SUBSET Cert]
           /\ unpruned' \in [Node -> Nat]
           /\ history \subseteq history' /\ history' \subseteq Cert
           /\ \A m \in Node : certs'[m] \subseteq certs[m] \union history'
           /\ \A c \in history' : \/ c \in history \union certs[n]
                                  \/ Cardinality(Tally(votes[n] \union {x}, c.height, c.tuple))
                                        >= Quorum
<1>0. /\ votes \in [Node -> SUBSET signed] /\ certs \in [Node -> SUBSET Cert]
      /\ unpruned \in [Node -> Nat] /\ history \subseteq Cert
  BY DEF TypeOK
<1>1. CASE UNCHANGED observers
  BY <1>0, <1>1 DEF observers
<1>2. CASE ~UNCHANGED observers
  <2> DEFINE held == votes[n] \union {x}
             due(C) == \/ retention_floor(C) # retention_floor(certs[n])
                       \/ C # certs[n] /\ certs[n] = {}
                       \/ unpruned[n] + 1 >= PruneEvery
  <2>1. PICK C \in try_assemble(held, certs[n], x.height) :
          /\ votes' = [votes EXCEPT ![n] = IF due(C) THEN prune(held, C) ELSE held]
          /\ certs' = [certs EXCEPT ![n] =
                IF due(C) THEN {c \in C : c.height >= retention_floor(C)} ELSE C]
          /\ unpruned' = [unpruned EXCEPT ![n] = IF due(C) THEN 0 ELSE @ + 1]
          /\ history' = history \union C
    BY <1>2 DEF observe
  <2>2. x.height \in Height
    BY DEF Vote
  <2>3. \A d \in C : \/ d \in certs[n]
                     \/ /\ d \in Cert
                        /\ Cardinality(Tally(held, d.height, d.tuple)) >= Quorum
    BY <2>1, <2>2, AssembleAdds DEF Cert
  <2>4. C \subseteq Cert
    BY <2>3, <1>0
  <2>5. prune(held, C) \subseteq held /\ held \subseteq signed \union {x}
    BY <1>0 DEF prune
  <2> HIDE DEF due
  <2>6. votes' \in [Node -> SUBSET (signed \union {x})]
    <3> DEFINE kept == IF due(C) THEN prune(held, C) ELSE held
    <3>1. kept \in SUBSET (signed \union {x})
      BY <2>5
    <3> HIDE DEF kept
    <3> QED
      BY <2>1, <3>1, <1>0 DEF kept
  <2>7. /\ certs' \in [Node -> SUBSET Cert]
        /\ \A m \in Node : certs'[m] \subseteq certs[m] \union C
    <3> DEFINE kept == IF due(C) THEN {c \in C : c.height >= retention_floor(C)} ELSE C
    <3>1. kept \subseteq C
      OBVIOUS
    <3> HIDE DEF kept
    <3> QED
      BY <2>1, <3>1, <2>4, <1>0 DEF kept
  <2>8. unpruned' \in [Node -> Nat]
    BY <2>1, <1>0
  <2> QED
    BY <2>1, <2>3, <2>4, <2>6, <2>7, <2>8, <1>0
<1> QED
  BY <1>1, <1>2

-----------------------------------------------------------------------------
(* Type correctness.                                                        *)

LEMMA TypeInit == Init => TypeOK
<1> SUFFICES ASSUME Init PROVE TypeOK
  OBVIOUS
<1> QED
  BY DEF Init, TypeOK, NoFile, Process

\* No action leaves the types, whatever a damaged guard file is read as.
LEMMA TypeStep == TypeOK /\ [Next]_vars => TypeOK'
<1> SUFFICES ASSUME TypeOK, [Next]_vars PROVE TypeOK'
  OBVIOUS
<1> USE DEF TypeOK
<1>1. ASSUME NEW v \in Honest, NEW h \in Height, NEW t \in Tuple, RecordVote(v, h, t)
      PROVE  TypeOK'
  <2>1. [signer |-> v, height |-> h, tuple |-> t] \in Vote
    BY DEF Vote, Honest
  <2>2. disk' \in [Honest -> Height \union {NoFile, Garbled}]
    BY <1>1 DEF RecordVote
  <2>3. guard' \in [Honest -> Height \union {0, MaxHeight}]
    BY <1>1 DEF RecordVote
  <2>4. outbox' \in [Honest -> SUBSET Vote]
    BY <1>1, <2>1 DEF RecordVote
  <2> QED
    BY <1>1, <2>2, <2>3, <2>4 DEF RecordVote, observers
<1>2. ASSUME NEW v \in Honest, PublishVote(v)
      PROVE  TypeOK'
  <2>1. PICK x \in outbox[v] :
          /\ outbox' = [outbox EXCEPT ![v] = {}] /\ signed' = signed \union {x}
          /\ IF v \in Node THEN observe(v, x) ELSE UNCHANGED observers
          /\ UNCHANGED <<disk, guard, up>>
    BY <1>2 DEF PublishVote
  <2>2. x \in Vote
    BY <2>1
  <2>3. CASE v \in Node
    BY <2>1, <2>2, <2>3, ObserveStep
  <2>4. CASE v \notin Node
    BY <2>1, <2>2, <2>4 DEF observers
  <2> QED
    BY <2>3, <2>4
<1>3. ASSUME NEW v \in Honest, NEW h \in Height, NEW t \in Tuple, on_block(v, h, t)
      PROVE  TypeOK'
  <2> DEFINE x == [signer |-> v, height |-> h, tuple |-> t]
  <2>1. /\ signed' = signed \union {x}
        /\ IF v \in Node THEN observe(v, x) ELSE UNCHANGED observers
        /\ UNCHANGED <<disk, guard, outbox, up>>
    BY <1>3 DEF on_block
  <2>2. x \in Vote
    BY DEF Vote, Honest
  <2> HIDE DEF x
  <2>3. CASE v \in Node
    BY <2>1, <2>2, <2>3, ObserveStep
  <2>4. CASE v \notin Node
    BY <2>1, <2>2, <2>4 DEF observers
  <2> QED
    BY <2>3, <2>4
<1>4. ASSUME NEW v \in Byzantine \union Outsider, NEW h \in Height, NEW t \in Tuple,
             RogueVote(v, h, t)
      PROVE  TypeOK'
  <2>1. [signer |-> v, height |-> h, tuple |-> t] \in Vote
    BY VotesAssumption DEF Vote
  <2> QED
    BY <1>4, <2>1 DEF RogueVote, observers
<1>5. ASSUME NEW n \in Node, NEW x \in signed, on_gossip(n, x)
      PROVE  TypeOK'
  <2>1. x \in Vote /\ signed \union {x} = signed /\ observe(n, x)
    BY <1>5 DEF on_gossip
  <2> QED
    BY <1>5, <2>1, ObserveStep DEF on_gossip
<1>6. ASSUME NEW p \in Process, Crash(p)
      PROVE  TypeOK'
  <2>1. up' \in [Process -> BOOLEAN] /\ outbox' \in [Honest -> SUBSET Vote]
    BY <1>6 DEF Crash
  <2>2. /\ votes' \in [Node -> SUBSET signed] /\ certs' \in [Node -> SUBSET Cert]
        /\ unpruned' \in [Node -> Nat]
    BY <1>6 DEF Crash
  <2> QED
    BY <1>6, <2>1, <2>2 DEF Crash
<1>7. ASSUME NEW p \in Process, Restart(p)
      PROVE  TypeOK'
  <2>1. guard' \in [Honest -> Height \union {0, MaxHeight}]
    <3>1. CASE p \notin Honest
      BY <1>7, <3>1 DEF Restart
    <3>2. CASE p \in Honest
      <4>1. PICK last \in load(disk[p]) : guard' = [guard EXCEPT ![p] = last]
        BY <1>7, <3>2 DEF Restart
      <4>2. last \in Height \union {0, MaxHeight}
        BY <3>2 DEF load, NoFile
      <4> QED
        BY <4>1, <4>2
    <3> QED
      BY <3>1, <3>2
  <2> QED
    BY <1>7, <2>1 DEF Restart, observers
<1>8. ASSUME NEW v \in Honest, Damage(v)
      PROVE  TypeOK'
  BY <1>8 DEF Damage, observers
<1>9. CASE UNCHANGED vars
  BY <1>9 DEF vars, observers
<1> HIDE DEF TypeOK
<1> QED
  BY <1>1, <1>2, <1>3, <1>4, <1>5, <1>6, <1>7, <1>8, <1>9 DEF Next

\* Disk, memory, gossip and observers keep their types in every behaviour; a node
\* never holds a vote that nobody signed.
THEOREM TypeCorrect == Spec => []TypeOK
<1> QED
  BY TypeInit, TypeStep, PTL DEF Spec

-----------------------------------------------------------------------------
(* The signer guard.                                                        *)

\* SignedOncePerHeight alone is not inductive: what keeps the next vote off an
\* old height is the guard, and after a restart the guard is what the file says.
GuardInv == TypeOK /\ GuardCoversVotes /\ MadeOncePerHeight

\* A step that makes no vote, raises no guard below one and revives nobody.
LEMMA GuardKept ==
    ASSUME GuardInv, NEW v \in Honest,
           MadeBy(v)' \subseteq MadeBy(v), outbox[v]' \subseteq outbox[v],
           disk[v]' = disk[v] \/ disk[v]' = Garbled,
           guard[v]' = guard[v], up[v]' => up[v], outbox[v]' # {} => up[v]'
    PROVE  /\ \A x \in outbox[v]' : x.signer = v
           /\ ~up[v]' => outbox[v]' = {}
           /\ \A x \in MadeBy(v)' : /\ disk[v]' = Garbled \/ x.height <= disk[v]'
                                    /\ up[v]' => x.height <= guard[v]'
           /\ \A x, y \in MadeBy(v)' : x.height = y.height => x.tuple = y.tuple
<1> QED
  BY DEF GuardInv, GuardCoversVotes, MadeOncePerHeight

LEMMA GuardStep ==
    ASSUME SpineVoting = TRUE, ReadErrors = FALSE
    PROVE  GuardInv /\ [Next]_vars => GuardInv'
<1> SUFFICES ASSUME GuardInv, [Next]_vars
             PROVE  GuardCoversVotes' /\ MadeOncePerHeight'
  BY TypeStep DEF GuardInv
<1> DEFINE Good(v) ==
      /\ \A x \in outbox[v]' : x.signer = v
      /\ ~up[v]' => outbox[v]' = {}
      /\ \A x \in MadeBy(v)' : /\ disk[v]' = Garbled \/ x.height <= disk[v]'
                               /\ up[v]' => x.height <= guard[v]'
      /\ \A x, y \in MadeBy(v)' : x.height = y.height => x.tuple = y.tuple
<1> SUFFICES ASSUME NEW w \in Honest PROVE Good(w)
  BY DEF GuardCoversVotes, MadeOncePerHeight
<1>0. /\ disk \in [Honest -> Height \union {NoFile, Garbled}]
      /\ guard \in [Honest -> Height \union {0, MaxHeight}]
      /\ outbox \in [Honest -> SUBSET Vote] /\ up \in [Process -> BOOLEAN]
      /\ signed \subseteq Vote /\ w \in Process
  BY DEF GuardInv, TypeOK, Process
<1>nat. Height \union {0, MaxHeight} \subseteq Nat
  BY VotesAssumption
<1>made. \A x \in MadeBy(w) : x \in Vote /\ x.signer = w /\ x.height \in Height
  BY <1>0 DEF MadeBy, Vote
<1>inv. /\ \A x \in outbox[w] : x.signer = w
        /\ ~up[w] => outbox[w] = {}
        /\ \A x \in MadeBy(w) : /\ disk[w] = Garbled \/ x.height <= disk[w]
                                /\ up[w] => x.height <= guard[w]
        /\ \A x, y \in MadeBy(w) : x.height = y.height => x.tuple = y.tuple
  BY DEF GuardInv, GuardCoversVotes, MadeOncePerHeight
<1>1. ASSUME NEW v \in Honest, NEW h \in Height, NEW t \in Tuple, RecordVote(v, h, t)
      PROVE  Good(w)
  <2> DEFINE new == [signer |-> v, height |-> h, tuple |-> t]
  <2>0. /\ up[v] /\ outbox[v] = {} /\ h > guard[v]
        /\ disk' = [disk EXCEPT ![v] = h] /\ guard' = [guard EXCEPT ![v] = h]
        /\ outbox' = [outbox EXCEPT ![v] = {new}] /\ up' = up /\ signed' = signed
    BY <1>1 DEF RecordVote, may_sign
  <2>1. CASE w # v
    <3>1. MadeBy(w)' = MadeBy(w) /\ outbox[w]' = outbox[w]
          /\ disk[w]' = disk[w] /\ guard[w]' = guard[w] /\ up[w]' = up[w]
      BY <2>0, <2>1, <1>0 DEF MadeBy
    <3> QED
      BY <3>1, <1>inv, GuardKept
  <2>2. CASE w = v
    <3>1. /\ outbox[w]' = {new} /\ disk[w]' = h /\ guard[w]' = h /\ up[w]'
          /\ new.signer = w /\ new.height = h
      BY <2>0, <2>2, <1>0
    <3>2. \A x \in MadeBy(w)' : x \in MadeBy(w) \/ x = new
      BY <2>0, <2>2, <3>1 DEF MadeBy
    <3>3. \A x \in MadeBy(w) : x.height < h
      <4> SUFFICES ASSUME NEW x \in MadeBy(w) PROVE x.height < h
        OBVIOUS
      <4>1. x.height \in Nat /\ h \in Nat
        BY <1>made, VotesAssumption
      <4>2. guard[w] \in Height \union {0, MaxHeight}
        BY <1>0
      <4>3. guard[w] \in Nat
        BY <4>2, <1>nat
      <4>4. up[w] /\ h > guard[w]
        BY <2>0, <2>2
      <4>5. x.height <= guard[w]
        BY <1>inv, <4>4
      <4> QED
        BY <4>1, <4>3, <4>4, <4>5
    <3>4. \A x \in MadeBy(w)' : x.height <= h
      BY <3>1, <3>2, <3>3, <1>made, VotesAssumption
    <3>5. \A x, y \in MadeBy(w)' : x.height = y.height => x.tuple = y.tuple
      BY <3>1, <3>2, <3>3, <1>inv, <1>made, VotesAssumption
    <3> QED
      BY <3>1, <3>4, <3>5
  <2> QED
    BY <2>1, <2>2
<1>2. ASSUME NEW v \in Honest, PublishVote(v)
      PROVE  Good(w)
  <2>1. PICK x \in outbox[v] :
          /\ up[v] /\ outbox' = [outbox EXCEPT ![v] = {}] /\ signed' = signed \union {x}
          /\ UNCHANGED <<disk, guard, up>>
    BY <1>2 DEF PublishVote
  <2>2. x.signer = v
    BY DEF GuardInv, GuardCoversVotes
  <2>3. MadeBy(w)' \subseteq MadeBy(w)
    BY <2>1, <2>2, <1>0 DEF MadeBy
  <2>4. outbox[w]' \subseteq outbox[w]
    BY <2>1, <1>0
  <2> QED
    BY <2>1, <2>3, <2>4, <1>inv, GuardKept
<1>3. ASSUME NEW v \in Honest, NEW h \in Height, NEW t \in Tuple, on_block(v, h, t)
      PROVE  Good(w)
  BY <1>3 DEF on_block
<1>4. ASSUME NEW v \in Byzantine \union Outsider, NEW h \in Height, NEW t \in Tuple,
             RogueVote(v, h, t)
      PROVE  Good(w)
  <2>1. v # w
    BY VotesAssumption DEF Honest
  <2>2. MadeBy(w)' = MadeBy(w) /\ UNCHANGED <<disk, guard, outbox, up>>
    BY <1>4, <2>1 DEF RogueVote, MadeBy
  <2> QED
    BY <2>2, <1>inv, GuardKept
<1>5. ASSUME NEW n \in Node, NEW x \in signed, on_gossip(n, x)
      PROVE  Good(w)
  <2>1. MadeBy(w)' = MadeBy(w) /\ UNCHANGED <<disk, guard, outbox, up>>
    BY <1>5 DEF on_gossip, MadeBy
  <2> QED
    BY <2>1, <1>inv, GuardKept
<1>6. ASSUME NEW p \in Process, Crash(p)
      PROVE  Good(w)
  <2>1. /\ up' = [up EXCEPT ![p] = FALSE] /\ UNCHANGED <<disk, guard, signed>>
        /\ outbox' = IF p \in Honest THEN [outbox EXCEPT ![p] = {}] ELSE outbox
    BY <1>6 DEF Crash
  <2>2. outbox[w]' \subseteq outbox[w] /\ (outbox[w]' # {} => up[w]') /\ (up[w]' => up[w])
    BY <2>1, <1>0, <1>inv
  <2>3. MadeBy(w)' \subseteq MadeBy(w)
    BY <2>1, <2>2 DEF MadeBy
  <2> QED
    BY <2>1, <2>2, <2>3, GuardKept
<1>7. ASSUME NEW p \in Process, Restart(p)
      PROVE  Good(w)
  <2>0. MadeBy(w)' = MadeBy(w) /\ UNCHANGED <<disk, outbox, signed>>
        /\ ~up[p] /\ up' = [up EXCEPT ![p] = TRUE]
    BY <1>7 DEF Restart, MadeBy
  <2>1. CASE p # w
    <3>1. guard[w]' = guard[w] /\ up[w]' = up[w]
      BY <1>7, <2>0, <2>1, <1>0 DEF Restart
    <3> QED
      BY <2>0, <3>1, <1>inv, GuardKept
  <2>2. CASE p = w
    <3>1. guard[w]' = IF disk[w] = Garbled THEN MaxHeight ELSE disk[w]
      BY <1>7, <2>2, <1>0 DEF Restart, load
    <3>2. \A x \in MadeBy(w) : x.height <= guard[w]'
      BY <3>1, <1>inv, <1>made, VotesAssumption
    <3> QED
      BY <2>0, <2>2, <3>2, <1>inv
  <2> QED
    BY <2>1, <2>2
<1>8. ASSUME NEW v \in Honest, Damage(v)
      PROVE  Good(w)
  <2>1. MadeBy(w)' = MadeBy(w) /\ UNCHANGED <<guard, outbox, up>>
    BY <1>8 DEF Damage, MadeBy
  <2>2. disk[w]' = disk[w] \/ disk[w]' = Garbled
    BY <1>8, <1>0 DEF Damage
  <2> QED
    BY <2>1, <2>2, <1>inv, GuardKept
<1>9. CASE UNCHANGED vars
  <2>1. MadeBy(w)' = MadeBy(w) /\ UNCHANGED <<disk, guard, outbox, up>>
    BY <1>9 DEF vars, MadeBy
  <2> QED
    BY <2>1, <1>inv, GuardKept
<1> HIDE DEF Good
<1> QED
  BY <1>1, <1>2, <1>3, <1>4, <1>5, <1>6, <1>7, <1>8, <1>9 DEF Next

LEMMA GuardInit == Init => GuardInv
<1> SUFFICES ASSUME Init PROVE GuardInv
  OBVIOUS
<1>1. \A v \in Honest : MadeBy(v) = {} /\ outbox[v] = {}
  BY DEF Init, MadeBy
<1> QED
  BY <1>1, TypeInit DEF GuardInv, GuardCoversVotes, MadeOncePerHeight

LEMMA GuardInvSigned == GuardInv => SignedOncePerHeight
<1> QED
  BY DEF GuardInv, MadeOncePerHeight, MadeBy, SignedOncePerHeight

\* With the guarded rule, and a guard file that can be read or is seen to be
\* damaged, no honest validator ever has two votes of one height on the network,
\* whatever crashes, restarts and damage to the file lie between them.
THEOREM SignerNeverRepeats ==
    ASSUME SpineVoting = TRUE, ReadErrors = FALSE
    PROVE  Spec => []SignedOncePerHeight
<1>1. Init => GuardInv
  BY GuardInit
<1>2. GuardInv /\ [Next]_vars => GuardInv'
  BY GuardStep
<1>3. GuardInv => SignedOncePerHeight
  BY GuardInvSigned
<1> QED
  BY <1>1, <1>2, <1>3, PTL DEF Spec

-----------------------------------------------------------------------------
(* One view.                                                                *)

\* Two quorums overlap, and who is in the overlap of two tallies voted twice.
LEMMA OneCertifiable ==
    ASSUME NEW S, NEW h, NEW t \in Certifiable(S, h), NEW u \in Certifiable(S, h)
    PROVE  t = u
<1> SUFFICES ASSUME t # u PROVE FALSE
  OBVIOUS
<1>1. /\ Tally(S, h, t) \in SUBSET Validator /\ Cardinality(Tally(S, h, t)) >= Quorum
      /\ Tally(S, h, u) \in SUBSET Validator /\ Cardinality(Tally(S, h, u)) >= Quorum
  BY DEF Certifiable, Tally
<1>2. Tally(S, h, t) \intersect Tally(S, h, u) = {}
  <2> SUFFICES ASSUME NEW v \in Tally(S, h, t), v \in Tally(S, h, u)
               PROVE  FALSE
    OBVIOUS
  <2> DEFINE x == [signer |-> v, height |-> h, tuple |-> t]
             y == [signer |-> v, height |-> h, tuple |-> u]
  <2>1. x \in S /\ y \in S /\ ~Equivocates(S, v, h)
    BY DEF Tally
  <2>2. x.signer = v /\ x.height = h /\ y.signer = v /\ y.height = h /\ x.tuple # y.tuple
    OBVIOUS
  <2> QED
    BY <2>1, <2>2 DEF Equivocates
<1>3. Cardinality({}) > max_byzantine(Cardinality(Validator))
  BY <1>1, <1>2, VotesAssumption, QuorumOverlap DEF Quorum
<1>4. max_byzantine(Cardinality(Validator)) \in Nat
  BY VotesAssumption, CommitteeSize
<1> QED
  BY <1>3, <1>4, FS_EmptySet

\* Within the votes one node retains, at most one tuple of a height can be
\* certified, however many members of the committee sign both.
THEOREM OneView == Spec => []OneViewNeverConflicts
<1>1. OneViewNeverConflicts
  BY OneCertifiable DEF OneViewNeverConflicts
<1> QED
  BY <1>1, PTL

-----------------------------------------------------------------------------
(* Certificates.                                                            *)

\* A quorum that signed [h, t].
Backed(c, S) ==
    \E Q \in SUBSET Validator :
        /\ Cardinality(Q) >= Quorum
        /\ \A v \in Q : [signer |-> v, height |-> c.height, tuple |-> c.tuple] \in S

LEMMA CertsBackedIs ==
    CertsBacked <=> /\ \A n \in Node : certs[n] \subseteq history
                    /\ \A c \in history : Backed(c, signed)
<1> QED
  BY DEF CertsBacked, Backed

\* More signatures never unseat a certificate.
LEMMA BackedMore ==
    ASSUME NEW c, NEW S, NEW T, S \subseteq T, Backed(c, S)
    PROVE  Backed(c, T)
<1> QED
  BY DEF Backed

\* What a node assembles rests on the votes it counted.
LEMMA TallyBacks ==
    ASSUME NEW c, NEW S, Cardinality(Tally(S, c.height, c.tuple)) >= Quorum
    PROVE  Backed(c, S)
<1>1. /\ Tally(S, c.height, c.tuple) \in SUBSET Validator
      /\ \A v \in Tally(S, c.height, c.tuple) :
            [signer |-> v, height |-> c.height, tuple |-> c.tuple] \in S
  BY DEF Tally
<1> QED
  BY <1>1 DEF Backed

LEMMA BackedObserve ==
    ASSUME TypeOK, CertsBacked, NEW n \in Node, NEW x \in Vote, observe(n, x),
           signed \union {x} \subseteq signed'
    PROVE  CertsBacked'
<1>1. /\ history \subseteq history'
      /\ \A m \in Node : certs'[m] \subseteq certs[m] \union history'
      /\ \A c \in history' : \/ c \in history \union certs[n]
                            \/ Cardinality(Tally(votes[n] \union {x}, c.height, c.tuple))
                                  >= Quorum
  BY ObserveStep
<1>2. /\ \A m \in Node : certs[m] \subseteq history
      /\ \A c \in history : Backed(c, signed)
  BY CertsBackedIs
<1>3. votes[n] \union {x} \subseteq signed'
  BY DEF TypeOK
<1>4. \A m \in Node : certs'[m] \subseteq history'
  BY <1>1, <1>2
<1>5. ASSUME NEW c \in history' PROVE Backed(c, signed')
  <2>1. CASE c \in history \union certs[n]
    <3>1. Backed(c, signed)
      BY <2>1, <1>2
    <3> QED
      BY <3>1, BackedMore
  <2>2. CASE Cardinality(Tally(votes[n] \union {x}, c.height, c.tuple)) >= Quorum
    <3>1. Backed(c, votes[n] \union {x})
      BY <2>2, TallyBacks
    <3> QED
      BY <3>1, <1>3, BackedMore
  <2> QED
    BY <1>1, <2>1, <2>2
<1> QED
  BY <1>4, <1>5 DEF CertsBacked, Backed

\* No certificate moved and no signature was withdrawn.
LEMMA BackedKept ==
    ASSUME CertsBacked, history' = history, signed \subseteq signed',
           \A n \in Node : certs'[n] \subseteq certs[n]
    PROVE  CertsBacked'
<1>1. /\ \A n \in Node : certs[n] \subseteq history
      /\ \A c \in history : Backed(c, signed)
  BY CertsBackedIs
<1>2. \A c \in history' : Backed(c, signed')
  BY <1>1, BackedMore
<1>3. \A n \in Node : certs'[n] \subseteq history'
  BY <1>1
<1> QED
  BY <1>2, <1>3 DEF CertsBacked, Backed

LEMMA BackedStep == TypeOK /\ CertsBacked /\ [Next]_vars => CertsBacked'
<1> SUFFICES ASSUME TypeOK, CertsBacked, [Next]_vars PROVE CertsBacked'
  OBVIOUS
<1>0. outbox \in [Honest -> SUBSET Vote] /\ signed \subseteq Vote
      /\ certs \in [Node -> SUBSET Cert]
  BY DEF TypeOK
<1>1. ASSUME NEW v \in Honest, NEW h \in Height, NEW t \in Tuple, RecordVote(v, h, t)
      PROVE  CertsBacked'
  BY <1>1, BackedKept DEF RecordVote, observers
<1>2. ASSUME NEW v \in Honest, PublishVote(v)
      PROVE  CertsBacked'
  <2>1. PICK x \in outbox[v] :
          /\ signed' = signed \union {x}
          /\ IF v \in Node THEN observe(v, x) ELSE UNCHANGED observers
    BY <1>2 DEF PublishVote
  <2>2. x \in Vote
    BY <1>0
  <2>3. CASE v \in Node
    BY <2>1, <2>2, <2>3, BackedObserve
  <2>4. CASE v \notin Node
    BY <2>1, <2>4, BackedKept DEF observers
  <2> QED
    BY <2>3, <2>4
<1>3. ASSUME NEW v \in Honest, NEW h \in Height, NEW t \in Tuple, on_block(v, h, t)
      PROVE  CertsBacked'
  <2> DEFINE x == [signer |-> v, height |-> h, tuple |-> t]
  <2>1. /\ signed' = signed \union {x}
        /\ IF v \in Node THEN observe(v, x) ELSE UNCHANGED observers
    BY <1>3 DEF on_block
  <2>2. x \in Vote
    BY DEF Vote, Honest
  <2> HIDE DEF x
  <2>3. CASE v \in Node
    BY <2>1, <2>2, <2>3, BackedObserve
  <2>4. CASE v \notin Node
    BY <2>1, <2>4, BackedKept DEF observers
  <2> QED
    BY <2>3, <2>4
<1>4. ASSUME NEW v \in Byzantine \union Outsider, NEW h \in Height, NEW t \in Tuple,
             RogueVote(v, h, t)
      PROVE  CertsBacked'
  BY <1>4, BackedKept DEF RogueVote, observers
<1>5. ASSUME NEW n \in Node, NEW x \in signed, on_gossip(n, x)
      PROVE  CertsBacked'
  <2>1. x \in Vote /\ signed \union {x} \subseteq signed' /\ observe(n, x)
    BY <1>0, <1>5 DEF on_gossip
  <2> QED
    BY <2>1, BackedObserve
<1>6. ASSUME NEW p \in Process, Crash(p)
      PROVE  CertsBacked'
  <2>1. \A n \in Node : certs'[n] \subseteq certs[n]
    BY <1>0, <1>6 DEF Crash
  <2> QED
    BY <1>6, <2>1, BackedKept DEF Crash
<1>7. ASSUME NEW p \in Process, Restart(p)
      PROVE  CertsBacked'
  BY <1>7, BackedKept DEF Restart, observers
<1>8. ASSUME NEW v \in Honest, Damage(v)
      PROVE  CertsBacked'
  BY <1>8, BackedKept DEF Damage, observers
<1>9. CASE UNCHANGED vars
  BY <1>9, BackedKept DEF vars, observers
<1> QED
  BY <1>1, <1>2, <1>3, <1>4, <1>5, <1>6, <1>7, <1>8, <1>9 DEF Next

\* Every certificate any node ever assembled rests on published votes of a quorum.
THEOREM CertificatesBacked == Spec => []CertsBacked
<1>1. Init => TypeOK /\ CertsBacked
  BY TypeInit DEF Init, CertsBacked
<1>2. TypeOK /\ CertsBacked /\ [Next]_vars => TypeOK' /\ CertsBacked'
  BY TypeStep, BackedStep
<1> QED
  BY <1>1, <1>2, PTL DEF Spec

\* Two certificates of one height share an honest signer, who signed once.
LEMMA BackedAgree ==
    ASSUME Cardinality(Byzantine) <= max_byzantine(Cardinality(Validator)),
           SignedOncePerHeight, CertsBacked
    PROVE  CertificateAgreement
<1> SUFFICES ASSUME NEW c \in history, NEW d \in history, c.height = d.height
             PROVE  c.tuple = d.tuple
  BY DEF CertificateAgreement
<1>1. PICK Q \in SUBSET Validator :
        /\ Cardinality(Q) >= Quorum
        /\ \A v \in Q : [signer |-> v, height |-> c.height, tuple |-> c.tuple] \in signed
  BY DEF CertsBacked
<1>2. PICK R \in SUBSET Validator :
        /\ Cardinality(R) >= Quorum
        /\ \A v \in R : [signer |-> v, height |-> d.height, tuple |-> d.tuple] \in signed
  BY DEF CertsBacked
<1>3. PICK v \in Honest : v \in Q /\ v \in R
  BY <1>1, <1>2, VotesAssumption, HonestOverlap DEF Quorum, Honest
<1> DEFINE x == [signer |-> v, height |-> c.height, tuple |-> c.tuple]
           y == [signer |-> v, height |-> d.height, tuple |-> d.tuple]
<1>4. x \in signed /\ y \in signed
  BY <1>1, <1>2, <1>3
<1>5. x.signer = v /\ y.signer = v /\ x.height = y.height
  OBVIOUS
<1>6. x.tuple = y.tuple
  BY <1>3, <1>4, <1>5 DEF SignedOncePerHeight
<1> QED
  BY <1>6

\* With at most f Byzantine members of n = 3f + 1, no two nodes ever assemble
\* certificates for different tuples of one height, whichever votes reached each.
THEOREM Agreement ==
    ASSUME Cardinality(Byzantine) <= max_byzantine(Cardinality(Validator)),
           SpineVoting = TRUE, ReadErrors = FALSE
    PROVE  Spec => []CertificateAgreement
<1>1. Spec => []SignedOncePerHeight
  BY SignerNeverRepeats
<1>2. Spec => []CertsBacked
  BY CertificatesBacked
<1>3. SignedOncePerHeight /\ CertsBacked => CertificateAgreement
  BY BackedAgree
<1> QED
  BY <1>1, <1>2, <1>3, PTL

-----------------------------------------------------------------------------
(* What one observer retains.                                               *)

\* No certificate of a height is replaced by another.
OnePerHeight(C) == \A c, d \in C : c.height = d.height => c = d

\* Votes S, certificates C and u votes since the last pruning.
NodeInv(S, C, u) ==
    /\ IsFiniteSet(S) /\ Cardinality(S) <= MaxVotes + u /\ u < PruneEvery
    /\ OnePerHeight(C)
    /\ \A h \in Height : Certifiable(S, h) # {} => \E c \in C : c.height = h

ObserverInv == \A n \in Node : NodeInv(votes[n], certs[n], unpruned[n])

due(C, D, u) ==
    \/ retention_floor(D) # retention_floor(C)
    \/ D # C /\ C = {}
    \/ u + 1 >= PruneEvery

\* One vote counted: from S, C, u to T, D, w.
Counted(S, C, u, T, D, w) ==
    \E x \in Vote \ S : \E E \in try_assemble(S \union {x}, C, x.height) :
        /\ T = IF due(C, E, u) THEN prune(S \union {x}, E) ELSE S \union {x}
        /\ D = IF due(C, E, u) THEN {c \in E : c.height >= retention_floor(E)} ELSE E
        /\ w = IF due(C, E, u) THEN 0 ELSE u + 1

\* Heights are below u64::MAX, so a set of them has a highest.
LEMMA TopHeight ==
    ASSUME NEW S \in SUBSET Height, S # {}
    PROVE  Max(S) \in S /\ \A y \in S : y <= Max(S)
<1> DEFINE gap == {k \in Nat : MaxHeight - k \in S}
<1>1. MaxHeight \in Nat /\ \A y \in S : y \in Nat /\ y <= MaxHeight
  BY VotesAssumption
<1>2. \A y \in S : MaxHeight - y \in Nat /\ MaxHeight - (MaxHeight - y) = y
  BY <1>1
<1>3. gap \in SUBSET Nat /\ gap # {}
  BY <1>2
<1>4. PICK k \in gap : \A j \in gap : k <= j
  BY <1>3, LeastNatural
<1>5. MaxHeight - k \in S /\ k \in Nat
  BY <1>4
<1>6. ASSUME NEW y \in S PROVE MaxHeight - k >= y
  <2>1. MaxHeight - y \in gap /\ y \in Nat
    BY <1>1, <1>2
  <2>2. k <= MaxHeight - y
    BY <1>4, <2>1
  <2> QED
    BY <1>1, <1>5, <2>1, <2>2
<1>7. \E x \in S : \A y \in S : x >= y
  BY <1>5, <1>6
<1>8. Max(S) \in S /\ \A y \in S : Max(S) >= y
  BY <1>7 DEF Max
<1> QED
  BY <1>1, <1>8

\* The finalized height is that of a certificate and none is above it.
LEMMA FinalizedTop ==
    ASSUME NEW C, C \subseteq Cert
    PROVE  /\ finalized_height(C) \in Nat
           /\ \A c \in C : c.height \in Nat /\ c.height <= finalized_height(C)
           /\ C # {} => \E c \in C : c.height = finalized_height(C)
           /\ retention_floor(C) \in Nat /\ retention_floor(C) <= finalized_height(C)
<1> DEFINE H == {c.height : c \in C}
           top == finalized_height(C)
<1>1. H \in SUBSET Height /\ \A c \in C : c.height \in H
  BY DEF Cert
<1>2. RetentionHeights \in Nat /\ Height \subseteq Nat
  BY VotesAssumption
<1>3. /\ top \in Nat /\ \A c \in C : c.height \in Nat /\ c.height <= top
      /\ C # {} => \E c \in C : c.height = top
  <2>1. CASE C = {}
    BY <2>1 DEF finalized_height
  <2>2. CASE C # {}
    <3>1. H # {} /\ top = Max(H)
      BY <2>2 DEF finalized_height
    <3>2. top \in H /\ \A y \in H : y <= top
      BY <1>1, <3>1, TopHeight
    <3> HIDE DEF top
    <3> QED
      BY <1>1, <1>2, <3>2
  <2> QED
    BY <2>1, <2>2
<1>4. retention_floor(C) \in Nat /\ retention_floor(C) <= top
  BY <1>2, <1>3 DEF retention_floor
<1> QED
  BY <1>3, <1>4

\* Assembly adds at most one certificate, at a height that has none, and leaves
\* no certifiable height without one.
LEMMA Assembled ==
    ASSUME NEW S, NEW C, C \subseteq Cert, OnePerHeight(C), NEW h \in Height,
           NEW D \in try_assemble(S, C, h)
    PROVE  /\ C \subseteq D /\ D \subseteq Cert /\ OnePerHeight(D)
           /\ Certifiable(S, h) # {} => \E c \in D : c.height = h
<1>1. CASE D = C /\ (Certifiable(S, h) = {} \/ \E c \in C : c.height = h)
  BY <1>1
<1>2. CASE /\ \A c \in C : c.height # h
           /\ \E t \in Certifiable(S, h) : D = C \union {[height |-> h, tuple |-> t]}
  <2>1. PICK t \in Certifiable(S, h) : D = C \union {[height |-> h, tuple |-> t]}
    BY <1>2
  <2>2. t \in Tuple
    BY DEF Certifiable
  <2>3. D \subseteq Cert /\ C \subseteq D
    BY <2>1, <2>2 DEF Cert
  <2>4. OnePerHeight(D)
    BY <1>2, <2>1 DEF OnePerHeight
  <2>5. [height |-> h, tuple |-> t] \in D /\ [height |-> h, tuple |-> t].height = h
    BY <2>1
  <2> QED
    BY <2>3, <2>4, <2>5
<1> QED
  BY <1>1, <1>2 DEF try_assemble

\* The tally of a height looks at the votes of that height.
LEMMA SameCertifiable ==
    ASSUME NEW S, NEW T, NEW h,
           \A x : x.height = h => (x \in S <=> x \in T)
    PROVE  Certifiable(S, h) = Certifiable(T, h)
<1>1. \A v : Equivocates(S, v, h) <=> Equivocates(T, v, h)
  BY DEF Equivocates
<1>2. \A v, t : [signer |-> v, height |-> h, tuple |-> t] \in S
                   <=> [signer |-> v, height |-> h, tuple |-> t] \in T
  <2>1. \A v, t : [signer |-> v, height |-> h, tuple |-> t].height = h
    OBVIOUS
  <2> QED
    BY <2>1
<1>3. \A t : Tally(S, h, t) = Tally(T, h, t)
  BY <1>1, <1>2 DEF Tally
<1> QED
  BY <1>3 DEF Certifiable

\* Without votes of a height nothing is certified there: a quorum is not empty.
LEMMA NoVotesNothing ==
    ASSUME NEW S, NEW h, \A x \in S : x.height # h
    PROVE  Certifiable(S, h) = {}
<1> SUFFICES ASSUME NEW t \in Certifiable(S, h) PROVE FALSE
  OBVIOUS
<1>1. \A v : [signer |-> v, height |-> h, tuple |-> t] \notin S
  <2>1. \A v : [signer |-> v, height |-> h, tuple |-> t].height = h
    OBVIOUS
  <2> QED
    BY <2>1
<1>2. Tally(S, h, t) = {}
  BY <1>1 DEF Tally
<1>3. Cardinality({}) >= Quorum
  BY <1>2 DEF Certifiable
<1>4. Quorum \in Nat /\ Quorum > 0
  BY VotesAssumption, CommitteeSize DEF Quorum
<1> QED
  BY <1>3, <1>4, FS_EmptySet

\* Pruning keeps whole heights from the floor up, at most MaxVotes votes.
LEMMA Pruned ==
    ASSUME NEW S, S \subseteq Vote, IsFiniteSet(S), NEW C, C \subseteq Cert
    PROVE  LET T == prune(S, C)
           IN /\ T \subseteq S /\ IsFiniteSet(T) /\ Cardinality(T) <= MaxVotes
              /\ \A x \in T : x.height >= retention_floor(C)
              /\ \A x \in S, y \in T : x.height = y.height => x \in T
<1> DEFINE low == retention_floor(C)
           recent == {x \in S : x.height >= low}
           from(h) == {y \in recent : y.height >= h}
           T == prune(S, C)
<1>1. T = {x \in recent : Cardinality(from(x.height)) <= MaxVotes}
  BY DEF prune
<1>2. T \subseteq S /\ IsFiniteSet(T)
  <2>1. T \subseteq S
    BY <1>1
  <2> QED
    BY <2>1, FS_Subset
<1>3. \A x \in T : x.height >= low
  BY <1>1
<1>4. ASSUME NEW x \in S, NEW y \in T, x.height = y.height PROVE x \in T
  BY <1>1, <1>4
<1>5. Cardinality(T) <= MaxVotes
  <2>1. MaxVotes \in Nat /\ Height \subseteq Nat
    BY VotesAssumption
  <2>2. CASE T = {}
    BY <2>1, <2>2, FS_EmptySet
  <2>3. CASE T # {}
    <3> DEFINE H == {x.height : x \in T}
    <3>1. H \in SUBSET Nat /\ H # {}
      BY <1>2, <2>1, <2>3 DEF Vote
    <3>2. PICK h \in H : \A k \in H : h <= k
      BY <3>1, LeastNatural
    <3>3. PICK x \in T : h = x.height
      OBVIOUS
    <3>4. \A y \in T : y.height \in Nat /\ y.height >= h /\ y \in recent
      <4>1. \A y \in T : y.height \in H /\ y \in recent
        BY <1>1
      <4> HIDE DEF H
      <4>2. \A k \in H : k \in Nat /\ k >= h
        BY <3>1, <3>2
      <4> QED
        BY <4>1, <4>2
    <3>5. T \subseteq from(h)
      BY <3>4
    <3>6. Cardinality(from(h)) <= MaxVotes
      BY <1>1, <3>3
    <3>7. IsFiniteSet(from(h))
      <4>1. from(h) \subseteq S
        OBVIOUS
      <4> QED
        BY <4>1, FS_Subset
    <3> HIDE DEF from, T
    <3>8. Cardinality(T) <= Cardinality(from(h)) /\ Cardinality(from(h)) \in Nat /\ Cardinality(T) \in Nat
      BY <1>2, <3>5, <3>7, FS_Subset, FS_CardinalityType
    <3> QED
      BY <2>1, <3>6, <3>8
  <2> QED
    BY <2>2, <2>3
<1> QED
  BY <1>2, <1>3, <1>4, <1>5

\* Counting a vote keeps what is retained bounded and certified.
LEMMA CountedKeeps ==
    ASSUME NEW S, S \subseteq Vote, NEW C, C \subseteq Cert, NEW u \in Nat,
           NodeInv(S, C, u), NEW T, NEW D, NEW w, Counted(S, C, u, T, D, w)
    PROVE  /\ NodeInv(T, D, w)
           /\ finalized_height(D) >= finalized_height(C)
           /\ \A c \in C, d \in D : c.height = d.height => c = d
<1>1. PICK x \in Vote \ S :
         \E E \in try_assemble(S \union {x}, C, x.height) :
            /\ T = IF due(C, E, u) THEN prune(S \union {x}, E) ELSE S \union {x}
            /\ D = IF due(C, E, u) THEN {c \in E : c.height >= retention_floor(E)} ELSE E
            /\ w = IF due(C, E, u) THEN 0 ELSE u + 1
  BY DEF Counted
<1> DEFINE held == S \union {x}
<1>2. PICK E \in try_assemble(held, C, x.height) :
            /\ T = IF due(C, E, u) THEN prune(held, E) ELSE held
            /\ D = IF due(C, E, u) THEN {c \in E : c.height >= retention_floor(E)} ELSE E
            /\ w = IF due(C, E, u) THEN 0 ELSE u + 1
  BY <1>1
<1>3. /\ IsFiniteSet(S) /\ Cardinality(S) <= MaxVotes + u /\ u < PruneEvery
      /\ OnePerHeight(C)
      /\ \A h \in Height : Certifiable(S, h) # {} => \E c \in C : c.height = h
  BY DEF NodeInv
<1>4. x \in Vote /\ x \notin S /\ x.height \in Height /\ held \subseteq Vote
  BY <1>1 DEF Vote
<1>5. MaxVotes \in Nat /\ PruneEvery \in Nat /\ 0 < PruneEvery /\ Height \subseteq Nat
  BY VotesAssumption
<1>6. /\ C \subseteq E /\ E \subseteq Cert /\ OnePerHeight(E)
      /\ Certifiable(held, x.height) # {} => \E c \in E : c.height = x.height
  BY <1>3, <1>4, Assembled
<1>7. IsFiniteSet(held) /\ Cardinality(held) <= MaxVotes + (u + 1)
  <2>1. IsFiniteSet(held) /\ Cardinality(held) = Cardinality(S) + 1
    BY <1>3, <1>4, FS_AddElement
  <2>2. Cardinality(S) \in Nat
    BY <1>3, FS_CardinalityType
  <2> QED
    BY <1>3, <1>5, <2>1, <2>2
<1>8. \A h \in Height : Certifiable(held, h) # {} => \E c \in E : c.height = h
  <2> SUFFICES ASSUME NEW h \in Height, h # x.height, Certifiable(held, h) # {}
               PROVE  \E c \in E : c.height = h
    BY <1>6
  <2>1. Certifiable(S, h) = Certifiable(held, h)
    <3>1. \A y : y.height = h => (y \in S <=> y \in held)
      OBVIOUS
    <3> QED
      BY <3>1, SameCertifiable
  <2> QED
    BY <1>3, <1>6, <2>1
<1> DEFINE low == retention_floor(E)
<1>9. /\ low \in Nat /\ low <= finalized_height(E) /\ finalized_height(E) \in Nat
      /\ \A c \in E : c.height \in Nat /\ c.height <= finalized_height(E)
      /\ E # {} => \E c \in E : c.height = finalized_height(E)
  BY <1>6, FinalizedTop
<1> HIDE DEF held, low
<1>10. D \subseteq E /\ (due(C, E, u) => D = {c \in E : c.height >= low})
  BY <1>2 DEF low
<1>11. \A c \in C, d \in D : c.height = d.height => c = d
  BY <1>6, <1>10 DEF OnePerHeight
<1>12. finalized_height(D) >= finalized_height(C)
  <2>1. /\ finalized_height(C) \in Nat /\ finalized_height(D) \in Nat
        /\ \A d \in D : d.height <= finalized_height(D)
        /\ C # {} => \E c \in C : c.height = finalized_height(C)
    <3>1. D \subseteq Cert
      BY <1>6, <1>10
    <3> QED
      BY <3>1, FinalizedTop
  <2>2. CASE C = {}
    BY <2>1, <2>2 DEF finalized_height
  <2>3. CASE C # {}
    <3>1. PICK c \in C : c.height = finalized_height(C)
      BY <2>1, <2>3
    <3>2. c \in E /\ c.height <= finalized_height(E)
      BY <1>6, <1>9, <3>1
    <3>3. PICK e \in E : e.height = finalized_height(E)
      BY <1>9, <3>2
    <3>4. e \in D
      BY <1>2, <1>9, <1>10, <3>3
    <3>5. finalized_height(E) <= finalized_height(D)
      BY <2>1, <3>3, <3>4
    <3> QED
      BY <1>9, <2>1, <3>1, <3>2, <3>5
  <2> QED
    BY <2>2, <2>3
<1>13. OnePerHeight(D)
  BY <1>6, <1>10 DEF OnePerHeight
<1>14. CASE ~due(C, E, u)
  <2>1. T = held /\ D = E /\ w = u + 1 /\ w < PruneEvery
    BY <1>2, <1>5, <1>14 DEF due
  <2> QED
    BY <1>7, <1>8, <1>11, <1>12, <1>13, <2>1 DEF NodeInv
<1>15. CASE due(C, E, u)
  <2>1. T = prune(held, E) /\ w = 0
    BY <1>2, <1>15
  <2>2. /\ T \subseteq held /\ IsFiniteSet(T) /\ Cardinality(T) <= MaxVotes
        /\ \A y \in T : y.height >= low
        /\ \A y \in held, z \in T : y.height = z.height => y \in T
    BY <1>4, <1>6, <1>7, <2>1, Pruned DEF held, low
  <2>3. ASSUME NEW h \in Height, Certifiable(T, h) # {}
        PROVE  \E c \in D : c.height = h
    <3>1. PICK z \in T : z.height = h
      BY <2>3, NoVotesNothing
    <3>2. Certifiable(T, h) = Certifiable(held, h)
      <4>1. \A y : y.height = h => (y \in T <=> y \in held)
        BY <2>2, <3>1
      <4> QED
        BY <4>1, SameCertifiable
    <3>3. PICK c \in E : c.height = h
      BY <1>8, <2>3, <3>2
    <3>4. c \in D
      BY <1>10, <1>15, <2>2, <3>1, <3>3
    <3> QED
      BY <3>3, <3>4
  <2>4. Cardinality(T) <= MaxVotes + w /\ w < PruneEvery
    BY <1>5, <2>1, <2>2
  <2> QED
    BY <1>11, <1>12, <1>13, <2>2, <2>3, <2>4 DEF NodeInv
<1> QED
  BY <1>14, <1>15

\* What a step does to the observer of one node: nothing, a vote counted, or a
\* crash.
LEMMA ObserverMoves ==
    ASSUME TypeOK, Next, NEW n \in Node
    PROVE  \/ votes'[n] = votes[n] /\ certs'[n] = certs[n] /\ unpruned'[n] = unpruned[n]
           \/ Counted(votes[n], certs[n], unpruned[n], votes'[n], certs'[n], unpruned'[n])
           \/ votes'[n] = {} /\ certs'[n] = {} /\ unpruned'[n] = 0 /\ up'[n] = FALSE
<1>0. /\ votes \in [Node -> SUBSET signed] /\ certs \in [Node -> SUBSET Cert]
      /\ unpruned \in [Node -> Nat] /\ outbox \in [Honest -> SUBSET Vote] /\ signed \subseteq Vote
      /\ up \in [Process -> BOOLEAN]
  BY DEF TypeOK
<1> DEFINE Same == votes'[n] = votes[n] /\ certs'[n] = certs[n] /\ unpruned'[n] = unpruned[n]
           Count == Counted(votes[n], certs[n], unpruned[n], votes'[n], certs'[n], unpruned'[n])
<1>1. ASSUME UNCHANGED observers PROVE Same
  BY <1>1 DEF observers
<1>2. ASSUME NEW m \in Node, NEW x \in Vote, observe(m, x) PROVE Same \/ Count
  <2>1. CASE UNCHANGED observers
    BY <1>1, <2>1
  <2>2. CASE ~UNCHANGED observers
    <3> DEFINE S == votes[m]
               C == certs[m]
    <3>0. ~Refused(m, x)
      BY <1>2, <2>2, Zenon DEF observe
    <3>1. PICK E \in try_assemble(S \union {x}, C, x.height) :
               /\ votes' = [votes EXCEPT ![m] =
                     IF due(C, E, unpruned[m]) THEN prune(S \union {x}, E) ELSE S \union {x}]
               /\ certs' = [certs EXCEPT ![m] =
                     IF due(C, E, unpruned[m])
                     THEN {c \in E : c.height >= retention_floor(E)} ELSE E]
               /\ unpruned' = [unpruned EXCEPT ![m] =
                     IF due(C, E, unpruned[m]) THEN 0 ELSE @ + 1]
      BY <1>2, <2>2 DEF observe, due
    <3>2. x \in Vote \ S
      BY <3>0 DEF Refused
    <3>3. CASE n # m
      BY <1>0, <3>1, <3>3
    <3>4. CASE n = m
      <4>1. \E D \in try_assemble(S \union {x}, C, x.height) :
               /\ votes'[n] = IF due(C, D, unpruned[n]) THEN prune(S \union {x}, D) ELSE S \union {x}
               /\ certs'[n] = IF due(C, D, unpruned[n])
                              THEN {c \in D : c.height >= retention_floor(D)} ELSE D
               /\ unpruned'[n] = IF due(C, D, unpruned[n]) THEN 0 ELSE unpruned[n] + 1
        BY <1>0, <3>1, <3>4
      <4> QED
        BY <3>2, <3>4, <4>1 DEF Counted
    <3> QED
      BY <3>3, <3>4
  <2> QED
    BY <2>1, <2>2
<1> HIDE DEF Same, Count
<1>3. ASSUME NEW v \in Honest, NEW h \in Height, NEW t \in Tuple, RecordVote(v, h, t) PROVE Same
  BY <1>1, <1>3 DEF RecordVote
<1>4. ASSUME NEW v \in Honest, PublishVote(v) PROVE Same \/ Count
  <2>1. PICK x \in outbox[v] : IF v \in Node THEN observe(v, x) ELSE UNCHANGED observers
    BY <1>4 DEF PublishVote
  <2>2. x \in Vote
    BY <1>0
  <2> QED
    BY <1>1, <1>2, <2>1, <2>2
<1>5. ASSUME NEW v \in Honest, NEW h \in Height, NEW t \in Tuple, on_block(v, h, t)
      PROVE  Same \/ Count
  <2> DEFINE x == [signer |-> v, height |-> h, tuple |-> t]
  <2>1. IF v \in Node THEN observe(v, x) ELSE UNCHANGED observers
    BY <1>5 DEF on_block
  <2>2. x \in Vote
    BY DEF Vote, Honest
  <2> HIDE DEF x
  <2> QED
    BY <1>1, <1>2, <2>1, <2>2
<1>6. ASSUME NEW v \in Byzantine \union Outsider, NEW h \in Height, NEW t \in Tuple,
             RogueVote(v, h, t)
      PROVE  Same
  BY <1>1, <1>6 DEF RogueVote
<1>7. ASSUME NEW m \in Node, NEW x \in signed, on_gossip(m, x) PROVE Same \/ Count
  BY <1>0, <1>2, <1>7 DEF on_gossip
<1>8. ASSUME NEW p \in Process, Crash(p)
      PROVE  Same \/ (votes'[n] = {} /\ certs'[n] = {} /\ unpruned'[n] = 0 /\ up'[n] = FALSE)
  <2>1. CASE p \notin Node
    BY <1>8, <2>1 DEF Crash, Same
  <2>2. CASE p \in Node /\ p # n
    BY <1>0, <1>8, <2>2 DEF Crash, Same
  <2>3. CASE p = n
    BY <1>0, <1>8, <2>3 DEF Crash
  <2> QED
    BY <2>1, <2>2, <2>3
<1>9. ASSUME NEW p \in Process, Restart(p) PROVE Same
  BY <1>1, <1>9 DEF Restart
<1>10. ASSUME NEW v \in Honest, Damage(v) PROVE Same
  BY <1>1, <1>10 DEF Damage
<1> QED
  BY <1>3, <1>4, <1>5, <1>6, <1>7, <1>8, <1>9, <1>10 DEF Next, Same, Count

LEMMA NothingRetained == NodeInv({}, {}, 0)
<1>1. \A h : Certifiable({}, h) = {}
  BY NoVotesNothing
<1> QED
  BY <1>1, VotesAssumption, FS_EmptySet DEF NodeInv, OnePerHeight

LEMMA ObserverInit == Init => ObserverInv
<1> QED
  BY NothingRetained DEF Init, ObserverInv

\* What a running node has certified stands.
Stands(n) ==
    /\ finalized_height(certs'[n]) >= finalized_height(certs[n])
    /\ \A c \in certs[n], d \in certs'[n] : c.height = d.height => c = d

LEMMA ObserverKept ==
    ASSUME TypeOK, ObserverInv, [Next]_vars
    PROVE  /\ ObserverInv'
           /\ \A n \in Node : up[n] /\ up'[n] => Stands(n)
<1>0. /\ votes \in [Node -> SUBSET signed] /\ certs \in [Node -> SUBSET Cert]
      /\ unpruned \in [Node -> Nat] /\ signed \subseteq Vote
  BY DEF TypeOK
<1> SUFFICES ASSUME NEW n \in Node
             PROVE  /\ NodeInv(votes'[n], certs'[n], unpruned'[n])
                    /\ up[n] /\ up'[n] => Stands(n)
  BY DEF ObserverInv, NodeInv, Certifiable, Tally, Equivocates, OnePerHeight
<1>1. /\ votes[n] \subseteq Vote /\ certs[n] \subseteq Cert /\ unpruned[n] \in Nat
      /\ NodeInv(votes[n], certs[n], unpruned[n])
  BY <1>0 DEF ObserverInv
<1>2. CASE votes'[n] = votes[n] /\ certs'[n] = certs[n] /\ unpruned'[n] = unpruned[n]
  <2>1. finalized_height(certs[n]) \in Nat /\ OnePerHeight(certs[n])
    BY <1>1, FinalizedTop DEF NodeInv
  <2>2. Stands(n)
    BY <1>2, <2>1 DEF Stands, OnePerHeight
  <2> QED
    BY <1>1, <1>2, <2>2
<1>3. CASE Counted(votes[n], certs[n], unpruned[n], votes'[n], certs'[n], unpruned'[n])
  <2>1. /\ NodeInv(votes'[n], certs'[n], unpruned'[n])
        /\ finalized_height(certs'[n]) >= finalized_height(certs[n])
        /\ \A c \in certs[n], d \in certs'[n] : c.height = d.height => c = d
    BY <1>1, <1>3, CountedKeeps
  <2> QED
    BY <2>1 DEF Stands
<1>4. CASE votes'[n] = {} /\ certs'[n] = {} /\ unpruned'[n] = 0 /\ up'[n] = FALSE
  BY <1>4, NothingRetained
<1> QED
  BY <1>2, <1>3, <1>4, ObserverMoves DEF vars, observers

LEMMA SpecObserver == Spec => [](TypeOK /\ ObserverInv)
<1> QED
  BY TypeInit, TypeStep, ObserverInit, ObserverKept, PTL DEF Spec

\* A node never sits on a quorum: whatever was pruned or lost, when the votes it
\* retains certify a tuple it holds a certificate of that height.
THEOREM NoQuorumUnused == Spec => []NoMissedCertificate
<1>1. ObserverInv => NoMissedCertificate
  BY DEF ObserverInv, NodeInv, NoMissedCertificate
<1> QED
  BY <1>1, SpecObserver, PTL

\* A node never retains more than the cap and one pruning stride, whoever floods
\* it with votes.
THEOREM FloodBounded == Spec => []RetainedBounded
<1>1. TypeOK /\ ObserverInv => RetainedBounded
  <2> SUFFICES ASSUME TypeOK, ObserverInv, NEW n \in Node
               PROVE  Cardinality(votes[n]) < MaxVotes + PruneEvery
    BY DEF RetainedBounded
  <2>1. /\ Cardinality(votes[n]) <= MaxVotes + unpruned[n] /\ unpruned[n] < PruneEvery
        /\ unpruned[n] \in Nat /\ IsFiniteSet(votes[n])
    BY DEF ObserverInv, NodeInv, TypeOK
  <2>2. Cardinality(votes[n]) \in Nat /\ MaxVotes \in Nat /\ PruneEvery \in Nat
    BY <2>1, VotesAssumption, FS_CardinalityType
  <2> QED
    BY <2>1, <2>2
<1> QED
  BY <1>1, SpecObserver, PTL

\* While a node runs its finalized height never goes down, and a certificate it
\* still keeps is never replaced, whatever is pruned around it.
THEOREM RunningNodesNeverGoBack == Spec => CertificatesStand
<1>1. TypeOK /\ ObserverInv /\ [Next]_vars
         => [\A n \in Node : up[n] /\ up'[n] =>
               /\ finalized_height(certs'[n]) >= finalized_height(certs[n])
               /\ \A c \in certs[n], d \in certs'[n] : c.height = d.height => c = d]_vars
  BY ObserverKept DEF Stands
<1> QED
  BY <1>1, SpecObserver, PTL DEF Spec, CertificatesStand

=============================================================================
