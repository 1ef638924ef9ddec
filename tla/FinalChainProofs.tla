--------------------------- MODULE FinalChainProofs ---------------------------
(* What a FinalChain promises, for any nodes and blocks.                     *)
EXTENDS FinalChain, TLAPS

\* The final blocks are one branch and hold what each node settled.
ChainInv ==
    /\ OneBranch(final)
    /\ settled \in [Node -> final]

\* Any two nodes have settled one chain or a part of it, whenever each of them settled:
\* dag_drain_apply on one node never contradicts what it applied on another.
THEOREM NodesAgree ==
    ASSUME Root \in Chain[Root]
    PROVE  Spec => []SettledAgree
<1>1. Init => ChainInv
  BY DEF Init, ChainInv, OneBranch
<1>2. ChainInv /\ [Next]_vars => ChainInv'
  <2> SUFFICES ASSUME ChainInv, [Next]_vars
               PROVE  ChainInv'
    OBVIOUS
  <2>1. ASSUME NEW v \in Node, NEW b \in Block, Advance(v, b)
        PROVE  ChainInv'
    <3>1. final \subseteq final' /\ b \in final' /\ settled' = [settled EXCEPT ![v] = b]
      BY <2>1 DEF Advance
    <3>2. OneBranch(final')
      BY <2>1 DEF Advance
    <3>3. settled' \in [Node -> final']
      BY <3>1 DEF ChainInv
    <3> QED
      BY <3>2, <3>3 DEF ChainInv, OneBranch
  <2>2. CASE UNCHANGED vars
    BY <2>2 DEF vars, ChainInv, OneBranch
  <2> QED
    BY <2>1, <2>2 DEF Next
<1>3. ChainInv => SettledAgree
  BY DEF ChainInv, SettledAgree, OneBranch
<1> QED
  BY <1>1, <1>2, <1>3, PTL DEF Spec

=============================================================================
