------------------------------ MODULE FinalChain ------------------------------
(***************************************************************************)
(* What finality promises the nodes of sigil-node: there is one chain of    *)
(* final blocks, it only grows, and what a node settles is on it and is     *)
(* never taken back.                                                        *)
(***************************************************************************)
CONSTANTS
    Block,  \* block hashes
    Root,   \* the genesis block
    Chain,  \* Block -> its ancestors by the parent walk, itself included
    Node    \* the nodes that settle

VARIABLES
    final,  \* the blocks that are final
    settled \* each node's settled tip

vars == <<final, settled>>

OneBranch(S) == \A a, b \in S : a \in Chain[b] \/ b \in Chain[a]

Init ==
    /\ final = {Root}
    /\ settled = [v \in Node |-> Root]

\* Blocks become final and one node settles up to a final block.
Advance(v, b) ==
    /\ final' \in SUBSET Block
    /\ final \subseteq final' /\ OneBranch(final')
    /\ settled[v] \in Chain[b] /\ b \in final'
    /\ settled' = [settled EXCEPT ![v] = b]

Next == \E v \in Node, b \in Block : Advance(v, b)

Spec == Init /\ [][Next]_vars

\* Any two nodes have settled chains of which one extends the other.
SettledAgree == \A v, w \in Node : OneBranch({settled[v], settled[w]})

=============================================================================
