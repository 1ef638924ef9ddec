------------------------------- MODULE MCBraid -------------------------------
(* Small block DAGs for Braid.  Hash 1 is the trusted base at height 0.      *)
EXTENDS Braid

Blk(p, m, h, w) == [parent |-> p, merge |-> m, height |-> h, producer |-> w]

Base == 1 :> 0

\* Two strands from the base, 2 4 8 and 3 5 7, and a third producer's block 6, that
\* merges 9 and waits for it while the others go on.
Delayed ==
    2 :> Blk(1, <<>>, 1, 1) @@ 4 :> Blk(2, <<>>, 2, 1) @@ 8 :> Blk(4, <<>>, 3, 1) @@
    3 :> Blk(1, <<>>, 1, 2) @@ 5 :> Blk(3, <<>>, 2, 2) @@ 7 :> Blk(5, <<>>, 3, 2) @@
    9 :> Blk(1, <<>>, 1, 3) @@ 6 :> Blk(2, <<9>>, 2, 3)
DelayedBlocks == DOMAIN Delayed

\* Two strands that merge each other's blocks at heights 2 and 3.
Crossed ==
    2 :> Blk(1, <<>>, 1, 1) @@ 3 :> Blk(1, <<>>, 1, 2) @@
    4 :> Blk(2, <<3>>, 2, 1) @@ 5 :> Blk(3, <<>>, 2, 2) @@
    6 :> Blk(4, <<>>, 3, 1) @@ 7 :> Blk(5, <<4>>, 3, 2) @@
    8 :> Blk(6, <<7>>, 4, 1)
CrossedBlocks == DOMAIN Crossed
=============================================================================
