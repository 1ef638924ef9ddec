---------------------------- MODULE MCSpineFinality ----------------------------
(* Small forks for SpineFinality.  Block 1 is the root.                      *)
EXTENDS SpineFinality, TLC

CONSTANTS v1, v2, v3, v4

\* Two strands: 2 4 and 3 5 7.
ForkChain ==
    1 :> {1} @@ 2 :> {1, 2} @@ 4 :> {1, 2, 4} @@
    3 :> {1, 3} @@ 5 :> {1, 3, 5} @@ 7 :> {1, 3, 5, 7}
ForkHeight == 1 :> 0 @@ 2 :> 1 @@ 4 :> 2 @@ 3 :> 1 @@ 5 :> 2 @@ 7 :> 3
ForkBlocks == DOMAIN ForkHeight

\* Honest validators that neither mint nor restart are interchangeable.
PlainSymmetry == Permutations(Honest \ (Producer \union CrashProne))
=============================================================================
