--------------------------- MODULE MCFinalityVotes ---------------------------
(* Small committees for FinalityVotes.                                       *)
EXTENDS FinalityVotes, TLC

CONSTANTS v1, v2, v3, v4, follower, stranger, blockA, blockB

\* Tuples are interchangeable, and so are the validators that neither crash nor
\* run a followed observer.
PlainSymmetry ==
    Permutations(Tuple) \union Permutations(Honest \ (Node \union CrashProne))
=============================================================================
