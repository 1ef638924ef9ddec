------------------------------ MODULE MCFollower ------------------------------
(* Instances of Follower for TLC. *)
EXTENDS Follower

AllDamages == {"cut", "headless", "index"}
NoDamage == {}

Scenario(h, r, s, n, m, lag) ==
    [height |-> h, rewinds |-> r, stops |-> s, answers |-> n, records |-> m, laggards |-> lag]

\* Two stops of any kind around a rewind.
Stops == {Scenario(2, 1, 2, 1, 1, FALSE)}

\* As many late answers as mismatches that roll back, and peers that stay behind;
\* two rewinds; a fork deep enough for blocks to wait above the tip; a stop with a
\* braid that settles around it; two stops.
Followers == {Scenario(2, 1, 0, 3, 3, TRUE), Scenario(2, 2, 0, 2, 2, FALSE),
              Scenario(3, 1, 0, 1, 2, FALSE), Scenario(2, 1, 1, 1, 3, FALSE)} \union Stops

\* For what Follower lists as not kept: late answers only, three of them; three
\* stops around a rewind, without a braid that settles.
LateAnswers == {Scenario(3, 1, 0, 3, 4, FALSE)}
Reboots == {Scenario(3, 1, 3, 1, 1, FALSE)}
=============================================================================
