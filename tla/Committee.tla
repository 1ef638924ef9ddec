------------------------------ MODULE Committee ------------------------------
(* Committee arithmetic of crates/sigil-braidpool/src/committee.rs.          *)
EXTENDS Integers

\* Byzantine members a committee of n tolerates, n = 3f + 1.
max_byzantine(n) == IF n = 0 THEN 0 ELSE (n - 1) \div 3

\* Mutated form: f + 1 votes certify.
availability_quorum_FPlusOne(n) == max_byzantine(n) + 1

\* Votes that certify: n - f.
availability_quorum(n) == n - max_byzantine(n)

=============================================================================
