------------------------------ MODULE MCStatus ------------------------------
(* Instances of Status: one backend, asked under two protocol versions over  *)
(* a cached route and over one that turns the cache off.                     *)
EXTENDS Status, TLC

CONSTANTS b1, h1, h2, v1, v2

OneRequest == {[backend |-> b1, host |-> h1, proto |-> v1]}
CachedRequests == {[backend |-> b1, host |-> h1, proto |-> v] : v \in {v1, v2}}
AllRequests == CachedRequests \cup {[backend |-> b1, host |-> h2, proto |-> v1]}

\* The slots are interchangeable.
Symmetry == Permutations(Conns)
=============================================================================
