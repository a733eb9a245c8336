------------------------------ MODULE MCLogin ------------------------------
(* Instances of Login: one player name and a blank one.                     *)
EXTENDS Login, TLC

CONSTANTS Steve, blank, p1

MCPlayerOf == [n \in Names |-> IF n = Steve THEN p1 ELSE NoPlayer]

\* Connections are interchangeable: each is used once, by any client.
Symmetry == Permutations(Conns)
=============================================================================
