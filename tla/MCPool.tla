------------------------------- MODULE MCPool -------------------------------
(* An instance of Pool: the goroutines of a kind are interchangeable.       *)
EXTENDS Pool, TLC

Symmetry == Permutations(Queries) \cup Permutations(Refillers)
=============================================================================
