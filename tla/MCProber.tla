------------------------------ MODULE MCProber ------------------------------
(* Instances of Prober: one or two targets.                                 *)
EXTENDS Prober

CONSTANTS b1, b2

OneTarget == <<b1>>
TwoTargets == <<b1, b2>>
=============================================================================
