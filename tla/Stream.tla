------------------------------- MODULE Stream -------------------------------
(***************************************************************************)
(* What one direction of a TCP session promises: the bytes that come out   *)
(* are a prefix of those that went in, in their order, none twice, and     *)
(* what has come out stays.                                                *)
(***************************************************************************)
EXTENDS Sequences, Naturals

VARIABLES in, out

vars == <<in, out>>

Init == in = << >> /\ out = << >>

Enter ==
    /\ Len(in') = Len(in) + 1
    /\ SubSeq(in', 1, Len(in)) = in
    /\ UNCHANGED out

Leave ==
    /\ \E n \in (Len(out) + 1)..Len(in) : out' = SubSeq(in, 1, n)
    /\ UNCHANGED in

Spec == Init /\ [][Enter \/ Leave]_vars
=============================================================================
