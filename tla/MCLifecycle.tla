---------------------------- MODULE MCLifecycle ----------------------------
(* An instance of Lifecycle: one connection, few bytes.                     *)
EXTENDS Lifecycle

FewBytes == [client |-> 1, backend |-> 2]
=============================================================================
