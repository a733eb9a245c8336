------------------------------ MODULE MCGuard ------------------------------
(* Guard with its constants given in the .cfg files; ASSUMEs evaluated here. *)
EXTENDS Guard
=============================================================================
