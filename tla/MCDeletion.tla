----------------------------- MODULE MCDeletion -----------------------------
(* Instances of Deletion. *)
EXTENDS Deletion
=============================================================================
