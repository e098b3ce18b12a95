----------------------------- MODULE MCRollback -----------------------------
(* Model-checking instance of Rollback. *)
EXTENDS Rollback
=============================================================================
