----------------------------- MODULE MCRoleCache -----------------------------
(* RoleCache on a small instance. *)
EXTENDS RoleCache, TLC
=============================================================================
