----------------------------- MODULE MCAccounts ------------------------------
(* Accounts on small instances. *)
EXTENDS Accounts, TLC

RequestSymmetry == Permutations(Requests)
=============================================================================
