----------------------------- MODULE MCAccounts -----------------------------
(* Accounts on small instances.  Requests may be permuted.                   *)
EXTENDS Accounts, TLC

Symmetry == Permutations(Requests)
=============================================================================
