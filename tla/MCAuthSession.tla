--------------------------- MODULE MCAuthSession ----------------------------
(* AuthSession on small instances.  Requests may be permuted.                *)
EXTENDS AuthSession, TLC

Symmetry == Permutations(Requests)
=============================================================================
