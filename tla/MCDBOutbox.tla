----------------------------- MODULE MCDBOutbox -----------------------------
(* DBOutbox on small instances.                                            *)
EXTENDS DBOutbox
=============================================================================
