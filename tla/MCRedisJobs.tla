---------------------------- MODULE MCRedisJobs -----------------------------
(* RedisJobs on small instances.                                             *)
EXTENDS RedisJobs, TLC

Symmetry == Permutations(Jobs) \cup Permutations(Workers)
=============================================================================
