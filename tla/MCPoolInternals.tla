--------------------------- MODULE MCPoolInternals ---------------------------
(* Instances of PoolInternals for TLC, on the calls and keys of MCRefPool.  *)
EXTENDS PoolInternals, MCRefPool
=============================================================================
