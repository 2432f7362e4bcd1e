----------------------------- MODULE MCListeners -----------------------------
(* Instances of Listeners for TLC, on the calls and keys of MCRefPool.      *)
EXTENDS Listeners, MCRefPool
=============================================================================
