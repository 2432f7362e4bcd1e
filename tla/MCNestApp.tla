----------------------------- MODULE MCNestApp -----------------------------
(* A small instance of NestApp for TLC: a request that names a tenant and  *)
(* one that does not, a job for another tenant, and a warm() of both       *)
(* tenants, one of them twice, that two workers share; one slot for all.   *)
EXTENDS CreationTimeout, TLC

CONSTANTS r0, r1, j1, w1, w2, w3, ka, kb, p1, p2

AppRequests  == {r0, r1}
AppJobs      == {j1}
AppWarmCalls == {w1, w2, w3}
AppCalls     == {r1, j1, w1, w2, w3}
AppKeys      == {ka, kb}
AppWorkers   == {p1, p2}
AppKeyOf == r1 :> ka @@ j1 :> kb @@ w1 :> ka @@ w2 :> ka @@ w3 :> kb
=============================================================================
