----------------------------- MODULE MCUserLock -----------------------------
(* Two processes on one database: a and b share a pool of two connections,  *)
(* c and d one of four.                                                     *)
EXTENDS UserLock, TLC

CONSTANTS a, b, c, d, api, worker, u1, u2

MCPoolOf == (a :> api) @@ (b :> api) @@ (c :> worker) @@ (d :> worker)
MCUserOf == (a :> u1) @@ (b :> u2) @@ (c :> u1) @@ (d :> u2)
MCMaxConns == (api :> 2) @@ (worker :> 4)
=============================================================================
