--------------------------- MODULE MCWorkerPlane ---------------------------
(* TLC instance of WorkerPlane: two capable workers, a grant for each of     *)
(* them (one runs out while the clock still moves), two concurrent requests. *)
EXTENDS WorkerPlane, TLC

CONSTANTS w1, w2, g1, g2

MCGrantWorker == (g1 :> w1) @@ (g2 :> w2)
MCGrantExpiry == (g1 :> 2) @@ (g2 :> 3)

Symmetric == Permutations(Requests)

=============================================================================
