---------------------------- MODULE MCNativePath ----------------------------
(* Model-checking instance of NativePath: up to three processes on two     *)
(* state roots, and one or two disturbances per workload.                  *)
EXTENDS NativePath, TLC

CONSTANTS p1, p2, p3, r1, r2

Workload(o1, o2, o3, prepared, lossy, disturb) ==
    [ops |-> p1 :> o1 @@ p2 :> o2 @@ p3 :> o3,
     roots |-> p1 :> r1 @@ p2 :> r1 @@ p3 :> r1,
     leases |-> p1 :> None @@ p2 :> None @@ p3 :> None,
     prepared |-> prepared, lossy |-> lossy, differs |-> {}, env |-> disturb]

OnTwoRoots(w) == [w EXCEPT !.roots = p1 :> r1 @@ p2 :> r2 @@ p3 :> r2]
Carriers(l1, l2) ==
    [Workload("carry", "carry", "prepare", FALSE, TRUE, [crash |-> 1, damage |-> 1, again |-> 1])
        EXCEPT !.leases = p1 :> l1 @@ p2 :> l2 @@ p3 :> None]

(* A request that differs in one facet, prepared and run both ways.        *)
Differing ==
    {[Workload(a, b, "write", a = "local", FALSE, [again |-> 1]) EXCEPT !.differs = {f}] :
        a \in {"execute", "local"}, b \in {"prepare", "off"}, f \in Facets}

MCWorkloads ==
    Differing \cup
    { \* remote execution, reconciled, against each disturbance
      Workload("execute", "reconcile", "off", FALSE, TRUE, [crash |-> 1]),
      Workload("execute", "reconcile", "off", TRUE, FALSE, [crash |-> 1, cancel |-> 1, again |-> 1]),
      Workload("execute", "reconcile", "off", TRUE, FALSE, [crash |-> 1, revoke |-> 1, again |-> 1]),
      Workload("execute", "reconcile", "off", TRUE, FALSE, [controller |-> 1, cancelAttempt |-> 1, again |-> 1]),
      Workload("execute", "reconcile", "off", TRUE, FALSE, [lapse |-> 1, damage |-> 1]),
      \* two executors, on one root and on two
      Workload("execute", "execute", "reconcile", TRUE, FALSE, [crash |-> 1]),
      OnTwoRoots(Workload("execute", "execute", "reconcile", TRUE, FALSE, [controller |-> 1])),
      \* a Ray job submitted twice
      Workload("ray", "ray", "driver", TRUE, TRUE, [crash |-> 1]),
      \* local execution, reconciled while it runs, and against a remote one
      Workload("local", "localreconcile", "write", FALSE, TRUE, [crash |-> 1]),
      Workload("local", "localreconcile", "local", TRUE, FALSE, [cancel |-> 1, crash |-> 1]),
      Workload("local", "localreconcile", "off", TRUE, FALSE, [cancelAttempt |-> 1, lapse |-> 1, again |-> 1]),
      Workload("local", "localreconcile", "off", TRUE, TRUE, [revoke |-> 1, crash |-> 1]),
      OnTwoRoots(Workload("local", "execute", "off", TRUE, FALSE, [crash |-> 1])),
      \* one transfer, carried for one lease and for two
      Carriers("l1", "l2"), Carriers("l1", "l1") }
=============================================================================
