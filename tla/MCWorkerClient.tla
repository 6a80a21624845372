--------------------------- MODULE MCWorkerClient ---------------------------
(* Model-checking instance of WorkerClient: two processes of one Worker,   *)
(* each runtime, and one to three disturbances per workload.               *)
EXTENDS WorkerClient

Calm == [drops |-> 0, faults |-> 0, recycle |-> 0, cancel |-> 0, revoke |-> 0, controller |-> 0, crash |-> 0]

Job(runtime, emits) ==
    [runtime |-> runtime, differs |-> {}, dirs |-> TRUE, emits |-> emits, child |-> FALSE, writes |-> <<>>,
     resume |-> "none", source |-> 0, loads |-> {}, token |-> TRUE, late |-> FALSE, cached |-> TRUE]

Workload(j, leftovers, e) == [job |-> j, leftovers |-> leftovers, env |-> e]

Runtimes == {"python-sandbox", "oci-container", "gpu-oci", "macos-mps"}
Old(index, adapter) == Checkpoint(index, index, "finite", adapter, "old")
New(index, step, loss, adapter) == Checkpoint(index, step, loss, adapter, "run")

(* Training jobs: one and two new checkpoints, none, a rewrite of an old   *)
(* one, bad steps and losses, an adapter that did not change.              *)
Writes ==
    {<<>>, <<New(2, 2, "finite", "b")>>, <<New(1, 1, "finite", "a")>>, <<New(2, 0, "finite", "b")>>,
     <<New(2, 2, "nan", "b")>>, <<New(1, 1, "finite", "a"), New(2, 2, "finite", "a")>>,
     <<New(2, 2, "finite", "a"), New(3, 3, "finite", "c")>>}

Trainings ==
    {Workload([Job(r, e) EXCEPT !.writes = w], old, Calm) :
        r \in {"gpu-oci", "macos-mps"}, e \in {"ok", "invalid"}, w \in Writes, old \in {{}, {Old(1, "a")}}}
    \cup {Workload([Job("gpu-oci", "ok") EXCEPT !.writes = <<New(2, 2, "finite", "b")>>, !.resume = m, !.source = 1,
                                                !.loads = loads], {Old(1, "a")}, Calm) :
            m \in {"full-checkpoint", "adapter-only"}, loads \in {{}, {"optimizer", "scheduler", "rng"}}}

(* A job that differs in one facet, with and without the host directories. *)
Differing ==
    UNION {{Workload([Job(r, "ok") EXCEPT !.differs = {f}, !.dirs = d], {}, Calm) :
        f \in Facets(r) \ {"dirs"}, d \in BOOLEAN} : r \in Runtimes}

Trained(j) == IF j.runtime \in {"gpu-oci", "macos-mps"} THEN [j EXCEPT !.writes = <<New(1, 1, "finite", "a")>>] ELSE j

Disturbed ==
    {Workload(Trained(Job(r, "ok")), {}, e) :
        r \in Runtimes,
        e \in {[Calm EXCEPT !.crash = 1, !.drops = 2],
               [Calm EXCEPT !.cancel = 1, !.crash = 1],
               [Calm EXCEPT !.cancel = 1, !.controller = 1, !.drops = 1],
               [Calm EXCEPT !.revoke = 1, !.faults = 1]}}
    \cup {Workload(Job("python-sandbox", e), {}, [Calm EXCEPT !.drops = 1]) : e \in {"error", "crash", "overflow", "invalid"}}
    \cup {Workload(Job("oci-container", "overflow"), {}, [Calm EXCEPT !.faults = 1]),
          Workload(Trained(Job("macos-mps", "overflow")), {}, Calm),
          Workload([Job("oci-container", "ok") EXCEPT !.late = TRUE], {}, [Calm EXCEPT !.cancel = 1, !.crash = 1]),
          Workload([Job("oci-container", "ok") EXCEPT !.cached = FALSE], {}, [Calm EXCEPT !.drops = 2, !.revoke = 1])}
    \cup {Workload([Trained(Job(r, "ok")) EXCEPT !.child = TRUE, !.token = t], {},
                   [Calm EXCEPT !.cancel = 1, !.crash = 1, !.recycle = 1]) :
            r \in {"python-sandbox", "macos-mps"}, t \in BOOLEAN}

Native ==
    {Workload([Job("native-process", "ok") EXCEPT !.differs = {f}], {}, Calm) : f \in NativeFacets}
    \cup {Workload([Job("native-process", e) EXCEPT !.child = child], {}, [Calm EXCEPT !.cancel = 1, !.faults = 1, !.crash = 1]) :
            e \in {"ok", "error", "crash", "overflow", "invalid"}, child \in BOOLEAN}

MCWorkloads == Native \cup Trainings \cup Differing \cup Disturbed
=============================================================================
