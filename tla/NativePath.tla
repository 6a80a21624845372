----------------------------- MODULE NativePath -----------------------------
(***************************************************************************)
(* Reviewed native work as a whole: processes of compute hosts, of the Ray *)
(* backend and of operators, over one controller, one attempt and its one  *)
(* grant.  A workload gives each process its command and bounds what       *)
(* disturbs them.                                                          *)
(***************************************************************************)
EXTENDS NativeLocal

CONSTANT Workloads

Ops == {"off", "write", "carry", "prepare", "ray", "driver", "execute", "reconcile", "local", "localreconcile"}
Facets == {"prefix", "grant", "objects", "documents", "host", "dependencies", "identity", "material", "ceiling"}

(* A carrier names a lease, and a state root is a compute host's or the    *)
(* controller host's own, never both.                                      *)
ASSUME WorkloadsAssumption ==
    \A w \in Workloads :
        /\ w.ops \in [Procs -> Ops] /\ w.roots \in [Procs -> Roots] /\ w.differs \subseteq Facets
        /\ \A p \in Procs : w.ops[p] = "carry" => w.leases[p] # None
        /\ \A p, q \in Procs :
               w.ops[p] \in {"driver", "execute"} /\ w.ops[q] \in {"local", "localreconcile"}
                   => w.roots[p] # w.roots[q]

VARIABLE env    \* what may still disturb the workload

vars == <<ctl, proc, host, child, env>>

IdleProc(op, root, lossy, lease) ==
    [op |-> op, root |-> root, lossy |-> lossy, lease |-> lease,
     pc |-> CASE op = "off" -> "done" [] op = "write" -> "write" [] op = "carry" -> "carry"
              [] op = "prepare" -> "prepare" [] OTHER -> "begin",
     ok |-> "done", no |-> "refused", lost |-> "refused", then |-> "leave", fresh |-> FALSE,
     claimed |-> FALSE, carried |-> FALSE, started |-> FALSE, cancelSeen |-> FALSE, authorityLost |-> FALSE,
     writing |-> FALSE, row |-> 1, j |-> FreshJournal, seen |-> None,
     doc |-> Document(NoProc, "unknown", "unknown"), report |-> Document(NoProc, "unknown", "unknown")]

Init ==
    \E w \in Workloads :
        /\ ctl = EmptyController
        /\ proc = [p \in Procs |-> IdleProc(w.ops[p], w.roots[p], w.lossy, w.leases[p])]
        /\ host = [r \in Roots |-> IF w.prepared
                        THEN [EmptyHost EXCEPT !.workspace = [files |-> AllGood, receipt |-> "good"], !.cache = AllGood,
                                               !.staged = AllGood, !.journal.status = "complete", !.differs = w.differs]
                        ELSE [EmptyHost EXCEPT !.differs = w.differs]]
        /\ child = [p \in Procs |-> NoChild]
        /\ env = w.env

ProcStep(p) ==
    \/ Handler(p) /\ UNCHANGED <<host, child>>
    \/ TransferStep(p) /\ UNCHANGED child
    \/ RemoteStep(p)
    \/ LocalStep(p)

ChildStep(p) == (UserEnds(p) \/ LingeringEnds(p)) /\ UNCHANGED env

(* A disturbance takes one of its kind from the workload's bound.          *)
Spend(kind) == kind \in DOMAIN env /\ env[kind] > 0 /\ env' = [env EXCEPT ![kind] = @ - 1]

Disturb ==
    \/ \E p \in Procs : Spend("crash") /\ Crash(p)
    \/ \E p \in Procs : Spend("controller") /\ ControllerStops(p) /\ UNCHANGED <<host, child>>
    \/ Spend("cancel") /\ RequestCancel("run.cancel.requested") /\ UNCHANGED <<host, child>>
    \/ Spend("cancelAttempt") /\ RequestCancel("attempt.cancel.requested") /\ UNCHANGED <<host, child>>
    \/ Spend("revoke") /\ Revoke /\ UNCHANGED <<host, child>>
    \/ Spend("lapse") /\ Lapse /\ UNCHANGED <<host, child>>
    \/ \E r \in Roots, f \in Files : Spend("damage") /\ Damage(r, f) /\ UNCHANGED child

(* A command that only observes or prepares may be given again.            *)
Again(p) ==
    /\ proc[p].op \in {"reconcile", "localreconcile", "prepare", "carry"}
    /\ proc[p].pc \in {"done", "refused", "dead"} /\ Spend("again")
    /\ proc' = [proc EXCEPT ![p] = [IdleProc(proc[p].op, proc[p].root, proc[p].lossy, proc[p].lease)
                                        EXCEPT !.carried = proc[p].carried]]
    /\ UNCHANGED <<ctl, host, child>>

Next ==
    \/ \E p \in Procs : (ProcStep(p) /\ UNCHANGED env) \/ ChildStep(p) \/ Again(p)
    \/ Disturb

Spec == Init /\ [][Next]_vars

-----------------------------------------------------------------------------

(* However processes race, crash and are started again, one process at     *)
(* most gets a fresh claim of the attempt (native_claim.py, plane.poll),   *)
(* user code is released at most once, and carriers past a transfer's      *)
(* claim name one lease (native_transfer.py claim_for_transfer).           *)
SingleLaunch ==
    /\ Cardinality({p \in Procs : proc[p].claimed}) <= 1
    /\ Cardinality({p \in Procs : child[p].released}) <= 1
    /\ \A p, q \in Procs :
           proc[p].carried /\ proc[q].carried /\ proc[p].root = proc[q].root => proc[p].lease = proc[q].lease

(* User code that was ever released was loaded from the bound bytes alone, *)
(* for a request that agrees with all that backs it, under a consumed      *)
(* grant, after attempt.started was recorded; its intent and identity are  *)
(* on disk, so a later process can find it, and a remote one is the very   *)
(* process the controller's start journal names (native_executor.py).      *)
ReleasedIsRecorded ==
    \A p \in Procs : child[p].released =>
        /\ child[p].loaded = AllGood /\ H(p).differs = {}
        /\ H(p).intent = p /\ H(p).identity = p
        /\ ctl.lease \in ConsumedLease
        /\ IF proc[p].op = "execute"
           THEN Recorded("remote", "attempt.started") /\ ctl.journal = p /\ H(p).start = p /\ H(p).claim = p
           ELSE Recorded("local", "attempt.started")

(* A terminal Run is backed: no process of the attempt is still running    *)
(* user code or leaves a descendant behind, and the lease settled the same *)
(* way: completed with a stored artifact of a process that exited with 0,  *)
(* failed by the task, or cancelled on request after an observed exit.     *)
TerminalIsObserved ==
    RunIs(TerminalRun) =>
        /\ \A p \in Procs : child[p].state \notin {"user", "lingering"}
        /\ RunIs({"completed"}) =>
               /\ ctl.lease = "completed" /\ ctl.artifact \in ctl.cas
               /\ child[ctl.artifact].released /\ child[ctl.artifact].code = 0
        /\ RunIs({"failed"}) => ctl.lease = "failed" /\ ctl.reason = "native-task-failed"
        /\ RunIs({"cancelled"}) => ctl.lease = "failed" /\ ctl.reason = "cancel-observed" /\ CancelRequested
=============================================================================
