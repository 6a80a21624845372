--------------------------- MODULE WorkerRecovery ---------------------------
(***************************************************************************)
(* The worker runtime (workers/runtime.py) and the reconciliation of lease *)
(* facts with the Run (workers/recovery.py), composed with the fold of     *)
(* RunState and with what WorkerPlane lets happen to the leases of one     *)
(* task attempt.                                                           *)
(*                                                                         *)
(* A path of the runtime is several RunControl appends, each on the state  *)
(* of its own rebuild (RunControl shows that an append commits on exactly  *)
(* the fold it was validated against).  Between two of them other          *)
(* processes write, or the process dies.                                   *)
(***************************************************************************)
EXTENDS RunState

CONSTANTS
    WorkAttempt, WorkRevision,  \* the attempt and revision the runtime serves
    Reconcilers,                \* processes that call reconcile_worker_run
    MaxLeases,                  \* bound: leases opened for the attempt
    MaxFlips,                   \* bound: unknown/lost/recovered reports
    MaxCrashes                  \* bound: reconcilers that die in a path

ASSUME RecoveryAssumption ==
    /\ WorkAttempt \in AttemptIds
    /\ WorkRevision \in Revisions
    /\ {MaxLeases, MaxFlips, MaxCrashes} \subseteq Nat

\* A lease: its status, and whether work.failed carried cancel-observed.
Lease == [status : {"leased", "completed", "failed", "expired"}, observed : BOOLEAN]

VARIABLES            \* beside RunState's snapshot and head
    leases,          \* leases of the attempt, in log order
    pc, plan,        \* per reconciler: next step, the lease and path it holds
    flips, crashes   \* bounds

vars == <<snapshot, head, leases, pc, plan, flips, crashes>>

Outcomes == {"succeed", "failed", "cancelled"}

NoPlan == [lease |-> None, outcome |-> None, path |-> << >>]

Init ==
    /\ RunInit /\ leases = << >>
    /\ pc = [p \in Reconcilers |-> "idle"]
    /\ plan = [p \in Reconcilers |-> NoPlan]
    /\ flips = 0 /\ crashes = 0

-----------------------------------------------------------------------------
\* WorkerRuntime._append: the draft of a type, maxAttempts 1 and no retries.
Draft(type) ==
    [type |-> type, attemptId |-> IF type \in AttemptTypes THEN WorkAttempt ELSE None,
     revision |-> WorkRevision, ordinal |-> 1, retryOf |-> None, decided |-> FALSE,
     maxAttempts |-> 1]

\* Mutant: a draft the reducer refuses is committed.
FoldedUnchecked(type) == {Apply(snapshot, Draft(type), head + 1)}

\* The snapshot RunControl.append would commit, if the fold admits the draft.
Folded(type) == {s \in {Apply(snapshot, Draft(type), head + 1)} : s # Rejected}

Accepted(type) == head < SequenceMax /\ Folded(type) # {}

AppendRun(type) ==
    /\ head < SequenceMax
    /\ snapshot' \in Folded(type)
    /\ head' = head + 1

HasAttempt == snapshot # None /\ \E i \in DOMAIN snapshot.attempts :
                                      snapshot.attempts[i].attemptId = WorkAttempt

TheAttempt == CHOOSE a \in {snapshot.attempts[i] : i \in DOMAIN snapshot.attempts} :
                  a.attemptId = WorkAttempt

AttemptStatus == IF HasAttempt THEN TheAttempt.status ELSE "none"

RunStatus == IF snapshot = None THEN "none" ELSE snapshot.status

\* run_cancel_requested: a request on the run or on the attempt.
CancelRequested ==
    /\ snapshot # None
    /\ snapshot.cancelRequested \/ (HasAttempt /\ TheAttempt.cancelRequested)

LatestLease == leases[Len(leases)]

-----------------------------------------------------------------------------
(* The coordinator, supervisor and worker around the reconcilers.          *)

\* WorkerRuntime.start appends START_PATH; a start cut short is not resumed.
StartPath == <<"run.queued", "run.started", "attempt.queued", "attempt.started">>

Start ==
    /\ \E n \in DOMAIN StartPath :
           /\ CASE n = 1 -> snapshot = None
                [] n = 2 -> RunStatus = "queued"
                [] n = 3 -> RunStatus = "running" /\ ~HasAttempt
                [] n = 4 -> AttemptStatus = "queued"
           /\ AppendRun(StartPath[n])
    /\ UNCHANGED <<leases, pc, plan, flips, crashes>>

\* WorkerRuntime.unknown, lost and recovered.
Report(type) ==
    /\ flips < MaxFlips
    /\ AppendRun(type)
    /\ flips' = flips + 1
    /\ UNCHANGED <<leases, pc, plan, crashes>>

\* RunCancellation: a request on the run or on the attempt, once each.
RequestCancel(type) ==
    /\ IF type = "run.cancel.requested"
       THEN snapshot # None /\ ~snapshot.cancelRequested
       ELSE HasAttempt /\ ~TheAttempt.cancelRequested
    /\ AppendRun(type)
    /\ UNCHANGED <<leases, pc, plan, flips, crashes>>

\* Another worker with a grant of its own leases the attempt once no lease of it
\* is active; an earlier lease that completed does not stand in its way.
OpenLease ==
    /\ Len(leases) < MaxLeases
    /\ leases # << >> => LatestLease.status # "leased"
    /\ ~CancelRequested
    /\ leases' = Append(leases, [status |-> "leased", observed |-> FALSE])
    /\ UNCHANGED <<runVars, pc, plan, flips, crashes>>

\* work.completed, work.failed (cancel-observed only after a request was seen)
\* or work.lease.expired.
SettleLease(status, observed) ==
    /\ leases # << >> /\ LatestLease.status = "leased"
    /\ observed => status = "failed" /\ CancelRequested
    /\ leases' = [leases EXCEPT ![Len(leases)] = [status |-> status, observed |-> observed]]
    /\ UNCHANGED <<runVars, pc, plan, flips, crashes>>

Around ==
    \/ Start \/ OpenLease
    \/ \E t \in {"attempt.unknown", "attempt.lost", "attempt.recovered"} : Report(t)
    \/ \E t \in {"run.cancel.requested", "attempt.cancel.requested"} : RequestCancel(t)
    \/ \E status \in {"completed", "failed", "expired"}, observed \in BOOLEAN :
           SettleLease(status, observed)

-----------------------------------------------------------------------------
(* reconcile_worker_run.                                                   *)

Goto(p, step) == pc' = [pc EXCEPT ![p] = step]

Return(p) == Goto(p, "idle") /\ plan' = [plan EXCEPT ![p] = NoPlan]

\* The caller rebuilds the worker fold and passes its latest lease.
Reconcile(p) ==
    /\ pc[p] = "idle"
    /\ leases # << >>
    /\ plan' = [plan EXCEPT ![p].lease = LatestLease]
    /\ Goto(p, "decide")
    /\ UNCHANGED <<runVars, leases, flips, crashes>>

\* Mutant: a lease that ran out counts as done.
SucceedsOnExpiry(lease) ==
    /\ lease.status \in {"completed", "expired"}
    /\ AttemptStatus \in {"running", "lost", "unknown"}

\* Mutant: a run whose attempt has succeeded is thought to be closed.
SucceedsOnce(lease) ==
    lease.status = "completed" /\ AttemptStatus \in {"running", "lost", "unknown"}

\* What reconcile does with a lease, given the Run it rebuilt.
Succeeds(lease) ==
    /\ lease.status = "completed"
    /\ \/ AttemptStatus \in {"running", "lost", "unknown"}
       \/ AttemptStatus = "succeeded" /\ RunStatus = "running"

\* Mutant: a failure after a request counts as an observed stop.
CancelsOnAnyFailure(lease) ==
    /\ lease.status = "failed" /\ CancelRequested
    /\ AttemptStatus \in UnresolvedAttempt

\* Mutant: a run whose attempt is cancelled is thought to be closed.
CancelsOnce(lease) ==
    /\ lease.status = "failed" /\ lease.observed /\ CancelRequested
    /\ AttemptStatus \in UnresolvedAttempt

Cancels(lease) ==
    /\ lease.status = "failed" /\ lease.observed /\ CancelRequested
    /\ \/ AttemptStatus \in UnresolvedAttempt
       \/ AttemptStatus = "cancelled" /\ RunStatus = "running"

Fails(lease) ==
    /\ lease.status = "failed" /\ ~(lease.observed /\ CancelRequested)
    /\ AttemptStatus \in UnresolvedAttempt

Decision(lease) ==
    CASE Succeeds(lease) -> "succeed"
      [] Cancels(lease)  -> "cancelled"
      [] Fails(lease)    -> "failed"
      [] OTHER           -> None

Decide(p) ==
    LET outcome == Decision(plan[p].lease)
    IN  /\ pc[p] = "decide"
        /\ IF outcome = None THEN Return(p)
           ELSE plan' = [plan EXCEPT ![p].outcome = outcome] /\ Goto(p, "plan")
        /\ UNCHANGED <<runVars, leases, flips, crashes>>

\* WorkerRuntime.succeed, failed and cancelled: the events that are missing, on
\* the Run they rebuild themselves.
AttemptEventOf(outcome) ==
    CASE outcome = "succeed" -> "attempt.succeeded"
      [] outcome = "failed" -> "attempt.failed"
      [] outcome = "cancelled" -> "attempt.cancelled"

RunEventOf(outcome) ==
    CASE outcome = "succeed" -> "run.completed"
      [] outcome = "failed" -> "run.failed"
      [] outcome = "cancelled" -> "run.cancelled"

Remaining(outcome) ==
    LET from == IF outcome = "succeed" THEN {"running", "lost", "unknown"}
                ELSE UnresolvedAttempt
        settled == CASE outcome = "succeed" -> "succeeded" [] OTHER -> outcome
        runFrom == IF outcome = "failed" THEN {"running", "retry_pending"} ELSE {"running"}
        settle == AttemptStatus \in from
    IN  (IF settle THEN <<AttemptEventOf(outcome)>> ELSE << >>)
        \o (IF RunStatus \in runFrom /\ (settle \/ AttemptStatus = settled)
            THEN <<RunEventOf(outcome)>> ELSE << >>)

Plan(p) ==
    /\ pc[p] = "plan"
    /\ plan' = [plan EXCEPT ![p].path = Remaining(plan[p].outcome)]
    /\ Goto(p, "append")
    /\ UNCHANGED <<runVars, leases, flips, crashes>>

\* _append_path: one RunControl.append per event.
AppendNext(p) ==
    LET path == plan[p].path
    IN  /\ pc[p] = "append"
        /\ path # << >>
        /\ AppendRun(path[1])
        /\ plan' = [plan EXCEPT ![p].path = SubSeq(path, 2, Len(path))]
        /\ UNCHANGED <<leases, pc, flips, crashes>>

\* The path is done, or the reducer refuses its next event.
Finish(p) ==
    /\ pc[p] = "append"
    /\ plan[p].path # << >> => ~Accepted(plan[p].path[1])
    /\ Return(p)
    /\ UNCHANGED <<runVars, leases, flips, crashes>>

Crash(p) ==
    /\ pc[p] # "idle"
    /\ crashes < MaxCrashes
    /\ crashes' = crashes + 1
    /\ Return(p)
    /\ UNCHANGED <<runVars, leases, flips>>

Work(p) == Reconcile(p) \/ Decide(p) \/ Plan(p) \/ AppendNext(p) \/ Finish(p)

Next == Around \/ \E p \in Reconcilers : Work(p) \/ Crash(p)

Spec == Init /\ [][Next]_vars

\* Reconciliation is called again and again and a call goes on to its end unless
\* the process dies; nothing is assumed of workers, supervisors or requests.
FairSpec == Spec /\ \A p \in Reconcilers : WF_vars(Work(p))

-----------------------------------------------------------------------------
(* Properties.                                                             *)

TypeOK ==
    /\ RunTypeOK
    /\ leases \in Seq(Lease)
    /\ pc \in [Reconcilers -> {"idle", "decide", "plan", "append"}]
    /\ plan \in [Reconcilers -> [lease : Lease \union {None},
                                 outcome : Outcomes \union {None},
                                 path : Seq(LifecycleTypes)]]
    /\ flips \in 0 .. MaxFlips /\ crashes \in 0 .. MaxCrashes

\* "Recovery MUST NOT mark success without a matching completed fact", however
\* often the attempt was lost, unknown or recovered and whoever raced.
SuccessWasRecorded ==
    AttemptStatus = "succeeded" => \E i \in DOMAIN leases : leases[i].status = "completed"

\* A cancelled attempt was asked to stop and was observed to have stopped.
CancelWasObserved ==
    AttemptStatus = "cancelled" =>
        /\ CancelRequested
        /\ \E i \in DOMAIN leases : leases[i].status = "failed" /\ leases[i].observed

\* A completed lease of a started attempt closes the run, through losses,
\* recoveries, cancellation requests and crashes between the two appends.
CompletedCloses ==
    (leases # << >> /\ LatestLease.status = "completed"
        /\ AttemptStatus \in {"running", "lost", "unknown"})
    ~> RunStatus = "completed"

\* So does an observed stop of a run that was asked to stop: also from a lost or
\* unknown attempt, where closing the run takes a second reconciliation.
ObservedStopCloses ==
    (leases # << >> /\ LatestLease.status = "failed" /\ LatestLease.observed
        /\ snapshot # None /\ snapshot.cancelRequested
        /\ AttemptStatus \in UnresolvedAttempt)
    ~> RunStatus = "cancelled"

-----------------------------------------------------------------------------
(* What the documents say of reconciliation and the code does not do.      *)

\* "completed work succeeds the Attempt"
CompletedWins ==
    AttemptStatus = "failed" => \A i \in DOMAIN leases : leases[i].status # "completed"

\* "Drive Run/Attempt to the outcome already recorded on the Worker lease."
FailedCloses ==
    (leases # << >> /\ LatestLease.status = "failed" /\ ~LatestLease.observed
        /\ AttemptStatus \in {"running", "lost", "unknown"})
    ~> RunStatus \in TerminalRun

=============================================================================
