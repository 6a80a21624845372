-------------------------- MODULE SimulatedRuntime --------------------------
(***************************************************************************)
(* The simulated runtime (execution/simulated.py): authorize the plan,     *)
(* consume a recorded authorization, fold the Run, and append what is      *)
(* still missing of the outcome's path, with the synthetic metrics of a    *)
(* success between attempt.started and attempt.succeeded                   *)
(* (execution/synthetic.py).  A process may stop after any append; another *)
(* call, or another process at the same time, continues from the fold.     *)
(* The outcome is part of the plan, so it stands for the plan's digests.   *)
(***************************************************************************)
EXTENDS EventLog, RunReducer, Planner, SequencesExt

VARIABLES
    snapshot,   \* fold of the Run
    bound,      \* what run.queued carries: the plan and the cited authorization
    auths,      \* [authorization event -> its decision and sequence]
    recorded,   \* [event id -> sequence] facts of simulations and their metrics
    finisher    \* the request whose run.completed is in the log

simVars == <<snapshot, bound, auths, recorded, finisher>>

(* A simulation has an attempt and a revision to name.                     *)
ASSUME SimulatedAssumption == AttemptIds # {} /\ Revisions # {}

MetricTypes == {"training.step", "evaluation.metric"}

(* A request names the event ids it may use; ids are one name per request. *)
SimRequest(ids, outcome, spec, metrics, auth, sequence) ==
    [ids |-> ids, outcome |-> outcome, spec |-> spec, metrics |-> metrics, auth |-> auth,
     sequence |-> sequence]

EventId(r, type) == <<r.ids, type>>

(* The draft of a lifecycle event; metrics are outside the run's catalog.  *)
SimAttempt == CHOOSE a \in AttemptIds : TRUE
SimRevision == CHOOSE v \in Revisions : TRUE

SimDraft(type) ==
    [type |-> IF type \in LifecycleTypes THEN type ELSE "other",
     attemptId |-> IF type \in AttemptTypes THEN SimAttempt ELSE None,
     revision |-> SimRevision, ordinal |-> 1, retryOf |-> None, decided |-> FALSE, maxAttempts |-> 1]

-----------------------------------------------------------------------------
(* The gates before anything is appended.                                  *)

(* One simulated.experiment task and nothing that needs approval.          *)
SupportedPlan(spec) ==
    LET g == spec.graphs["root"] IN
    /\ Cardinality(DOMAIN g.nodes) = 1 /\ g.edges = {} /\ Tasks(g) = DOMAIN g.nodes
    /\ \A n \in Tasks(g) : g.nodes[n].block = "simulated.experiment" /\ g.nodes[n].resources = {}
    /\ DOMAIN spec.paid = {} /\ DryRun(spec).requirements = {}

SimulatedPolicy == Policy({"simulate"}, <<>>)

GateAuthorizes(r) ==
    /\ SpecValid(r.spec) /\ DryRun(r.spec).status = "ready"
    /\ SupportedPlan(r.spec)
    /\ PolicyFits(DryRun(r.spec), SimulatedPolicy)
    /\ Authorize(DryRun(r.spec), SimulatedPolicy) = "authorized"

(* consume_local_authorization: the cited fact is a local operator's, of   *)
(* this plan and decision, and says authorized.                            *)
Consumed(r) ==
    /\ r.auth \in DOMAIN auths
    /\ auths[r.auth].sequence = r.sequence
    /\ auths[r.auth].status = "authorized"
    /\ auths[r.auth].plan = r.outcome

MatchingRun(r) == snapshot = None \/ (bound.plan = r.outcome /\ bound.auth = r.auth)

-----------------------------------------------------------------------------
(* What is left of the path                                                *)

PathOf(outcome) ==
    <<"run.queued", "run.started", "attempt.queued", "attempt.started">> \o
    CASE outcome = "success" -> <<"attempt.succeeded", "run.completed">>
      [] outcome = "failure" -> <<"attempt.failed", "run.failed">>
      [] OTHER -> <<"attempt.unknown">>

First(s) == s.attempts[1]

(* _emitted_types: the path a snapshot has taken.                          *)
Emitted(s) ==
    <<"run.queued">>
    \o (IF s.status = "queued" THEN <<>> ELSE <<"run.started">>
        \o (IF s.attempts = <<>> THEN <<>> ELSE <<"attempt.queued">>
            \o (IF First(s).status = "queued" THEN <<>> ELSE <<"attempt.started">>
                \o CASE First(s).status = "succeeded" -> <<"attempt.succeeded">>
                     [] First(s).status = "failed" -> <<"attempt.failed">>
                     [] First(s).status = "cancelled" -> <<"attempt.cancelled">>
                     [] First(s).status = "unknown" -> <<"attempt.unknown">>
                     [] OTHER -> <<>>)))

OutcomeObserved(s) == LatestIs(s, {"succeeded", "failed"})

ActiveCancelRequested(s) ==
    \E i \in DOMAIN s.attempts : s.attempts[i].attemptId = s.active /\ s.attempts[i].cancelRequested

CancellationActionable(s) ==
    s.cancelRequested \/ ActiveCancelRequested(s) \/ LatestIs(s, {"cancelled"})

CancelRemaining(s) ==
    (IF s.active # None /\ (s.cancelRequested \/ ActiveCancelRequested(s)) THEN <<"attempt.cancelled">> ELSE <<>>)
    \o (IF s.cancelRequested THEN <<"run.cancelled">> ELSE <<>>)

(* _continuation: the events still to append; <<>> stops with the          *)
(* disposition of the snapshot.                                            *)
Remaining(s, outcome) ==
    LET path == PathOf(outcome) IN
    CASE s = None -> path
      [] s # None /\ s.status \in TerminalRun \cup {"unknown", "lost"} -> <<>>
      [] s # None /\ s.status \notin TerminalRun \cup {"unknown", "lost"} ->
            IF ~OutcomeObserved(s) /\ CancellationActionable(s) THEN CancelRemaining(s)
            ELSE SubSeq(path, Len(Emitted(s)) + 1, Len(path))

PrefixMatches(s, outcome) ==
    \/ s = None
    \/ s.status \in TerminalRun \cup {"unknown", "lost"}
    \/ ~OutcomeObserved(s) /\ CancellationActionable(s)
    \/ IsPrefix(Emitted(s), PathOf(outcome))

EmitsMetrics(r, remaining) ==
    r.outcome = "success" /\ remaining # <<>>
        /\ ToSet(remaining) \cap {"attempt.cancelled", "run.cancelled"} = {}

(* The metrics the request names, in the catalog's order.                  *)
MetricsOf(r) ==
    LET Named(t) == IF t \in r.metrics THEN <<t>> ELSE <<>>
    IN  Named("training.step") \o Named("evaluation.metric")

(* Mutant: metrics are appended only by the call that starts the attempt.  *)
StepsOfStarter(r, remaining) ==
    IF ~EmitsMetrics(r, remaining) \/ "attempt.started" \notin ToSet(remaining) THEN remaining
    ELSE LET i == CHOOSE k \in DOMAIN remaining : remaining[k] = "attempt.started"
         IN  SubSeq(remaining, 1, i) \o MetricsOf(r) \o SubSeq(remaining, i + 1, Len(remaining))

(* The appends of a call, in order: metrics follow attempt.started, or     *)
(* come first when an earlier call started the attempt.                    *)
Steps(r, remaining) ==
    IF ~EmitsMetrics(r, remaining) THEN remaining
    ELSE IF "attempt.started" \notin ToSet(remaining) THEN MetricsOf(r) \o remaining
    ELSE LET i == CHOOSE k \in DOMAIN remaining : remaining[k] = "attempt.started"
         IN  SubSeq(remaining, 1, i) \o MetricsOf(r) \o SubSeq(remaining, i + 1, Len(remaining))

-----------------------------------------------------------------------------
(* SimulatedRuntime.run, a call of process x: gates and fold, then one     *)
(* append after another.                                                   *)

Folds(type) == Apply(snapshot, SimDraft(type), head + 1)

(* Every draft's id is free before the first write. *)
IdsFree(r, remaining) == \A t \in ToSet(remaining) : EventId(r, t) \notin DOMAIN recorded

SimPlan(x) ==
    LET r == job[x].req
        left == Remaining(snapshot, r.outcome) IN
    /\ job[x].pc = "simulate"
    /\ IF GateAuthorizes(r) /\ Consumed(r) /\ MatchingRun(r)
          /\ PrefixMatches(snapshot, r.outcome) /\ IdsFree(r, left)
       THEN job' = [job EXCEPT ![x].pc = IF left = <<>> THEN "simulated" ELSE "appending",
                               ![x].todo = Steps(r, left)]
       ELSE Go(x, "refused")
    /\ UNCHANGED <<head, simVars>>

(* Skip a metric that is already recorded; otherwise freeze the head and   *)
(* validate the draft there.                                               *)
SimFreeze(x) ==
    LET r == job[x].req
        t == Head(job[x].todo) IN
    /\ job[x].pc = "appending" /\ ~Frozen(x) /\ job[x].todo # <<>>
    /\ CASE t \in MetricTypes /\ EventId(r, t) \in DOMAIN recorded ->
               job' = [job EXCEPT ![x].todo = Tail(@)]
         [] ~(t \in MetricTypes /\ EventId(r, t) \in DOMAIN recorded) ->
               IF HeadExpected(x) /\ EventId(r, t) \notin DOMAIN recorded /\ Folds(t) # Rejected
               THEN job' = [job EXCEPT ![x].frozen = head]
               ELSE Go(x, "refused")
    /\ UNCHANGED <<head, simVars>>

SimAppend(x) ==
    LET r == job[x].req
        t == Head(job[x].todo) IN
    /\ job[x].pc = "appending" /\ Frozen(x) /\ AppendHead(x)
    /\ head' = head + 1
    /\ snapshot' = Folds(t)
    /\ recorded' = [e \in DOMAIN recorded \cup {EventId(r, t)} |->
                        IF e = EventId(r, t) THEN head + 1 ELSE recorded[e]]
    /\ bound' = IF t = "run.queued" THEN [plan |-> r.outcome, auth |-> r.auth, at |-> head + 1] ELSE bound
    /\ finisher' = IF t = "run.completed" THEN r ELSE finisher
    /\ job' = [job EXCEPT ![x].todo = Tail(@), ![x].frozen = Unset, ![x].expected = Unset]
    /\ UNCHANGED auths

SimConflict(x) ==
    /\ job[x].pc = "appending" /\ Frozen(x) /\ ~AppendHead(x)
    /\ Go(x, "refused")
    /\ UNCHANGED <<head, simVars>>

SimReturn(x) ==
    /\ job[x].pc = "appending" /\ job[x].todo = <<>>
    /\ Go(x, "simulated")
    /\ UNCHANGED <<head, simVars>>

Simulate(x) == SimPlan(x) \/ SimFreeze(x) \/ SimAppend(x) \/ SimConflict(x) \/ SimReturn(x)

(* record_plan_authorization_event: an operator records what the policy    *)
(* decides on a plan.                                                      *)
RecordAuthorization(a) ==
    /\ a.event \notin DOMAIN auths
    /\ PolicyFits(DryRun(a.spec), a.policy)
    /\ head' = head + 1
    /\ auths' = [e \in DOMAIN auths \cup {a.event} |->
                     IF e = a.event
                     THEN [status |-> Authorize(DryRun(a.spec), a.policy), plan |-> a.plan,
                           sequence |-> head + 1]
                     ELSE auths[e]]
    /\ UNCHANGED <<snapshot, bound, recorded, finisher>>

(* Another process appends a lifecycle event of the run. *)
RunFact(type) ==
    /\ snapshot # None /\ Folds(type) # Rejected
    /\ head' = head + 1
    /\ snapshot' = Folds(type)
    /\ UNCHANGED <<bound, auths, recorded, finisher>>

-----------------------------------------------------------------------------
(* A run completed by a simulation holds every metric of the request that  *)
(* completed it (simulated.py _append_request_metrics), recorded before    *)
(* the completion; its terminal status is the one its plan declares; and   *)
(* it was queued after an authorization of that very plan was recorded.    *)
SimulatedSound ==
    /\ finisher # None =>
          /\ snapshot.status = "completed" /\ finisher.outcome = "success"
          /\ \A m \in finisher.metrics :
                 /\ EventId(finisher, m) \in DOMAIN recorded
                 /\ recorded[EventId(finisher, m)] < recorded[EventId(finisher, "run.completed")]
    /\ bound # None =>
          /\ bound.auth \in DOMAIN auths /\ auths[bound.auth].status = "authorized"
          /\ auths[bound.auth].plan = bound.plan
          /\ auths[bound.auth].sequence < bound.at
          /\ snapshot.status = "completed" => bound.plan = "success"
          /\ snapshot.status = "failed" => bound.plan = "failure"
          /\ snapshot.status = "cancelled" => snapshot.cancelRequested
=============================================================================
