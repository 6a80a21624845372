----------------------------- MODULE RunReducer -----------------------------
(***************************************************************************)
(* The Run/Attempt aggregate: the pure fold of ResearchEvents into a       *)
(* RunSnapshot (runs/reducer.py) and the cross-field rules every snapshot  *)
(* obeys (runs/models.py).                                                 *)
(*                                                                         *)
(* Apply(s, e, q) is RunStateProjection.apply: the snapshot that follows s *)
(* when event e is folded at global sequence q, or Rejected where the code *)
(* raises.  RunState makes a specification of the fold; RunControl runs it *)
(* against a shared log.                                                   *)
(*                                                                         *)
(* Data are reduced to what the rules tell apart.  Digests, workflow and   *)
(* event identifiers are left out.  A missing identifier is None, a        *)
(* missing sequence is 0, and an identifier whose presence alone matters   *)
(* (retryDecisionId, retryHint, the review decision) is a BOOLEAN or the   *)
(* sequence recorded with it.                                              *)
(***************************************************************************)
EXTENDS Integers, Sequences, FiniteSets

CONSTANTS
    AttemptIds,        \* identifiers an attempt event may carry
    Revisions,         \* values of data.experimentRevision
    MaxAttemptsLimit,  \* MAX_ATTEMPTS, 32 in the code
    SequenceMax,       \* CLOUD_EVENTS_INTEGER_MAX, 2^31 - 1 in the code
    None,              \* Python's None
    Rejected           \* the fold raised

ASSUME ConstantsAssumption ==
    /\ MaxAttemptsLimit \in Nat \ {0}
    /\ SequenceMax \in Nat \ {0}
    /\ Revisions \subseteq Nat \ {0}
    /\ None \notin AttemptIds

-----------------------------------------------------------------------------
(* Vocabulary of runs/models.py.                                           *)

RunTypes ==
    {"run.queued", "run.started", "run.cancel.requested", "run.completed",
     "run.failed", "run.cancelled", "run.reviewed"}

AttemptTypes ==
    {"attempt.queued", "attempt.started", "attempt.heartbeat",
     "attempt.cancel.requested", "attempt.unknown", "attempt.lost",
     "attempt.recovered", "attempt.succeeded", "attempt.failed",
     "attempt.cancelled"}

LifecycleTypes == RunTypes \union AttemptTypes

\* "other" stands for every ResearchEvent type outside the catalog.
EventTypes == LifecycleTypes \union {"other"}

RunStatuses ==
    {"queued", "running", "retry_pending", "lost", "unknown",
     "completed", "failed", "cancelled"}

TerminalRun == {"completed", "failed", "cancelled"}

UnresolvedAttempt == {"queued", "running", "lost", "unknown"}

TerminalAttempt == {"succeeded", "failed", "cancelled"}

AttemptStatuses == UnresolvedAttempt \union TerminalAttempt

Ordinals == 1 .. MaxAttemptsLimit

Attempt ==
    [attemptId : AttemptIds, ordinal : Ordinals, retryOf : AttemptIds \union {None},
     decided : BOOLEAN, status : AttemptStatuses, cancelRequested : BOOLEAN,
     hinted : BOOLEAN, lastSequence : Nat, lastHeartbeat : Nat]

Snapshot ==
    [status : RunStatuses, cancelRequested : BOOLEAN,
     active : AttemptIds \union {None}, attempts : Seq(Attempt),
     maxAttempts : Ordinals, revision : Revisions,
     lastSequence : Nat, reviewSequence : Nat]

\* None and Rejected are not snapshots, nor each other.
ASSUME SentinelAssumption == None \notin Snapshot /\ Rejected \notin Snapshot \union {None}

\* An event of this aggregate, with the payload fields the fold reads.
Event ==
    [type : EventTypes, attemptId : AttemptIds \union {None}, revision : Revisions,
     ordinal : Ordinals, retryOf : AttemptIds \union {None}, decided : BOOLEAN,
     maxAttempts : Ordinals]

\* Payload models are closed: a field of another payload is absent (its blank).
PayloadFits(e) ==
    /\ e.type # "attempt.queued" => e.ordinal = 1 /\ e.retryOf = None /\ ~e.decided
    /\ e.type # "run.queued" => e.maxAttempts = 1

Drafts == {e \in Event : PayloadFits(e)}

-----------------------------------------------------------------------------
(* The attempts of a snapshot.                                             *)

Unresolved(s) ==
    {i \in DOMAIN s.attempts : s.attempts[i].status \in UnresolvedAttempt}

Latest(s) == s.attempts[Len(s.attempts)]

LatestIs(s, statuses) == s.attempts # << >> /\ Latest(s).status \in statuses

\* activeAttemptId names an attempt of the snapshot with a status in statuses.
ActiveIs(s, statuses) ==
    \E i \in DOMAIN s.attempts :
        s.attempts[i].attemptId = s.active /\ s.attempts[i].status \in statuses

-----------------------------------------------------------------------------
(* assert_run_snapshot_invariants, one definition per rule.                *)

OrdinalsContiguous(s) == \A i \in DOMAIN s.attempts : s.attempts[i].ordinal = i

IdsUnique(s) ==
    \A i, j \in DOMAIN s.attempts :
        s.attempts[i].attemptId = s.attempts[j].attemptId => i = j

AtMostOneUnresolved(s) == \A i, j \in Unresolved(s) : i = j

ActiveMatches(s) ==
    IF Unresolved(s) = {}
    THEN s.active = None
    ELSE \E i \in Unresolved(s) : s.active = s.attempts[i].attemptId

ReviewedOnlyTerminal(s) == s.reviewSequence # 0 => s.status \in TerminalRun

WithinMaxAttempts(s) == Len(s.attempts) <= s.maxAttempts

StatusMatchesAttempts(s) ==
    LET settled == Unresolved(s) = {}
    IN  /\ s.status = "queued" => s.attempts = << >>
        /\ s.status = "lost" => ActiveIs(s, {"lost"})
        /\ s.status = "unknown" => ActiveIs(s, {"unknown"})
        /\ s.status \in {"retry_pending", "failed"} => settled /\ LatestIs(s, {"failed"})
        /\ s.status = "completed" => settled /\ LatestIs(s, {"succeeded"})
        /\ s.status = "cancelled" =>
               /\ s.cancelRequested /\ settled
               /\ s.attempts = << >> \/ LatestIs(s, {"cancelled"})
        /\ s.status = "running" =>
               \/ s.attempts = << >>
               \/ ActiveIs(s, {"queued", "running"})
               \/ settled /\ LatestIs(s, {"succeeded", "cancelled"})

RetryChain(s) ==
    \A i \in DOMAIN s.attempts :
        IF i = 1
        THEN s.attempts[1].retryOf = None /\ ~s.attempts[1].decided
        ELSE /\ s.attempts[i - 1].status = "failed"
             /\ s.attempts[i].retryOf = s.attempts[i - 1].attemptId
             /\ s.attempts[i].decided

CursorsIncrease(s) ==
    /\ \A i \in DOMAIN s.attempts :
           /\ s.attempts[i].lastSequence <= s.lastSequence
           /\ s.attempts[i].lastHeartbeat <= s.attempts[i].lastSequence
           /\ s.attempts[i].lastSequence > 0
           /\ i > 1 => s.attempts[i - 1].lastSequence < s.attempts[i].lastSequence
    /\ s.reviewSequence <= s.lastSequence

SnapshotOK(s) ==
    /\ OrdinalsContiguous(s)
    /\ IdsUnique(s)
    /\ AtMostOneUnresolved(s)
    /\ ActiveMatches(s)
    /\ ReviewedOnlyTerminal(s)
    /\ WithinMaxAttempts(s)
    /\ StatusMatchesAttempts(s)
    /\ RetryChain(s)
    /\ CursorsIncrease(s)

\* AttemptSnapshot.attempt_fields_are_consistent, run when a document is
\* validated (a new attempt, a cached row) and not by model_copy.
AttemptFieldsConsistent(a) ==
    /\ IF a.ordinal = 1 THEN a.retryOf = None /\ ~a.decided
                        ELSE a.retryOf # None /\ a.decided
    /\ a.hinted <=> a.status = "failed"
    /\ a.lastHeartbeat <= a.lastSequence

-----------------------------------------------------------------------------
(* The guards of the fold, in the order the code tests them.               *)

EnvelopeOK(e) ==
    /\ e.type \in RunTypes => e.attemptId = None
    /\ e.type \in AttemptTypes => e.attemptId # None

CursorAndBindingOK(s, e, q) == q > s.lastSequence /\ e.revision = s.revision

RunEventOK(s, e) ==
    \/ e.type = "run.started" /\ s.status = "queued"
    \/ e.type = "run.cancel.requested"
    \/ e.type = "run.completed" /\ LatestIs(s, {"succeeded"}) /\ Unresolved(s) = {}
    \/ e.type = "run.failed" /\ LatestIs(s, {"failed"}) /\ Unresolved(s) = {}
    \/ /\ e.type = "run.cancelled"
       /\ s.cancelRequested
       /\ Unresolved(s) = {}
       /\ s.attempts = << >> \/ LatestIs(s, {"cancelled"})

FirstAttemptOK(s, e) ==
    /\ s.attempts = << >>
    /\ e.ordinal = 1 /\ e.retryOf = None /\ ~e.decided
    /\ s.status = "running"

RetryOK(s, e) ==
    /\ LatestIs(s, {"failed"})
    /\ e.ordinal = Latest(s).ordinal + 1
    /\ e.retryOf = Latest(s).attemptId
    /\ e.decided

\* Mutant: an attempt may be queued beyond maxAttempts.
AttemptQueuedUnlimited(s, e) ==
    /\ s.status # "queued"
    /\ ~s.cancelRequested
    /\ Unresolved(s) = {}
    /\ \A i \in DOMAIN s.attempts : s.attempts[i].attemptId # e.attemptId
    /\ FirstAttemptOK(s, e) \/ RetryOK(s, e)

\* Mutant: an attempt may be queued after a cancellation request.
AttemptQueuedAfterCancel(s, e) ==
    /\ s.status # "queued"
    /\ Unresolved(s) = {}
    /\ \A i \in DOMAIN s.attempts : s.attempts[i].attemptId # e.attemptId
    /\ Len(s.attempts) < s.maxAttempts
    /\ FirstAttemptOK(s, e) \/ RetryOK(s, e)

AttemptQueuedOK(s, e) ==
    /\ s.status # "queued"
    /\ ~s.cancelRequested
    /\ Unresolved(s) = {}
    /\ \A i \in DOMAIN s.attempts : s.attempts[i].attemptId # e.attemptId
    /\ Len(s.attempts) < s.maxAttempts
    /\ FirstAttemptOK(s, e) \/ RetryOK(s, e)

\* Mutant: only a queued or running attempt can be resolved by the worker.
AttemptFromKnown(type) ==
    CASE type = "attempt.started"   -> {"queued"}
      [] type = "attempt.lost"      -> {"running", "unknown"}
      [] type = "attempt.recovered" -> {"lost", "unknown"}
      [] type \in {"attempt.heartbeat", "attempt.unknown", "attempt.succeeded"} -> {"running"}
      [] OTHER                      -> {"queued", "running"}

\* The statuses from which an attempt event may leave the active attempt.
AttemptFrom(type) ==
    CASE type = "attempt.started"   -> {"queued"}
      [] type = "attempt.heartbeat" -> {"running"}
      [] type = "attempt.unknown"   -> {"running"}
      [] type = "attempt.lost"      -> {"running", "unknown"}
      [] type = "attempt.recovered" -> {"lost", "unknown"}
      [] type = "attempt.succeeded" -> {"running", "lost", "unknown"}
      [] OTHER                      -> UnresolvedAttempt

AttemptEventOK(s, e) ==
    \E i \in DOMAIN s.attempts :
        /\ s.attempts[i].attemptId = e.attemptId
        /\ s.active = e.attemptId
        /\ s.attempts[i].status \in AttemptFrom(e.type)
        /\ e.type = "attempt.cancelled" =>
               s.cancelRequested \/ s.attempts[i].cancelRequested

Guard(s, e, q) ==
    /\ CursorAndBindingOK(s, e, q)
    /\ EnvelopeOK(e)
    /\ e.type \in LifecycleTypes \ {"run.reviewed"} => s.status \notin TerminalRun
    /\ e.type = "run.reviewed" => s.status \in TerminalRun /\ s.reviewSequence = 0
    /\ e.type \in RunTypes \ {"run.reviewed"} => RunEventOK(s, e)
    /\ e.type = "attempt.queued" => AttemptQueuedOK(s, e)
    /\ e.type \in AttemptTypes \ {"attempt.queued"} => AttemptEventOK(s, e)

-----------------------------------------------------------------------------
(* The snapshots the fold produces.                                        *)

\* Mutant: a cancellation request of the run is copied into every attempt.
RunEventMarksAttempts(s, e) ==
    CASE e.type = "run.started"          -> [s EXCEPT !.status = "running"]
      [] e.type = "run.cancel.requested" ->
            [s EXCEPT !.cancelRequested = TRUE,
                      !.attempts = [i \in DOMAIN @ |-> [@[i] EXCEPT !.cancelRequested = TRUE]]]
      [] e.type = "run.completed"        -> [s EXCEPT !.status = "completed", !.active = None]
      [] e.type = "run.failed"           -> [s EXCEPT !.status = "failed", !.active = None]
      [] e.type = "run.cancelled"        -> [s EXCEPT !.status = "cancelled", !.active = None]
      [] OTHER                           -> s

RunEventResult(s, e) ==
    CASE e.type = "run.started"          -> [s EXCEPT !.status = "running"]
      [] e.type = "run.cancel.requested" -> [s EXCEPT !.cancelRequested = TRUE]
      [] e.type = "run.completed"        -> [s EXCEPT !.status = "completed", !.active = None]
      [] e.type = "run.failed"           -> [s EXCEPT !.status = "failed", !.active = None]
      [] e.type = "run.cancelled"        -> [s EXCEPT !.status = "cancelled", !.active = None]
      [] OTHER                           -> s

NewAttempt(e, q) ==
    [attemptId |-> e.attemptId, ordinal |-> e.ordinal, retryOf |-> e.retryOf,
     decided |-> e.decided, status |-> "queued", cancelRequested |-> FALSE,
     hinted |-> FALSE, lastSequence |-> q, lastHeartbeat |-> 0]

AttemptQueuedResult(s, e, q) ==
    [s EXCEPT !.status = "running", !.active = e.attemptId,
              !.attempts = Append(s.attempts, NewAttempt(e, q))]

\* The attempt and run status an attempt event leads to, given the present ones.
AttemptTo(type, present) ==
    CASE type = "attempt.started"   -> "running"
      [] type = "attempt.unknown"   -> "unknown"
      [] type = "attempt.lost"      -> "lost"
      [] type = "attempt.recovered" -> "running"
      [] type = "attempt.succeeded" -> "succeeded"
      [] type = "attempt.failed"    -> "failed"
      [] type = "attempt.cancelled" -> "cancelled"
      [] OTHER                      -> present

RunTo(type, present) ==
    CASE type = "attempt.unknown" -> "unknown"
      [] type = "attempt.lost"    -> "lost"
      [] type = "attempt.failed"  -> "retry_pending"
      [] type \in {"attempt.heartbeat", "attempt.cancel.requested"} -> present
      [] OTHER                    -> "running"

\* Mutant: a failed attempt is recorded without its retry hint.
MovedWithoutHint(a, e, q) ==
    [a EXCEPT !.status = AttemptTo(e.type, @),
              !.cancelRequested = @ \/ e.type = "attempt.cancel.requested",
              !.lastSequence = q,
              !.lastHeartbeat = IF e.type = "attempt.heartbeat" THEN q ELSE @]

MovedAttempt(a, e, q) ==
    [a EXCEPT !.status = AttemptTo(e.type, @),
              !.cancelRequested = @ \/ e.type = "attempt.cancel.requested",
              !.hinted = @ \/ e.type = "attempt.failed",
              !.lastSequence = q,
              !.lastHeartbeat = IF e.type = "attempt.heartbeat" THEN q ELSE @]

AttemptEventResult(s, e, q) ==
    [s EXCEPT
        !.status = RunTo(e.type, @),
        !.active = IF AttemptTo(e.type, "running") \in TerminalAttempt THEN None ELSE @,
        !.attempts = [i \in DOMAIN s.attempts |->
                         IF s.attempts[i].attemptId = e.attemptId
                         THEN MovedAttempt(s.attempts[i], e, q)
                         ELSE s.attempts[i]]]

\* _stamp moves the cursor of the updated copy (and then asserts SnapshotOK).
Stamped(s, q) == [s EXCEPT !.lastSequence = q]

Updated(s, e, q) ==
    CASE e.type = "other"          -> s
      [] e.type = "run.reviewed"   -> [s EXCEPT !.reviewSequence = q]
      [] e.type = "attempt.queued" -> AttemptQueuedResult(s, e, q)
      [] e.type \in AttemptTypes \ {"attempt.queued"} -> AttemptEventResult(s, e, q)
      [] OTHER                     -> RunEventResult(s, e)

Result(s, e, q) == Stamped(Updated(s, e, q), q)

\* Mutant: maxAttempts is taken for the number of retries.
FirstSnapshotRetries(e, q) ==
    [status |-> "queued", cancelRequested |-> FALSE, active |-> None,
     attempts |-> << >>, maxAttempts |-> e.maxAttempts + 1, revision |-> e.revision,
     lastSequence |-> q, reviewSequence |-> 0]

FirstSnapshot(e, q) ==
    [status |-> "queued", cancelRequested |-> FALSE, active |-> None,
     attempts |-> << >>, maxAttempts |-> e.maxAttempts, revision |-> e.revision,
     lastSequence |-> q, reviewSequence |-> 0]

Apply(s, e, q) ==
    IF s = None
    THEN CASE e.type = "other" -> None
           [] e.type = "run.queued" /\ EnvelopeOK(e) -> FirstSnapshot(e, q)
           [] OTHER -> Rejected
    ELSE LET t == Result(s, e, q)
         IN  IF Guard(s, e, q) /\ SnapshotOK(t) THEN t ELSE Rejected

=============================================================================
