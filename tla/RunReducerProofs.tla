-------------------------- MODULE RunReducerProofs --------------------------
(***************************************************************************)
(* Facts about the fold of RunReducer, for any attempt identifiers,        *)
(* revisions and limits.  The proofs about what runs the fold cite them.   *)
(***************************************************************************)
EXTENDS RunReducer, SequenceTheorems, TLAPS

\* _transition_attempt gives an attempt again.
LEMMA MovedAttemptType ==
    ASSUME NEW a \in Attempt, NEW e \in Event, NEW q \in Nat
    PROVE  MovedAttempt(a, e, q) \in Attempt
  <1>1. AttemptTo(e.type, a.status) \in AttemptStatuses
    BY DEF Attempt, AttemptTo, AttemptStatuses, UnresolvedAttempt, TerminalAttempt
  <1>2. (a.cancelRequested \/ e.type = "attempt.cancel.requested") \in BOOLEAN
        /\ (a.hinted \/ e.type = "attempt.failed") \in BOOLEAN
    OBVIOUS
  <1> QED BY <1>1, <1>2 DEF Attempt, MovedAttempt

\* The attempt that attempt.queued adds is well formed.
LEMMA NewAttemptType ==
    ASSUME NEW e \in Event, e.attemptId # None, NEW q \in Nat
    PROVE  NewAttempt(e, q) \in Attempt
  BY DEF Event, NewAttempt, Attempt, AttemptStatuses, UnresolvedAttempt

\* An attempt event leaves a snapshot (_apply_attempt_event, _replace_attempt).
LEMMA AttemptEventType ==
    ASSUME NEW s \in Snapshot, NEW e \in Event, NEW q \in Nat
    PROVE  AttemptEventResult(s, e, q) \in Snapshot
  <1> DEFINE moved == [i \in DOMAIN s.attempts |->
                         IF s.attempts[i].attemptId = e.attemptId
                         THEN MovedAttempt(s.attempts[i], e, q)
                         ELSE s.attempts[i]]
  <1>1. s.attempts \in Seq(Attempt)
    BY DEF Snapshot
  <1>2. \A i \in DOMAIN s.attempts : moved[i] \in Attempt
    BY <1>1, MovedAttemptType
  <1>3. moved \in Seq(Attempt)
    <2>1. Len(s.attempts) \in Nat /\ DOMAIN s.attempts = 1 .. Len(s.attempts)
      BY <1>1
    <2>2. moved \in [1 .. Len(s.attempts) -> Attempt]
      BY <1>2, <2>1
    <2> QED BY <2>1, <2>2, SeqDef
  <1>4. RunTo(e.type, s.status) \in RunStatuses
    BY DEF Snapshot, RunTo, RunStatuses
  <1> QED BY <1>3, <1>4 DEF AttemptEventResult, Snapshot

\* attempt.queued leaves a snapshot (_apply_attempt_queued).
LEMMA AttemptQueuedType ==
    ASSUME NEW s \in Snapshot, NEW e \in Event, e.attemptId # None, NEW q \in Nat
    PROVE  AttemptQueuedResult(s, e, q) \in Snapshot
  <1>1. NewAttempt(e, q) \in Attempt
    BY NewAttemptType
  <1>2. Append(s.attempts, NewAttempt(e, q)) \in Seq(Attempt)
    BY <1>1 DEF Snapshot
  <1> QED BY <1>2 DEF AttemptQueuedResult, Snapshot, Event, RunStatuses

\* A run event leaves a snapshot (_apply_run_event).
LEMMA RunEventType ==
    ASSUME NEW s \in Snapshot, NEW e \in Event
    PROVE  RunEventResult(s, e) \in Snapshot
  BY DEF RunEventResult, Snapshot, RunStatuses

\* What the fold computes from a snapshot is a snapshot, whether or not the
\* assertion of _stamp then refuses it.
LEMMA UpdatedType ==
    ASSUME NEW s \in Snapshot, NEW e \in Event, NEW q \in Nat, EnvelopeOK(e)
    PROVE  Updated(s, e, q) \in Snapshot
  <1>1. [s EXCEPT !.reviewSequence = q] \in Snapshot
    BY DEF Snapshot
  <1>2. e.type \in AttemptTypes => e.attemptId # None
    BY DEF EnvelopeOK
  <1>3. e.type = "attempt.queued" => AttemptQueuedResult(s, e, q) \in Snapshot
    BY <1>2, AttemptQueuedType DEF AttemptTypes
  <1>4. AttemptEventResult(s, e, q) \in Snapshot
    BY AttemptEventType
  <1>5. RunEventResult(s, e) \in Snapshot
    BY RunEventType
  <1> QED BY <1>1, <1>3, <1>4, <1>5 DEF Updated

\* The stamped copy of a transition is a snapshot.
LEMMA ResultType ==
    ASSUME NEW s \in Snapshot, NEW e \in Event, NEW q \in Nat, EnvelopeOK(e)
    PROVE  Result(s, e, q) \in Snapshot /\ Result(s, e, q).lastSequence = q
  BY UpdatedType DEF Result, Stamped, Snapshot

\* The first event of a run yields a snapshot (_apply_first).
LEMMA FirstSnapshotType ==
    ASSUME NEW e \in Event, NEW q \in Nat
    PROVE  FirstSnapshot(e, q) \in Snapshot
  BY DEF FirstSnapshot, Event, Snapshot, RunStatuses

\* The fold is total: a snapshot, nothing yet, or a refusal.
LEMMA ApplyType ==
    ASSUME NEW s \in Snapshot \union {None}, NEW e \in Event, NEW q \in Nat
    PROVE  Apply(s, e, q) \in Snapshot \union {None, Rejected}
  <1>1. CASE s = None
    BY <1>1, FirstSnapshotType DEF Apply
  <1>2. CASE s # None
    <2>1. EnvelopeOK(e) => Result(s, e, q) \in Snapshot
      BY <1>2, ResultType
    <2> QED BY <1>2, <2>1 DEF Apply, Guard
  <1> QED BY <1>1, <1>2

\* The fold of a draft is the first snapshot, the snapshot it was given (both
\* None), or the result of a transition whose guards hold.
LEMMA ApplyCases ==
    ASSUME NEW s \in Snapshot \union {None}, NEW e \in Event, NEW q \in Nat,
           Apply(s, e, q) # Rejected
    PROVE  \/ s = None /\ Apply(s, e, q) \in {None, FirstSnapshot(e, q)}
           \/ /\ s # None /\ s \in Snapshot
              /\ Apply(s, e, q) = Result(s, e, q)
              /\ Guard(s, e, q) /\ SnapshotOK(Result(s, e, q))
  BY DEF Apply

-----------------------------------------------------------------------------
(* The guards of a transition imply what _stamp asserts of its result.     *)

LEMMA AttemptsType ==
    ASSUME NEW s \in Snapshot
    PROVE  /\ Len(s.attempts) \in Nat
           /\ DOMAIN s.attempts = 1 .. Len(s.attempts)
           /\ \A i \in DOMAIN s.attempts : s.attempts[i] \in Attempt
  <1>1. s.attempts \in Seq(Attempt)
    BY DEF Snapshot
  <1> QED BY <1>1

\* The fields of a snapshot as the fold of an unrelated fact, of a review and of
\* a run event leaves them.
LEMMA KeptFields ==
    ASSUME NEW s \in Snapshot, NEW e \in Event, NEW q \in Nat,
           e.type \notin AttemptTypes
    PROVE  LET t == Result(s, e, q)
           IN  /\ t.attempts = s.attempts
               /\ t.maxAttempts = s.maxAttempts
               /\ t.lastSequence = q
               /\ t.reviewSequence = IF e.type = "run.reviewed" THEN q ELSE s.reviewSequence
  <1>1. e.type # "attempt.queued" /\ e.type \notin AttemptTypes \ {"attempt.queued"}
    BY DEF AttemptTypes
  <1>2. CASE e.type = "other"
    BY <1>2 DEF Result, Updated, Stamped, Snapshot
  <1>3. CASE e.type = "run.reviewed"
    BY <1>3 DEF Result, Updated, Stamped, Snapshot
  <1>4. CASE e.type # "other" /\ e.type # "run.reviewed"
    <2>1. Updated(s, e, q) = RunEventResult(s, e)
      BY <1>1, <1>4 DEF Updated
    <2>2. RunEventResult(s, e) \in Snapshot
      BY RunEventType
    <2>3. /\ RunEventResult(s, e).attempts = s.attempts
          /\ RunEventResult(s, e).maxAttempts = s.maxAttempts
          /\ RunEventResult(s, e).reviewSequence = s.reviewSequence
      BY DEF RunEventResult, Snapshot
    <2> QED BY <1>4, <2>1, <2>2, <2>3 DEF Result, Stamped, Snapshot
  <1> QED BY <1>2, <1>3, <1>4

\* The rules about the attempts alone, which a step that keeps the attempts and
\* advances the cursor keeps too.
LEMMA KeptAttemptsOK ==
    ASSUME NEW s \in Snapshot, NEW t \in Snapshot, SnapshotOK(s),
           t.attempts = s.attempts, t.maxAttempts = s.maxAttempts,
           s.lastSequence < t.lastSequence,
           t.reviewSequence \in {s.reviewSequence, t.lastSequence}
    PROVE  /\ OrdinalsContiguous(t) /\ IdsUnique(t) /\ AtMostOneUnresolved(t)
           /\ WithinMaxAttempts(t) /\ RetryChain(t) /\ CursorsIncrease(t)
           /\ Unresolved(t) = Unresolved(s)
  <1>1. Unresolved(t) = Unresolved(s)
    BY DEF Unresolved
  <1>2. OrdinalsContiguous(t) /\ IdsUnique(t) /\ RetryChain(t) /\ WithinMaxAttempts(t)
    BY DEF SnapshotOK, OrdinalsContiguous, IdsUnique, RetryChain, WithinMaxAttempts
  <1>3. AtMostOneUnresolved(t)
    BY <1>1 DEF SnapshotOK, AtMostOneUnresolved
  <1>4. CursorsIncrease(t)
    <2>1. s.lastSequence \in Nat /\ t.lastSequence \in Nat /\ s.reviewSequence \in Nat
      BY DEF Snapshot
    <2>2. \A i \in DOMAIN s.attempts : s.attempts[i].lastSequence \in Nat
      BY AttemptsType DEF Attempt
    <2>3. CursorsIncrease(s)
      BY DEF SnapshotOK
    <2> QED BY <2>1, <2>2, <2>3 DEF CursorsIncrease
  <1> QED BY <1>1, <1>2, <1>3, <1>4

\* An unrelated fact and a review touch neither status nor request.
LEMMA ObservedFields ==
    ASSUME NEW s \in Snapshot, NEW e \in Event, NEW q \in Nat,
           e.type \in {"other", "run.reviewed"}
    PROVE  LET t == Result(s, e, q)
           IN  /\ t.status = s.status /\ t.active = s.active
               /\ t.cancelRequested = s.cancelRequested
  <1>1. e.type \notin AttemptTypes /\ e.type # "attempt.queued"
    BY DEF AttemptTypes
  <1>2. CASE e.type = "other"
    BY <1>1, <1>2 DEF Result, Updated, Stamped, Snapshot
  <1>3. CASE e.type = "run.reviewed"
    BY <1>1, <1>3 DEF Result, Updated, Stamped, Snapshot
  <1> QED BY <1>2, <1>3

\* An unrelated fact and a review: only cursors move.
LEMMA ObservedOK ==
    ASSUME NEW s \in Snapshot, NEW e \in Event, NEW q \in Nat, SnapshotOK(s),
           Guard(s, e, q), e.type \in {"other", "run.reviewed"}
    PROVE  SnapshotOK(Result(s, e, q))
  <1> DEFINE t == Result(s, e, q)
  <1>1. t \in Snapshot
    BY ResultType DEF Guard
  <1>2. /\ t.status = s.status /\ t.active = s.active
        /\ t.cancelRequested = s.cancelRequested
    BY ObservedFields
  <1>3. e.type \notin AttemptTypes
    BY DEF AttemptTypes
  <1>4. /\ t.attempts = s.attempts /\ t.maxAttempts = s.maxAttempts
        /\ t.lastSequence = q
        /\ t.reviewSequence = IF e.type = "run.reviewed" THEN q ELSE s.reviewSequence
    BY <1>3, KeptFields
  <1>5. q > s.lastSequence
    BY DEF Guard, CursorAndBindingOK
  <1> HIDE DEF t
  <1>6. /\ OrdinalsContiguous(t) /\ IdsUnique(t) /\ AtMostOneUnresolved(t)
        /\ WithinMaxAttempts(t) /\ RetryChain(t) /\ CursorsIncrease(t)
        /\ Unresolved(t) = Unresolved(s)
    BY <1>1, <1>4, <1>5, KeptAttemptsOK
  <1>7. ActiveMatches(t)
    BY <1>2, <1>4, <1>6 DEF SnapshotOK, ActiveMatches
  <1>8. ReviewedOnlyTerminal(t)
    <2>1. e.type = "run.reviewed" => s.status \in TerminalRun
      BY DEF Guard
    <2>2. ReviewedOnlyTerminal(s)
      BY DEF SnapshotOK
    <2> QED BY <1>2, <1>4, <2>1, <2>2 DEF ReviewedOnlyTerminal
  <1>9. StatusMatchesAttempts(t)
    BY <1>2, <1>4, <1>6
       DEF SnapshotOK, StatusMatchesAttempts, LatestIs, Latest, ActiveIs
  <1>10. SnapshotOK(t)
    BY <1>6, <1>7, <1>8, <1>9 DEF SnapshotOK
  <1> QED BY <1>10 DEF t

\* What a run event makes of status, active attempt and cancellation request.
LEMMA RunEventFields ==
    ASSUME NEW s \in Snapshot, NEW e \in Event, NEW q \in Nat,
           e.type \in RunTypes \ {"run.queued", "run.reviewed"}
    PROVE  LET t == Result(s, e, q)
           IN  /\ t.status = CASE e.type = "run.started"   -> "running"
                               [] e.type = "run.completed" -> "completed"
                               [] e.type = "run.failed"    -> "failed"
                               [] e.type = "run.cancelled" -> "cancelled"
                               [] OTHER                    -> s.status
               /\ t.active = IF e.type \in {"run.started", "run.cancel.requested"}
                             THEN s.active ELSE None
               /\ t.cancelRequested = IF e.type = "run.cancel.requested"
                                      THEN TRUE ELSE s.cancelRequested
  <1>1. e.type \notin AttemptTypes /\ e.type \notin {"other", "run.reviewed", "attempt.queued"}
    BY DEF RunTypes, AttemptTypes
  <1>2. Result(s, e, q) = Stamped(RunEventResult(s, e), q)
    BY <1>1 DEF Result, Updated
  <1>3. CASE e.type = "run.started"
    BY <1>2, <1>3 DEF RunEventResult, Stamped, Snapshot
  <1>4. CASE e.type = "run.cancel.requested"
    BY <1>2, <1>4 DEF RunEventResult, Stamped, Snapshot
  <1>5. CASE e.type = "run.completed"
    BY <1>2, <1>5 DEF RunEventResult, Stamped, Snapshot
  <1>6. CASE e.type = "run.failed"
    BY <1>2, <1>6 DEF RunEventResult, Stamped, Snapshot
  <1>7. CASE e.type = "run.cancelled"
    BY <1>2, <1>7 DEF RunEventResult, Stamped, Snapshot
  <1> QED BY <1>3, <1>4, <1>5, <1>6, <1>7 DEF RunTypes

\* A run event the guards admit leaves a snapshot that obeys the rules.
LEMMA RunEventKeepsRules ==
    ASSUME NEW s \in Snapshot, NEW e \in Event, NEW q \in Nat, SnapshotOK(s),
           Guard(s, e, q), e.type \in RunTypes \ {"run.reviewed"}
    PROVE  SnapshotOK(Result(s, e, q))
  <1> DEFINE t == Result(s, e, q)
  <1>1. t \in Snapshot
    BY ResultType DEF Guard
  <1>2. /\ RunEventOK(s, e)
        /\ s.status \notin TerminalRun
        /\ q > s.lastSequence
    BY DEF Guard, CursorAndBindingOK, LifecycleTypes
  <1>3. e.type \in RunTypes \ {"run.queued", "run.reviewed"} /\ e.type \notin AttemptTypes
    BY <1>2 DEF RunEventOK, RunTypes, AttemptTypes
  <1>4. /\ t.attempts = s.attempts /\ t.maxAttempts = s.maxAttempts
        /\ t.lastSequence = q /\ t.reviewSequence = s.reviewSequence
    BY <1>3, KeptFields
  <1>5. /\ t.status = CASE e.type = "run.started"   -> "running"
                        [] e.type = "run.completed" -> "completed"
                        [] e.type = "run.failed"    -> "failed"
                        [] e.type = "run.cancelled" -> "cancelled"
                        [] OTHER                    -> s.status
        /\ t.active = IF e.type \in {"run.started", "run.cancel.requested"}
                      THEN s.active ELSE None
        /\ t.cancelRequested = IF e.type = "run.cancel.requested"
                               THEN TRUE ELSE s.cancelRequested
    BY <1>3, RunEventFields
  <1> HIDE DEF t
  <1>6. /\ OrdinalsContiguous(t) /\ IdsUnique(t) /\ AtMostOneUnresolved(t)
        /\ WithinMaxAttempts(t) /\ RetryChain(t) /\ CursorsIncrease(t)
        /\ Unresolved(t) = Unresolved(s)
    BY <1>1, <1>2, <1>4, KeptAttemptsOK
  <1>7. ActiveMatches(t)
    <2>1. CASE e.type \in {"run.started", "run.cancel.requested"}
      BY <1>4, <1>5, <1>6, <2>1 DEF SnapshotOK, ActiveMatches
    <2>2. CASE e.type \notin {"run.started", "run.cancel.requested"}
      <3>1. Unresolved(s) = {}
        BY <1>2, <2>2 DEF RunEventOK
      <3> QED BY <1>5, <1>6, <2>2, <3>1 DEF ActiveMatches
    <2> QED BY <2>1, <2>2
  <1>8. ReviewedOnlyTerminal(t)
    BY <1>2, <1>4 DEF SnapshotOK, ReviewedOnlyTerminal
  <1>9. StatusMatchesAttempts(t)
    <2>1. StatusMatchesAttempts(s)
      BY DEF SnapshotOK
    <2>2. CASE e.type = "run.started"
      <3>1. s.status = "queued" /\ t.status = "running"
        BY <1>2, <1>5, <2>2 DEF RunEventOK
      <3>2. s.attempts = << >>
        BY <2>1, <3>1 DEF StatusMatchesAttempts
      <3> QED BY <1>4, <3>1, <3>2 DEF StatusMatchesAttempts
    <2>3. CASE e.type = "run.cancel.requested"
      <3>1. t.status = s.status /\ t.active = s.active
        BY <1>5, <2>3
      <3> QED BY <1>2, <1>4, <1>6, <2>1, <3>1
              DEF StatusMatchesAttempts, LatestIs, Latest, ActiveIs, TerminalRun
    <2>4. CASE e.type = "run.completed"
      <3>1. t.status = "completed" /\ LatestIs(s, {"succeeded"}) /\ Unresolved(s) = {}
        BY <1>2, <1>5, <2>4 DEF RunEventOK
      <3> QED BY <1>4, <1>6, <3>1 DEF StatusMatchesAttempts, LatestIs, Latest
    <2>5. CASE e.type = "run.failed"
      <3>1. t.status = "failed" /\ LatestIs(s, {"failed"}) /\ Unresolved(s) = {}
        BY <1>2, <1>5, <2>5 DEF RunEventOK
      <3> QED BY <1>4, <1>6, <3>1 DEF StatusMatchesAttempts, LatestIs, Latest
    <2>6. CASE e.type = "run.cancelled"
      <3>1. /\ t.status = "cancelled" /\ s.cancelRequested /\ Unresolved(s) = {}
            /\ s.attempts = << >> \/ LatestIs(s, {"cancelled"})
        BY <1>2, <1>5, <2>6 DEF RunEventOK
      <3>2. t.cancelRequested
        BY <1>5, <2>6, <3>1
      <3>3. t.attempts = << >> \/ LatestIs(t, {"cancelled"})
        BY <1>4, <3>1 DEF LatestIs, Latest
      <3> QED BY <1>6, <3>1, <3>2, <3>3 DEF StatusMatchesAttempts
    <2> QED BY <1>3, <2>2, <2>3, <2>4, <2>5, <2>6 DEF RunTypes
  <1>10. SnapshotOK(t)
    BY <1>6, <1>7, <1>8, <1>9 DEF SnapshotOK
  <1> QED BY <1>10 DEF t

\* The snapshot that attempt.queued leaves: the old attempts and a new one.
LEMMA AttemptQueuedFields ==
    ASSUME NEW s \in Snapshot, NEW e \in Event, NEW q \in Nat, e.type = "attempt.queued"
    PROVE  LET t == Result(s, e, q)
               n == Len(s.attempts)
           IN  /\ t.status = "running" /\ t.active = e.attemptId
               /\ t.cancelRequested = s.cancelRequested
               /\ t.maxAttempts = s.maxAttempts /\ t.lastSequence = q
               /\ t.reviewSequence = s.reviewSequence
               /\ Len(t.attempts) = n + 1 /\ DOMAIN t.attempts = 1 .. n + 1
               /\ \A i \in 1 .. n : t.attempts[i] = s.attempts[i]
               /\ t.attempts[n + 1] = NewAttempt(e, q)
  <1>1. Result(s, e, q) = Stamped(AttemptQueuedResult(s, e, q), q)
    BY DEF Result, Updated
  <1>2. Result(s, e, q).attempts = Append(s.attempts, NewAttempt(e, q))
    BY <1>1 DEF AttemptQueuedResult, Stamped, Snapshot
  <1>3. s.attempts \in Seq(Attempt)
    BY DEF Snapshot
  <1>4. LET u == Append(s.attempts, NewAttempt(e, q))
            n == Len(s.attempts)
        IN  /\ Len(u) = n + 1 /\ DOMAIN u = 1 .. n + 1
            /\ \A i \in 1 .. n : u[i] = s.attempts[i]
            /\ u[n + 1] = NewAttempt(e, q)
    BY <1>3
  <1>5. LET t == Result(s, e, q)
        IN  /\ t.status = "running" /\ t.active = e.attemptId
            /\ t.cancelRequested = s.cancelRequested
            /\ t.maxAttempts = s.maxAttempts /\ t.lastSequence = q
            /\ t.reviewSequence = s.reviewSequence
    BY <1>1 DEF AttemptQueuedResult, Stamped, Snapshot
  <1> QED BY <1>2, <1>4, <1>5

\* attempt.queued, admitted by its guards, keeps the rules: the new attempt is
\* the only unresolved one, continues the ordinals and points at a failed try.
LEMMA AttemptQueuedKeepsRules ==
    ASSUME NEW s \in Snapshot, NEW e \in Event, NEW q \in Nat, SnapshotOK(s),
           Guard(s, e, q), e.type = "attempt.queued"
    PROVE  SnapshotOK(Result(s, e, q))
  <1> DEFINE t == Result(s, e, q)
             n == Len(s.attempts)
             new == NewAttempt(e, q)
  <1>1. /\ t.status = "running" /\ t.active = e.attemptId
        /\ t.maxAttempts = s.maxAttempts /\ t.lastSequence = q
        /\ t.reviewSequence = s.reviewSequence
        /\ Len(t.attempts) = n + 1 /\ DOMAIN t.attempts = 1 .. n + 1
        /\ \A i \in 1 .. n : t.attempts[i] = s.attempts[i]
        /\ t.attempts[n + 1] = new
    BY AttemptQueuedFields
  <1>2. /\ AttemptQueuedOK(s, e)
        /\ s.status \notin TerminalRun
        /\ q > s.lastSequence
    BY DEF Guard, CursorAndBindingOK, LifecycleTypes, AttemptTypes
  <1>3. /\ n \in Nat /\ DOMAIN s.attempts = 1 .. n
        /\ \A i \in 1 .. n : s.attempts[i] \in Attempt
    BY AttemptsType
  <1>4. new.status = "queued" /\ new.attemptId = e.attemptId /\ new.ordinal = e.ordinal
        /\ new.retryOf = e.retryOf /\ new.decided = e.decided
        /\ new.lastSequence = q /\ new.lastHeartbeat = 0
    BY DEF NewAttempt
  <1>5. s.lastSequence \in Nat /\ s.reviewSequence \in Nat /\ s.maxAttempts \in Nat
    BY DEF Snapshot, Ordinals
  <1> HIDE DEF t, new, n
  <1>6. Unresolved(s) = {} /\ n < s.maxAttempts
    BY <1>2 DEF AttemptQueuedOK, n
  <1>7. Unresolved(t) = {n + 1}
    <2>1. n + 1 \in Unresolved(t)
      BY <1>1, <1>3, <1>4 DEF Unresolved, UnresolvedAttempt
    <2>2. \A i \in 1 .. n : i \notin Unresolved(t)
      BY <1>1, <1>3, <1>6 DEF Unresolved
    <2> QED BY <1>1, <1>3, <2>1, <2>2 DEF Unresolved
  <1>8. OrdinalsContiguous(t) /\ RetryChain(t)
    <2>1. OrdinalsContiguous(s) /\ RetryChain(s)
      BY DEF SnapshotOK
    <2>2. CASE n = 0
      <3>1. FirstAttemptOK(s, e)
        BY <1>2, <2>2 DEF AttemptQueuedOK, RetryOK, LatestIs, n
      <3> QED BY <1>1, <1>4, <2>2, <3>1 DEF OrdinalsContiguous, RetryChain, FirstAttemptOK
    <2>3. CASE n # 0
      <3>1. RetryOK(s, e)
        BY <1>2, <2>3 DEF AttemptQueuedOK, FirstAttemptOK, n
      <3>2. s.attempts[n].ordinal = n
        BY <1>3, <2>1, <2>3 DEF OrdinalsContiguous
      <3>3. /\ e.ordinal = n + 1 /\ s.attempts[n].status = "failed"
            /\ e.retryOf = s.attempts[n].attemptId /\ e.decided
        BY <3>1, <3>2 DEF RetryOK, LatestIs, Latest, n
      <3>4. OrdinalsContiguous(t)
        BY <1>1, <1>3, <1>4, <2>1, <3>3 DEF OrdinalsContiguous
      <3>5. RetryChain(t)
        <4>1. t.attempts[n + 1].decided
          BY <1>1, <1>4, <3>3
        <4>2. /\ t.attempts[n].status = "failed"
              /\ t.attempts[n + 1].retryOf = t.attempts[n].attemptId
          BY <1>1, <1>3, <1>4, <2>3, <3>3
        <4>3. ASSUME NEW i \in 1 .. n, i # 1
              PROVE  t.attempts[i - 1] = s.attempts[i - 1]
          <5>1. i - 1 \in 1 .. n
            BY <1>3, <4>3
          <5> QED BY <1>1, <5>1
        <4>4. n + 1 # 1 /\ (n + 1) - 1 = n
          BY <1>3, <2>3
        <4>5. ASSUME NEW i \in 1 .. n + 1
              PROVE  IF i = 1
                     THEN t.attempts[1].retryOf = None /\ ~t.attempts[1].decided
                     ELSE /\ t.attempts[i - 1].status = "failed"
                          /\ t.attempts[i].retryOf = t.attempts[i - 1].attemptId
                          /\ t.attempts[i].decided
          <5>1. CASE i = n + 1
            BY <4>1, <4>2, <4>4, <5>1
          <5>2. CASE i # n + 1
            <6>1. i \in 1 .. n /\ 1 \in 1 .. n
              BY <1>3, <2>3, <5>2
            <6>2. t.attempts[i] = s.attempts[i] /\ t.attempts[1] = s.attempts[1]
              BY <1>1, <6>1
            <6>3. i # 1 => t.attempts[i - 1] = s.attempts[i - 1]
              BY <4>3, <6>1
            <6>4. CASE i = 1
              <7>1. s.attempts[1].retryOf = None /\ ~s.attempts[1].decided
                BY <1>3, <2>1, <6>1 DEF RetryChain
              <7> QED BY <6>2, <6>4, <7>1
            <6>5. CASE i # 1
              <7>1. /\ s.attempts[i - 1].status = "failed"
                    /\ s.attempts[i].retryOf = s.attempts[i - 1].attemptId
                    /\ s.attempts[i].decided
                BY <1>3, <2>1, <6>1, <6>5 DEF RetryChain
              <7> QED BY <6>2, <6>3, <6>5, <7>1
            <6> QED BY <6>4, <6>5
          <5> QED BY <5>1, <5>2
        <4> QED BY <1>1, <4>5 DEF RetryChain
      <3> QED BY <3>4, <3>5
    <2> QED BY <2>2, <2>3
  <1>9. IdsUnique(t)
    <2>1. \A i \in 1 .. n : s.attempts[i].attemptId # e.attemptId
      BY <1>2, <1>3 DEF AttemptQueuedOK
    <2>2. IdsUnique(s)
      BY DEF SnapshotOK
    <2>3. ASSUME NEW i \in 1 .. n + 1, NEW j \in 1 .. n + 1,
                 t.attempts[i].attemptId = t.attempts[j].attemptId
          PROVE  i = j
      <3>1. CASE i \in 1 .. n /\ j \in 1 .. n
        BY <1>1, <1>3, <2>2, <2>3, <3>1 DEF IdsUnique
      <3>2. CASE i = n + 1 /\ j \in 1 .. n
        BY <1>1, <1>4, <2>1, <2>3, <3>2
      <3>3. CASE i \in 1 .. n /\ j = n + 1
        BY <1>1, <1>4, <2>1, <2>3, <3>3
      <3> QED BY <1>3, <3>1, <3>2, <3>3
    <2> QED BY <1>1, <2>3 DEF IdsUnique
  <1>10. AtMostOneUnresolved(t) /\ ActiveMatches(t)
    BY <1>1, <1>4, <1>7 DEF AtMostOneUnresolved, ActiveMatches
  <1>11. ReviewedOnlyTerminal(t)
    BY <1>1, <1>2 DEF SnapshotOK, ReviewedOnlyTerminal
  <1>12. WithinMaxAttempts(t)
    BY <1>1, <1>3, <1>5, <1>6 DEF WithinMaxAttempts
  <1>13. StatusMatchesAttempts(t)
    <2>1. ActiveIs(t, {"queued", "running"})
      BY <1>1, <1>3, <1>4 DEF ActiveIs
    <2> QED BY <1>1, <2>1 DEF StatusMatchesAttempts
  <1>14. CursorsIncrease(t)
    <2>1. CursorsIncrease(s)
      BY DEF SnapshotOK
    <2>2. \A i \in 1 .. n : s.attempts[i].lastSequence \in Nat
      BY <1>3 DEF Attempt
    <2>3. \A i \in 1 .. n : /\ s.attempts[i].lastSequence <= s.lastSequence
                            /\ s.attempts[i].lastHeartbeat <= s.attempts[i].lastSequence
                            /\ s.attempts[i].lastSequence > 0
      BY <1>3, <2>1 DEF CursorsIncrease
    <2>4. \A i \in 1 .. n : i > 1 => s.attempts[i - 1].lastSequence < s.attempts[i].lastSequence
      BY <1>3, <2>1 DEF CursorsIncrease
    <2>5. \A i \in 1 .. n : s.attempts[i].lastSequence < q
      BY <1>2, <1>5, <2>2, <2>3
    <2>6. \A i \in 1 .. n + 1 : /\ t.attempts[i].lastSequence <= q
                                /\ t.attempts[i].lastHeartbeat <= t.attempts[i].lastSequence
                                /\ t.attempts[i].lastSequence > 0
      <3>1. ASSUME NEW i \in 1 .. n
            PROVE  /\ t.attempts[i].lastSequence <= q
                   /\ t.attempts[i].lastHeartbeat <= t.attempts[i].lastSequence
                   /\ t.attempts[i].lastSequence > 0
        <4>1. t.attempts[i] = s.attempts[i] /\ s.attempts[i].lastSequence \in Nat
          BY <1>1, <2>2
        <4>2. /\ s.attempts[i].lastSequence < q
              /\ s.attempts[i].lastHeartbeat <= s.attempts[i].lastSequence
              /\ s.attempts[i].lastSequence > 0
          BY <2>3, <2>5
        <4> QED BY <4>1, <4>2
      <3>2. q > 0 /\ 0 <= q
        BY <1>2, <1>5
      <3>3. /\ t.attempts[n + 1].lastSequence = q
            /\ t.attempts[n + 1].lastHeartbeat = 0
        BY <1>1, <1>4
      <3> QED BY <1>3, <3>1, <3>2, <3>3
    <2>7. \A i \in 1 .. n + 1 : i > 1 => t.attempts[i - 1].lastSequence < t.attempts[i].lastSequence
      <3>1. ASSUME NEW i \in 1 .. n, i > 1
            PROVE  t.attempts[i - 1].lastSequence < t.attempts[i].lastSequence
        <4>1. i - 1 \in 1 .. n
          BY <1>3, <3>1
        <4>2. t.attempts[i - 1] = s.attempts[i - 1] /\ t.attempts[i] = s.attempts[i]
          BY <1>1, <4>1
        <4> QED BY <2>4, <3>1, <4>2
      <3>2. n > 0 => t.attempts[(n + 1) - 1].lastSequence < t.attempts[n + 1].lastSequence
        BY <1>1, <1>3, <1>4, <2>5
      <3> SUFFICES ASSUME NEW i \in 1 .. n + 1, i > 1
                   PROVE  t.attempts[i - 1].lastSequence < t.attempts[i].lastSequence
        OBVIOUS
      <3>3. i \in 1 .. n \/ (i = n + 1 /\ n > 0)
        BY <1>3
      <3> QED BY <3>1, <3>2, <3>3
    <2>8. s.reviewSequence <= q
      BY <1>2, <1>5, <2>1 DEF CursorsIncrease
    <2> QED BY <1>1, <2>6, <2>7, <2>8 DEF CursorsIncrease
  <1>15. SnapshotOK(t)
    BY <1>8, <1>9, <1>10, <1>11, <1>12, <1>13, <1>14 DEF SnapshotOK
  <1> QED BY <1>15 DEF t

\* Only the last attempt of a snapshot can be unresolved: every earlier one
\* failed and was retried.
LEMMA UnresolvedIsLast ==
    ASSUME NEW s \in Snapshot, SnapshotOK(s), NEW i \in Unresolved(s)
    PROVE  i = Len(s.attempts)
  <1>1. /\ Len(s.attempts) \in Nat /\ DOMAIN s.attempts = 1 .. Len(s.attempts)
        /\ i \in DOMAIN s.attempts /\ s.attempts[i].status \in UnresolvedAttempt
    BY AttemptsType DEF Unresolved
  <1>2. SUFFICES ASSUME i # Len(s.attempts) PROVE FALSE
    OBVIOUS
  <1>3. i + 1 \in DOMAIN s.attempts /\ i + 1 # 1 /\ (i + 1) - 1 = i
    BY <1>1, <1>2
  <1>4. s.attempts[i].status = "failed"
    BY <1>3 DEF SnapshotOK, RetryChain
  <1> QED BY <1>1, <1>4 DEF UnresolvedAttempt

\* What a transition keeps of an attempt and what it changes.
LEMMA MovedFields ==
    ASSUME NEW a \in Attempt, NEW e \in Event, NEW q \in Nat
    PROVE  LET m == MovedAttempt(a, e, q)
           IN  /\ m.attemptId = a.attemptId /\ m.ordinal = a.ordinal
               /\ m.retryOf = a.retryOf /\ m.decided = a.decided
               /\ m.status = AttemptTo(e.type, a.status)
               /\ m.lastSequence = q /\ m.lastHeartbeat \in {q, a.lastHeartbeat}
  BY DEF MovedAttempt, Attempt

\* The snapshot an admitted attempt event leaves: the last attempt moved.
LEMMA AttemptEventFields ==
    ASSUME NEW s \in Snapshot, NEW e \in Event, NEW q \in Nat, SnapshotOK(s),
           Guard(s, e, q), e.type \in AttemptTypes \ {"attempt.queued"}
    PROVE  LET t == Result(s, e, q)
               n == Len(s.attempts)
           IN  /\ n \in Nat \ {0}
               /\ s.active = e.attemptId /\ s.attempts[n].attemptId = e.attemptId
               /\ s.attempts[n].status \in AttemptFrom(e.type)
               /\ s.attempts[n].status \in UnresolvedAttempt
               /\ t.status = RunTo(e.type, s.status)
               /\ t.active = IF AttemptTo(e.type, "running") \in TerminalAttempt
                             THEN None ELSE s.active
               /\ t.cancelRequested = s.cancelRequested
               /\ t.maxAttempts = s.maxAttempts /\ t.lastSequence = q
               /\ t.reviewSequence = s.reviewSequence
               /\ Len(t.attempts) = n /\ DOMAIN t.attempts = 1 .. n
               /\ \A i \in 1 .. n - 1 : t.attempts[i] = s.attempts[i]
               /\ t.attempts[n] = MovedAttempt(s.attempts[n], e, q)
  <1> DEFINE t == Result(s, e, q)
             n == Len(s.attempts)
  <1>1. e.type \notin {"other", "run.reviewed", "attempt.queued"}
    BY DEF AttemptTypes
  <1>2. t = Stamped(AttemptEventResult(s, e, q), q)
    BY <1>1 DEF Result, Updated
  <1>3. /\ n \in Nat /\ DOMAIN s.attempts = 1 .. n
        /\ \A i \in 1 .. n : s.attempts[i] \in Attempt
    BY AttemptsType
  <1>4. PICK k \in DOMAIN s.attempts : /\ s.attempts[k].attemptId = e.attemptId
                                       /\ s.active = e.attemptId
                                       /\ s.attempts[k].status \in AttemptFrom(e.type)
    BY DEF Guard, AttemptEventOK
  <1>5. s.attempts[k].status \in UnresolvedAttempt
    BY <1>4 DEF AttemptFrom, UnresolvedAttempt
  <1>6. k = n /\ n # 0
    <2>1. k \in Unresolved(s)
      BY <1>4, <1>5 DEF Unresolved
    <2> QED BY <1>3, <2>1, UnresolvedIsLast
  <1>7. \A i \in 1 .. n - 1 : s.attempts[i].attemptId # e.attemptId
    <2>1. ASSUME NEW i \in 1 .. n - 1 PROVE s.attempts[i].attemptId # e.attemptId
      <3>1. i \in DOMAIN s.attempts /\ i # n
        BY <1>3
      <3>2. s.attempts[n].attemptId = e.attemptId /\ n \in DOMAIN s.attempts
        BY <1>4, <1>6
      <3> QED BY <3>1, <3>2 DEF SnapshotOK, IdsUnique
    <2> QED BY <2>1
  <1>8. t.attempts = [i \in DOMAIN s.attempts |->
                         IF s.attempts[i].attemptId = e.attemptId
                         THEN MovedAttempt(s.attempts[i], e, q)
                         ELSE s.attempts[i]]
    BY <1>2 DEF AttemptEventResult, Stamped, Snapshot
  <1>9. /\ t.status = RunTo(e.type, s.status)
        /\ t.active = IF AttemptTo(e.type, "running") \in TerminalAttempt
                      THEN None ELSE s.active
        /\ t.cancelRequested = s.cancelRequested
        /\ t.maxAttempts = s.maxAttempts /\ t.lastSequence = q
        /\ t.reviewSequence = s.reviewSequence
    BY <1>2 DEF AttemptEventResult, Stamped, Snapshot
  <1>10. t \in Snapshot
    BY ResultType DEF Guard
  <1> HIDE DEF t
  <1>11. DOMAIN t.attempts = 1 .. n
    BY <1>3, <1>8
  <1>12. Len(t.attempts) = n
    BY <1>3, <1>10, <1>11, AttemptsType
  <1>13. \A i \in 1 .. n - 1 : t.attempts[i] = s.attempts[i]
    BY <1>3, <1>7, <1>8
  <1>14. t.attempts[n] = MovedAttempt(s.attempts[n], e, q)
    BY <1>3, <1>4, <1>6, <1>8
  <1> QED BY <1>3, <1>4, <1>5, <1>6, <1>9, <1>11, <1>12, <1>13, <1>14 DEF t

\* Where an attempt event leads, by what the guards let it start from.
LEMMA AttemptEventTable ==
    ASSUME NEW type \in AttemptTypes \ {"attempt.queued"}, NEW from \in AttemptFrom(type),
           NEW run
    PROVE  LET to == AttemptTo(type, from)
           IN  \/ /\ type \in {"attempt.started", "attempt.recovered"}
                  /\ to = "running" /\ RunTo(type, run) = "running"
               \/ type = "attempt.unknown" /\ to = "unknown" /\ RunTo(type, run) = "unknown"
               \/ type = "attempt.lost" /\ to = "lost" /\ RunTo(type, run) = "lost"
               \/ /\ type \in {"attempt.heartbeat", "attempt.cancel.requested"}
                  /\ to = from /\ RunTo(type, run) = run
               \/ /\ type \in {"attempt.succeeded", "attempt.cancelled"}
                  /\ to \in {"succeeded", "cancelled"} /\ RunTo(type, run) = "running"
               \/ type = "attempt.failed" /\ to = "failed" /\ RunTo(type, run) = "retry_pending"
  BY DEF AttemptTypes, AttemptTo, RunTo

\* activeAttemptId is cleared by exactly the events that resolve the attempt.
LEMMA ActiveCleared ==
    ASSUME NEW type \in AttemptTypes \ {"attempt.queued"}, NEW from \in AttemptFrom(type),
           from \in UnresolvedAttempt
    PROVE  /\ AttemptTo(type, from) \in UnresolvedAttempt \union TerminalAttempt
           /\ AttemptTo(type, "running") \in TerminalAttempt
                <=> AttemptTo(type, from) \notin UnresolvedAttempt
  BY DEF AttemptTypes, AttemptTo, UnresolvedAttempt, TerminalAttempt

\* An admitted attempt event keeps the rules.
LEMMA AttemptEventKeepsRules ==
    ASSUME NEW s \in Snapshot, NEW e \in Event, NEW q \in Nat, SnapshotOK(s),
           Guard(s, e, q), e.type \in AttemptTypes \ {"attempt.queued"}
    PROVE  SnapshotOK(Result(s, e, q))
  <1> DEFINE t == Result(s, e, q)
             n == Len(s.attempts)
             old == s.attempts[n]
             new == MovedAttempt(old, e, q)
  <1>1. /\ n \in Nat \ {0}
        /\ s.active = e.attemptId /\ old.attemptId = e.attemptId
        /\ old.status \in AttemptFrom(e.type) /\ old.status \in UnresolvedAttempt
        /\ t.status = RunTo(e.type, s.status)
        /\ t.active = IF AttemptTo(e.type, "running") \in TerminalAttempt
                      THEN None ELSE s.active
        /\ t.cancelRequested = s.cancelRequested
        /\ t.maxAttempts = s.maxAttempts /\ t.lastSequence = q
        /\ t.reviewSequence = s.reviewSequence
        /\ Len(t.attempts) = n /\ DOMAIN t.attempts = 1 .. n
        /\ \A i \in 1 .. n - 1 : t.attempts[i] = s.attempts[i]
        /\ t.attempts[n] = new
    BY AttemptEventFields
  <1>2. /\ DOMAIN s.attempts = 1 .. n /\ n \in 1 .. n
        /\ \A i \in 1 .. n : s.attempts[i] \in Attempt
    BY <1>1, AttemptsType
  <1>3. /\ new.attemptId = old.attemptId /\ new.ordinal = old.ordinal
        /\ new.retryOf = old.retryOf /\ new.decided = old.decided
        /\ new.status = AttemptTo(e.type, old.status)
        /\ new.lastSequence = q /\ new.lastHeartbeat \in {q, old.lastHeartbeat}
    BY <1>2, MovedFields
  <1>4. s.status \notin TerminalRun /\ q > s.lastSequence
    BY DEF Guard, CursorAndBindingOK, LifecycleTypes, AttemptTypes
  <1>5. s.lastSequence \in Nat /\ s.reviewSequence \in Nat /\ old.lastSequence \in Nat
        /\ old.lastHeartbeat \in Nat
    BY <1>2 DEF Snapshot, Attempt
  <1> HIDE DEF t, n, old, new
  <1>6. \A i \in 1 .. n : i \in 1 .. n - 1 \/ i = n
    BY <1>1
  <1>7. \A i \in 1 .. n : /\ t.attempts[i].attemptId = s.attempts[i].attemptId
                          /\ t.attempts[i].ordinal = s.attempts[i].ordinal
                          /\ t.attempts[i].retryOf = s.attempts[i].retryOf
                          /\ t.attempts[i].decided = s.attempts[i].decided
    BY <1>1, <1>3, <1>6 DEF old
  <1>8. /\ n \in Unresolved(s)
        /\ \A i \in 1 .. n - 1 : i \notin Unresolved(s) /\ i \notin Unresolved(t)
        /\ n \in Unresolved(t) <=> new.status \in UnresolvedAttempt
        /\ Unresolved(t) \subseteq 1 .. n
    <2>1. n \in Unresolved(s)
      BY <1>1, <1>2 DEF Unresolved, old
    <2>2. ASSUME NEW i \in 1 .. n - 1 PROVE i \notin Unresolved(s) /\ i \notin Unresolved(t)
      <3>1. i # n /\ i \in 1 .. n
        BY <1>1
      <3>2. i \notin Unresolved(s)
        BY <2>1, <3>1 DEF SnapshotOK, AtMostOneUnresolved
      <3> QED BY <1>1, <1>2, <3>1, <3>2 DEF Unresolved
    <2>3. /\ n \in Unresolved(t) <=> new.status \in UnresolvedAttempt
          /\ Unresolved(t) \subseteq 1 .. n
      BY <1>1, <1>2 DEF Unresolved
    <2> QED BY <2>1, <2>2, <2>3
  <1>9. OrdinalsContiguous(t) /\ IdsUnique(t) /\ WithinMaxAttempts(t)
    BY <1>1, <1>2, <1>7 DEF SnapshotOK, OrdinalsContiguous, IdsUnique, WithinMaxAttempts, n
  <1>10. AtMostOneUnresolved(t)
    BY <1>6, <1>8 DEF AtMostOneUnresolved
  <1>11. ActiveMatches(t)
    <2>1. CASE new.status \in UnresolvedAttempt
      <3>1. t.active = s.active
        BY <1>1, <1>3, <2>1, ActiveCleared
      <3>2. n \in Unresolved(t) /\ t.active = t.attempts[n].attemptId
        BY <1>1, <1>3, <1>8, <2>1, <3>1
      <3> QED BY <3>2 DEF ActiveMatches
    <2>2. CASE new.status \notin UnresolvedAttempt
      <3>1. t.active = None
        BY <1>1, <1>3, <2>2, ActiveCleared
      <3>2. Unresolved(t) = {}
        BY <1>6, <1>8, <2>2
      <3> QED BY <3>1, <3>2 DEF ActiveMatches
    <2> QED BY <2>1, <2>2
  <1>12. ReviewedOnlyTerminal(t)
    BY <1>1, <1>4 DEF SnapshotOK, ReviewedOnlyTerminal
  <1>13. StatusMatchesAttempts(t)
    <2>1. t.attempts # << >> /\ Latest(t) = new
      BY <1>1 DEF Latest
    <2>2. new.status \in UnresolvedAttempt => ActiveIs(t, {new.status})
      <3>1. ASSUME new.status \in UnresolvedAttempt PROVE ActiveIs(t, {new.status})
        <4>1. t.active = s.active
          BY <1>1, <1>3, <3>1, ActiveCleared
        <4> QED BY <1>1, <1>2, <1>3, <4>1 DEF ActiveIs
      <3> QED BY <3>1
    <2>3. new.status \notin UnresolvedAttempt => Unresolved(t) = {}
      BY <1>6, <1>8
    <2>4. \/ t.status = "running" /\ new.status = "running"
          \/ t.status = "unknown" /\ new.status = "unknown"
          \/ t.status = "lost" /\ new.status = "lost"
          \/ /\ t.status = s.status /\ new.status = old.status
          \/ t.status = "running" /\ new.status \in {"succeeded", "cancelled"}
          \/ t.status = "retry_pending" /\ new.status = "failed"
      BY <1>1, <1>3, AttemptEventTable
    <2>5. CASE t.status = "running" /\ new.status = "running"
      BY <2>2, <2>5 DEF StatusMatchesAttempts, ActiveIs, UnresolvedAttempt
    <2>6. CASE t.status = "unknown" /\ new.status = "unknown"
      BY <2>2, <2>6 DEF StatusMatchesAttempts, UnresolvedAttempt
    <2>7. CASE t.status = "lost" /\ new.status = "lost"
      BY <2>2, <2>7 DEF StatusMatchesAttempts, UnresolvedAttempt
    <2>8. CASE t.status = s.status /\ new.status = old.status
      <3>1. ASSUME NEW S, ActiveIs(s, S) PROVE old.status \in S
        <4>1. PICK i \in 1 .. n : s.attempts[i].attemptId = s.active
                                  /\ s.attempts[i].status \in S
          BY <1>2, <3>1 DEF ActiveIs
        <4>2. i = n
          BY <1>1, <1>2, <4>1 DEF SnapshotOK, IdsUnique, old
        <4> QED BY <4>1, <4>2 DEF old
      <3>2. StatusMatchesAttempts(s) /\ Unresolved(s) # {} /\ s.attempts # << >>
        BY <1>1, <1>8 DEF SnapshotOK, n
      <3>3. /\ s.status = "lost" => old.status = "lost"
            /\ s.status = "unknown" => old.status = "unknown"
            /\ s.status = "running" => old.status \in {"queued", "running"}
            /\ s.status \notin {"queued", "retry_pending", "failed", "completed", "cancelled"}
        BY <3>1, <3>2 DEF StatusMatchesAttempts
      <3>4. ActiveIs(t, {old.status})
        BY <1>1, <2>2, <2>8
      <3> QED BY <2>8, <3>3, <3>4 DEF StatusMatchesAttempts, ActiveIs
    <2>9. CASE t.status = "running" /\ new.status \in {"succeeded", "cancelled"}
      BY <2>1, <2>3, <2>9 DEF StatusMatchesAttempts, LatestIs, UnresolvedAttempt
    <2>10. CASE t.status = "retry_pending" /\ new.status = "failed"
      BY <2>1, <2>3, <2>10 DEF StatusMatchesAttempts, LatestIs, UnresolvedAttempt
    <2> QED BY <2>4, <2>5, <2>6, <2>7, <2>8, <2>9, <2>10
  <1>14. RetryChain(t)
    <2>1. ASSUME NEW i \in 1 .. n, i # 1
          PROVE  t.attempts[i - 1] = s.attempts[i - 1] /\ i - 1 \in 1 .. n
      <3>1. i - 1 \in 1 .. n - 1 /\ i - 1 \in 1 .. n
        BY <1>1, <2>1
      <3> QED BY <1>1, <3>1
    <2>2. RetryChain(s) /\ 1 \in 1 .. n
      BY <1>1 DEF SnapshotOK
    <2>3. ASSUME NEW i \in 1 .. n
          PROVE  IF i = 1
                 THEN t.attempts[1].retryOf = None /\ ~t.attempts[1].decided
                 ELSE /\ t.attempts[i - 1].status = "failed"
                      /\ t.attempts[i].retryOf = t.attempts[i - 1].attemptId
                      /\ t.attempts[i].decided
      <3>1. /\ t.attempts[i].retryOf = s.attempts[i].retryOf
            /\ t.attempts[i].decided = s.attempts[i].decided
        BY <1>1, <1>7
      <3>2. CASE i = 1
        <4>1. s.attempts[1].retryOf = None /\ ~s.attempts[1].decided
          BY <1>2, <2>2 DEF RetryChain
        <4> QED BY <3>1, <3>2, <4>1
      <3>3. CASE i # 1
        <4>1. /\ s.attempts[i - 1].status = "failed"
              /\ s.attempts[i].retryOf = s.attempts[i - 1].attemptId
              /\ s.attempts[i].decided
          BY <1>2, <2>2, <3>3 DEF RetryChain
        <4>2. t.attempts[i - 1] = s.attempts[i - 1]
          BY <2>1, <3>3
        <4> QED BY <3>1, <3>3, <4>1, <4>2
      <3> QED BY <3>2, <3>3
    <2> QED BY <1>1, <2>3 DEF RetryChain
  <1>15. CursorsIncrease(t)
    <2>1. CursorsIncrease(s)
      BY DEF SnapshotOK
    <2>2. \A i \in 1 .. n : /\ s.attempts[i].lastSequence \in Nat
                            /\ s.attempts[i].lastSequence <= s.lastSequence
                            /\ s.attempts[i].lastHeartbeat <= s.attempts[i].lastSequence
                            /\ s.attempts[i].lastSequence > 0
      BY <1>2, <2>1 DEF CursorsIncrease, Attempt
    <2>3. \A i \in 1 .. n : s.attempts[i].lastSequence < q
      BY <1>4, <1>5, <2>2
    <2>4. /\ new.lastSequence = q /\ q > 0
          /\ new.lastHeartbeat <= q
      BY <1>2, <1>3, <1>4, <1>5, <2>2 DEF old
    <2>5. \A i \in 1 .. n : /\ t.attempts[i].lastSequence <= q
                            /\ t.attempts[i].lastHeartbeat <= t.attempts[i].lastSequence
                            /\ t.attempts[i].lastSequence > 0
      BY <1>1, <1>6, <2>2, <2>3, <2>4
    <2>6. ASSUME NEW i \in 1 .. n, i > 1
          PROVE  t.attempts[i - 1].lastSequence < t.attempts[i].lastSequence
      <3>1. i - 1 \in 1 .. n - 1 /\ i - 1 \in 1 .. n
        BY <1>1, <2>6
      <3>2. t.attempts[i - 1] = s.attempts[i - 1]
        BY <1>1, <3>1
      <3>3. CASE i = n
        BY <1>1, <2>3, <2>4, <3>1, <3>2, <3>3
      <3>4. CASE i \in 1 .. n - 1
        BY <1>1, <1>2, <2>1, <2>6, <3>2, <3>4 DEF CursorsIncrease
      <3> QED BY <1>6, <3>3, <3>4
    <2>7. s.reviewSequence <= q
      BY <1>4, <1>5, <2>1 DEF CursorsIncrease
    <2> QED BY <1>1, <2>5, <2>6, <2>7 DEF CursorsIncrease
  <1>16. SnapshotOK(t)
    BY <1>9, <1>10, <1>11, <1>12, <1>13, <1>14, <1>15 DEF SnapshotOK
  <1> QED BY <1>16 DEF t

\* Whatever the guards of the fold admit, the assertion of _stamp accepts.
THEOREM GuardsSuffice ==
    ASSUME NEW s \in Snapshot, NEW e \in Event, NEW q \in Nat, SnapshotOK(s), Guard(s, e, q)
    PROVE  SnapshotOK(Result(s, e, q))
  <1>1. \/ e.type \in {"other", "run.reviewed"}
        \/ e.type \in RunTypes \ {"run.reviewed"}
        \/ e.type = "attempt.queued"
        \/ e.type \in AttemptTypes \ {"attempt.queued"}
    BY DEF Event, EventTypes, LifecycleTypes
  <1> QED BY <1>1, ObservedOK, RunEventKeepsRules, AttemptQueuedKeepsRules,
             AttemptEventKeepsRules

\* The first snapshot of a run obeys the rules as well.
LEMMA FirstSnapshotOK ==
    ASSUME NEW e \in Event, NEW q \in Nat
    PROVE  SnapshotOK(FirstSnapshot(e, q))
  <1> DEFINE t == FirstSnapshot(e, q)
  <1>1. /\ t.attempts = << >> /\ t.status = "queued" /\ t.active = None
        /\ t.reviewSequence = 0 /\ t.lastSequence = q /\ t.maxAttempts = e.maxAttempts
    BY DEF FirstSnapshot
  <1>2. e.maxAttempts \in Nat
    BY DEF Event, Ordinals
  <1> HIDE DEF t
  <1>3. DOMAIN t.attempts = {} /\ Len(t.attempts) = 0
    BY <1>1
  <1>4. Unresolved(t) = {}
    BY <1>3 DEF Unresolved
  <1>5. StatusMatchesAttempts(t)
    BY <1>1 DEF StatusMatchesAttempts
  <1>6. SnapshotOK(t)
    BY <1>1, <1>2, <1>3, <1>4, <1>5
       DEF SnapshotOK, OrdinalsContiguous, IdsUnique, AtMostOneUnresolved, ActiveMatches,
           ReviewedOnlyTerminal, WithinMaxAttempts, RetryChain, CursorsIncrease
  <1> QED BY <1>6 DEF t

=============================================================================
