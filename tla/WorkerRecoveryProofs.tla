------------------------ MODULE WorkerRecoveryProofs ------------------------
(***************************************************************************)
(* Proofs about RunState for any identifiers, revisions and limits, and    *)
(* about WorkerRecovery, which extends it, for any reconcilers and bounds. *)
(***************************************************************************)
EXTENDS WorkerRecovery, RunReducerProofs

\* Every step that is not a stutter either leaves the snapshot (another
\* aggregate) or folds one draft, at the sequence after the head.
LEMMA StepIsFold ==
    ASSUME RunNext
    PROVE  /\ head < SequenceMax /\ head' = head + 1
           /\ \/ snapshot' = snapshot
              \/ \E e \in Drafts : /\ snapshot' = Apply(snapshot, e, head + 1)
                                   /\ snapshot' # Rejected
  BY DEF RunNext, RunEvent, AttemptEvent, ObserveUnrelated, OtherAggregate, Fold

\* The state of the aggregate is well formed: the fold and the log head stay in
\* their types, whatever is appended.
THEOREM RunTypeCorrect == RunSpec => []RunTypeOK
  <1>1. RunInit => RunTypeOK
    BY ConstantsAssumption DEF RunInit, RunTypeOK
  <1>2. RunTypeOK /\ [RunNext]_runVars => RunTypeOK'
    <2> SUFFICES ASSUME RunTypeOK, [RunNext]_runVars PROVE RunTypeOK'
      OBVIOUS
    <2>1. CASE RunNext
      <3>1. head + 1 \in 0 .. SequenceMax /\ head' = head + 1
        BY <2>1, StepIsFold, ConstantsAssumption DEF RunTypeOK
      <3>2. CASE snapshot' = snapshot
        BY <3>1, <3>2 DEF RunTypeOK
      <3>3. CASE snapshot' # snapshot
        <4>1. PICK e \in Drafts : snapshot' = Apply(snapshot, e, head + 1)
                                  /\ snapshot' # Rejected
          BY <2>1, <3>3, StepIsFold
        <4>2. e \in Event /\ head + 1 \in Nat
          BY <3>1 DEF Drafts
        <4>3. snapshot' \in Snapshot \union {None}
          BY <4>1, <4>2, ApplyType DEF RunTypeOK
        <4> QED BY <3>1, <4>3 DEF RunTypeOK
      <3> QED BY <3>2, <3>3
    <2>2. CASE UNCHANGED runVars
      BY <2>2 DEF RunTypeOK, runVars
    <2> QED BY <2>1, <2>2
  <1> QED BY <1>1, <1>2, PTL DEF RunSpec

-----------------------------------------------------------------------------
(* The rules every snapshot obeys, and the assertion that never fires.     *)

\* The inductive invariant: a snapshot obeys assert_run_snapshot_invariants, and
\* each of its attempts the validator of AttemptSnapshot.
Rules ==
    snapshot # None =>
        /\ SnapshotOK(snapshot)
        /\ \A i \in DOMAIN snapshot.attempts : AttemptFieldsConsistent(snapshot.attempts[i])

\* A transition keeps every attempt consistent.
LEMMA ResultRevalidates ==
    ASSUME NEW s \in Snapshot, NEW e \in Drafts, NEW q \in Nat, SnapshotOK(s), Guard(s, e, q),
           \A i \in DOMAIN s.attempts : AttemptFieldsConsistent(s.attempts[i])
    PROVE  LET t == Result(s, e, q)
           IN  \A i \in DOMAIN t.attempts : AttemptFieldsConsistent(t.attempts[i])
  <1> DEFINE t == Result(s, e, q)
             n == Len(s.attempts)
  <1> SUFFICES \A i \in DOMAIN t.attempts : AttemptFieldsConsistent(t.attempts[i])
    OBVIOUS
  <1>1. e \in Event
    BY DEF Drafts
  <1>2. /\ n \in Nat /\ DOMAIN s.attempts = 1 .. n
        /\ \A i \in 1 .. n : s.attempts[i] \in Attempt
    BY AttemptsType
  <1>3. CASE e.type \notin AttemptTypes
    BY <1>1, <1>3, KeptFields
  <1>4. CASE e.type = "attempt.queued"
    <2>1. /\ DOMAIN t.attempts = 1 .. n + 1
          /\ \A i \in 1 .. n : t.attempts[i] = s.attempts[i]
          /\ t.attempts[n + 1] = NewAttempt(e, q)
      BY <1>1, <1>4, AttemptQueuedFields
    <2>2. AttemptQueuedOK(s, e)
      BY <1>4 DEF Guard
    <2>3. IF e.ordinal = 1 THEN e.retryOf = None /\ ~e.decided
                           ELSE e.retryOf # None /\ e.decided
      <3>1. CASE FirstAttemptOK(s, e)
        BY <3>1 DEF FirstAttemptOK
      <3>2. CASE RetryOK(s, e) /\ ~FirstAttemptOK(s, e)
        <4>1. n \in 1 .. n
          BY <1>2, <3>2 DEF RetryOK, LatestIs
        <4>2. s.attempts[n].attemptId # None /\ s.attempts[n].ordinal \in Nat \ {0}
          BY <1>2, <4>1, ConstantsAssumption DEF Attempt, Ordinals
        <4>3. /\ e.ordinal = s.attempts[n].ordinal + 1 /\ e.decided
              /\ e.retryOf = s.attempts[n].attemptId
          BY <3>2 DEF RetryOK, Latest
        <4>4. e.ordinal # 1
          BY <4>2, <4>3
        <4> QED BY <4>2, <4>3, <4>4
      <3> QED BY <2>2, <3>1, <3>2 DEF AttemptQueuedOK
    <2>4. AttemptFieldsConsistent(NewAttempt(e, q))
      BY <2>3 DEF AttemptFieldsConsistent, NewAttempt
    <2> HIDE DEF t, n
    <2> QED BY <1>2, <2>1, <2>4
  <1>5. CASE e.type \in AttemptTypes \ {"attempt.queued"}
    <2> DEFINE old == s.attempts[n]
               new == MovedAttempt(old, e, q)
    <2>1. /\ n \in Nat \ {0}
          /\ old.status \in AttemptFrom(e.type) /\ old.status \in UnresolvedAttempt
          /\ DOMAIN t.attempts = 1 .. n
          /\ \A i \in 1 .. n - 1 : t.attempts[i] = s.attempts[i]
          /\ t.attempts[n] = new
      BY <1>1, <1>5, AttemptEventFields
    <2>2. old \in Attempt /\ AttemptFieldsConsistent(old)
      BY <1>2, <2>1
    <2>3. AttemptFieldsConsistent(new)
      <3>1. /\ new.ordinal = old.ordinal /\ new.retryOf = old.retryOf
            /\ new.decided = old.decided
            /\ new.status = AttemptTo(e.type, old.status)
            /\ new.lastSequence = q /\ new.lastHeartbeat \in {q, old.lastHeartbeat}
        BY <1>1, <2>2, MovedFields
      <3>2. new.lastHeartbeat <= new.lastSequence
        <4>1. old.lastHeartbeat \in Nat /\ old.lastSequence \in Nat /\ s.lastSequence \in Nat
          BY <2>2 DEF Attempt, Snapshot
        <4>2. old.lastSequence <= s.lastSequence /\ old.lastHeartbeat <= old.lastSequence
          BY <1>2, <2>1 DEF SnapshotOK, CursorsIncrease
        <4>3. s.lastSequence < q
          BY DEF Guard, CursorAndBindingOK
        <4> QED BY <3>1, <4>1, <4>2, <4>3
      <3>3. new.status = "failed" <=> e.type = "attempt.failed"
        BY <1>5, <2>1, <3>1, AttemptEventTable DEF UnresolvedAttempt, AttemptTypes, AttemptTo
      <3>4. ~old.hinted
        BY <2>1, <2>2 DEF AttemptFieldsConsistent, UnresolvedAttempt
      <3>5. new.hinted <=> e.type = "attempt.failed"
        BY <2>2, <3>4 DEF MovedAttempt, Attempt
      <3> HIDE DEF new
      <3> QED BY <2>2, <3>1, <3>2, <3>3, <3>5 DEF AttemptFieldsConsistent
    <2> HIDE DEF t, n, new
    <2>4. \A i \in 1 .. n : i \in 1 .. n - 1 \/ i = n
      BY <2>1
    <2> QED BY <1>2, <2>1, <2>3, <2>4
  <1> QED BY <1>3, <1>4, <1>5

\* Every snapshot of every behaviour obeys the rules.
THEOREM RulesHold == RunSpec => [](RunTypeOK /\ Rules)
  <1>1. RunInit => Rules
    BY DEF RunInit, Rules
  <1>2. RunTypeOK /\ Rules /\ [RunNext]_runVars => Rules'
    <2> SUFFICES ASSUME RunTypeOK, Rules, [RunNext]_runVars PROVE Rules'
      OBVIOUS
    <2>1. CASE snapshot' = snapshot
      BY <2>1 DEF Rules
    <2>2. CASE snapshot' # snapshot
      <3>1. RunNext /\ head + 1 \in Nat
        BY <2>2 DEF runVars, RunTypeOK
      <3>2. PICK e \in Drafts : snapshot' = Apply(snapshot, e, head + 1)
                                /\ snapshot' # Rejected
        BY <2>2, <3>1, StepIsFold
      <3>3. e \in Event
        BY DEF Drafts
      <3>4. CASE snapshot = None
        <4>1. snapshot' = FirstSnapshot(e, head + 1)
          BY <2>2, <3>1, <3>2, <3>3, <3>4, ApplyCases
        <4>2. SnapshotOK(snapshot')
          BY <3>1, <3>3, <4>1, FirstSnapshotOK
        <4>3. DOMAIN snapshot'.attempts = {}
          BY <4>1 DEF FirstSnapshot
        <4> QED BY <4>2, <4>3 DEF Rules
      <3>5. CASE snapshot # None
        <4>1. /\ snapshot \in Snapshot /\ Guard(snapshot, e, head + 1)
              /\ snapshot' = Result(snapshot, e, head + 1)
              /\ SnapshotOK(Result(snapshot, e, head + 1))
          BY <3>1, <3>2, <3>3, <3>5, ApplyCases DEF RunTypeOK
        <4>2. /\ SnapshotOK(snapshot)
              /\ \A i \in DOMAIN snapshot.attempts :
                     AttemptFieldsConsistent(snapshot.attempts[i])
          BY <3>5 DEF Rules
        <4>3. \A i \in DOMAIN snapshot'.attempts : AttemptFieldsConsistent(snapshot'.attempts[i])
          BY <3>1, <4>1, <4>2, ResultRevalidates
        <4> QED BY <4>1, <4>3 DEF Rules
      <3> QED BY <3>4, <3>5
    <2> QED BY <2>1, <2>2
  <1> QED BY <1>1, <1>2, RunTypeCorrect, PTL DEF RunSpec

\* The assertion of _stamp is redundant: the guards alone keep the rules, for any
\* number of attempts, identifiers and events.
THEOREM StampIsRedundant == RunSpec => []StampNeverRejects
  <1>1. RunTypeOK /\ Rules => StampNeverRejects
    <2> SUFFICES ASSUME RunTypeOK, Rules, snapshot # None, NEW e \in Drafts,
                        Guard(snapshot, e, head + 1)
                 PROVE  SnapshotOK(Result(snapshot, e, head + 1))
      BY DEF StampNeverRejects
    <2>1. snapshot \in Snapshot /\ e \in Event /\ head + 1 \in Nat /\ SnapshotOK(snapshot)
      BY DEF RunTypeOK, Drafts, Rules
    <2> QED BY <2>1, GuardsSuffice
  <1> QED BY <1>1, RulesHold, PTL

\* Attempts derived by model_copy pass the validators model_copy skips.
THEOREM AttemptsStayValid == RunSpec => []AttemptsRevalidate
  <1>1. RunTypeOK /\ Rules => AttemptsRevalidate
    BY DEF Rules, AttemptsRevalidate
  <1> QED BY <1>1, RulesHold, PTL

-----------------------------------------------------------------------------
(* Resolved attempts, and the contract.                                    *)

\* A transition keeps the list of attempts except that it may append one, or
\* move the last one if that is unresolved.
LEMMA ResolvedKept ==
    ASSUME NEW s \in Snapshot, NEW e \in Event, NEW q \in Nat, SnapshotOK(s), Guard(s, e, q),
           NEW i \in DOMAIN s.attempts, s.attempts[i].status \in TerminalAttempt
    PROVE  /\ i \in DOMAIN Result(s, e, q).attempts
           /\ Result(s, e, q).attempts[i] = s.attempts[i]
  <1> DEFINE n == Len(s.attempts)
  <1>1. n \in Nat /\ i \in 1 .. n
    BY AttemptsType
  <1>2. CASE e.type \notin AttemptTypes
    BY <1>2, KeptFields
  <1>3. CASE e.type = "attempt.queued"
    BY <1>1, <1>3, AttemptQueuedFields
  <1>4. CASE e.type \in AttemptTypes \ {"attempt.queued"}
    <2>1. /\ n \in Nat \ {0} /\ s.attempts[n].status \in UnresolvedAttempt
          /\ DOMAIN Result(s, e, q).attempts = 1 .. n
          /\ \A j \in 1 .. n - 1 : Result(s, e, q).attempts[j] = s.attempts[j]
      BY <1>4, AttemptEventFields
    <2>2. i # n
      BY <2>1 DEF UnresolvedAttempt, TerminalAttempt
    <2>3. i \in 1 .. n - 1
      BY <1>1, <2>1, <2>2
    <2> QED BY <1>1, <2>1, <2>3
  <1> QED BY <1>2, <1>3, <1>4

\* What a step of the aggregate does to an existing snapshot.
LEMMA StepIsTransition ==
    ASSUME RunTypeOK, Rules, [RunNext]_runVars, snapshot # None, snapshot' # snapshot
    PROVE  \E e \in Drafts : /\ snapshot \in Snapshot /\ SnapshotOK(snapshot)
                             /\ e \in Event /\ head + 1 \in Nat
                             /\ Guard(snapshot, e, head + 1)
                             /\ snapshot' = Result(snapshot, e, head + 1)
  <1>1. RunNext /\ head + 1 \in Nat /\ snapshot \in Snapshot /\ SnapshotOK(snapshot)
    BY DEF runVars, RunTypeOK, Rules
  <1>2. PICK e \in Drafts : snapshot' = Apply(snapshot, e, head + 1) /\ snapshot' # Rejected
    BY <1>1, StepIsFold
  <1>3. e \in Event
    BY DEF Drafts
  <1>4. Guard(snapshot, e, head + 1) /\ snapshot' = Result(snapshot, e, head + 1)
    BY <1>1, <1>2, <1>3, ApplyCases
  <1> QED BY <1>1, <1>3, <1>4

\* Whatever happens to a run, what it says of a resolved attempt stays.
THEOREM ResolvedStay == RunSpec => ResolvedAttemptsFrozen
  <1> DEFINE Kept == snapshot # None =>
                       \A i \in DOMAIN snapshot.attempts :
                           snapshot.attempts[i].status \in TerminalAttempt =>
                               /\ i \in DOMAIN snapshot'.attempts
                               /\ snapshot'.attempts[i] = snapshot.attempts[i]
  <1>1. RunTypeOK /\ Rules /\ [RunNext]_runVars => [Kept]_runVars
    <2> SUFFICES ASSUME RunTypeOK, Rules, [RunNext]_runVars PROVE Kept
      OBVIOUS
    <2>1. CASE snapshot' = snapshot \/ snapshot = None
      BY <2>1
    <2>2. CASE snapshot' # snapshot /\ snapshot # None
      BY <2>2, StepIsTransition, ResolvedKept
    <2> QED BY <2>1, <2>2
  <1> QED BY <1>1, RulesHold, PTL DEF RunSpec, ResolvedAttemptsFrozen

\* One transition of the fold is one step of the contract, or none.
LEMMA TransitionImplements ==
    ASSUME RunTypeOK, Rules, [RunNext]_runVars, snapshot # None, snapshot' # snapshot
    PROVE  [Contract!ContractNext]_(Contract!contractVars)
  <1>1. PICK e \in Drafts : /\ snapshot \in Snapshot /\ SnapshotOK(snapshot)
                            /\ e \in Event /\ head + 1 \in Nat
                            /\ Guard(snapshot, e, head + 1)
                            /\ snapshot' = Result(snapshot, e, head + 1)
    BY StepIsTransition
  <1>2. snapshot' \in Snapshot /\ snapshot' # None /\ EnvelopeOK(e)
    BY <1>1, ResultType, SentinelAssumption DEF Guard
  <1> DEFINE n == Len(snapshot.attempts)
             Outcome(s) == IF s.status \in TerminalRun THEN s.status ELSE "open"
             Last(s) == IF s.attempts = << >> THEN "none"
                        ELSE IF Latest(s).status \in TerminalAttempt THEN Latest(s).status
                        ELSE "live"
  <1>3. n \in Nat /\ DOMAIN snapshot.attempts = 1 .. n
    BY <1>1, AttemptsType
  \* The contract's variables in terms of the two snapshots.
  <1> DEFINE Stutters == /\ Len(snapshot'.attempts) = n
                         /\ Last(snapshot') = Last(snapshot)
                         /\ snapshot'.cancelRequested = snapshot.cancelRequested
                         /\ Outcome(snapshot') = Outcome(snapshot)
  <1>4. Stutters => UNCHANGED Contract!contractVars
    BY <1>2 DEF Contract!contractVars, LastTry
  <1>5. CASE e.type \in {"other", "run.reviewed"}
    <2>1. e.type \notin AttemptTypes
      BY <1>5 DEF AttemptTypes
    <2>2. snapshot'.attempts = snapshot.attempts
      BY <1>1, <2>1, KeptFields
    <2>3. snapshot'.status = snapshot.status
          /\ snapshot'.cancelRequested = snapshot.cancelRequested
      BY <1>1, <1>5, ObservedFields
    <2>4. Stutters
      BY <2>2, <2>3 DEF Latest
    <2> QED BY <1>4, <2>4
  <1>6. CASE e.type \in RunTypes \ {"run.reviewed"}
    <2>1. /\ RunEventOK(snapshot, e) /\ snapshot.status \notin TerminalRun
          /\ e.type \notin AttemptTypes
      BY <1>1, <1>6 DEF Guard, LifecycleTypes, RunTypes, AttemptTypes
    <2>2. e.type \in RunTypes \ {"run.queued", "run.reviewed"}
      BY <1>6, <2>1 DEF RunEventOK
    <2>3. snapshot'.attempts = snapshot.attempts
      BY <1>1, <2>1, KeptFields
    <2>4. /\ snapshot'.status = CASE e.type = "run.started"   -> "running"
                                  [] e.type = "run.completed" -> "completed"
                                  [] e.type = "run.failed"    -> "failed"
                                  [] e.type = "run.cancelled" -> "cancelled"
                                  [] OTHER                    -> snapshot.status
          /\ snapshot'.cancelRequested = IF e.type = "run.cancel.requested"
                                         THEN TRUE ELSE snapshot.cancelRequested
      BY <1>1, <2>2, RunEventFields
    <2>5. Len(snapshot'.attempts) = n /\ Last(snapshot') = Last(snapshot)
      BY <2>3 DEF Latest
    <2>6. CASE e.type = "run.started"
      <3>1. snapshot'.status = "running"
            /\ snapshot'.cancelRequested = snapshot.cancelRequested
        BY <2>4, <2>6
      <3>2. Stutters
        BY <2>1, <2>5, <3>1 DEF TerminalRun
      <3> QED BY <1>4, <3>2
    <2>7. CASE e.type = "run.cancel.requested"
      <3>1. snapshot'.status = snapshot.status /\ snapshot'.cancelRequested = TRUE
        BY <2>4, <2>7
      <3>2. Contract!RequestStop
        BY <1>2, <2>1, <2>5, <3>1 DEF Contract!RequestStop, LastTry
      <3> QED BY <3>2 DEF Contract!ContractNext
    <2>8. CASE e.type \in {"run.completed", "run.failed", "run.cancelled"}
      <3>1. snapshot'.cancelRequested = snapshot.cancelRequested
        BY <2>4, <2>8
      <3>2. \/ snapshot'.status = "completed" /\ Last(snapshot) = "succeeded"
            \/ snapshot'.status = "failed" /\ Last(snapshot) = "failed"
            \/ /\ snapshot'.status = "cancelled" /\ snapshot.cancelRequested
               /\ Last(snapshot) \in {"none", "cancelled"}
        BY <2>1, <2>4, <2>8 DEF RunEventOK, LatestIs, TerminalAttempt
      <3>3. Contract!Close
        BY <1>2, <2>1, <2>5, <3>1, <3>2 DEF Contract!Close, LastTry, TerminalRun
      <3> QED BY <3>3 DEF Contract!ContractNext
    <2> QED BY <2>2, <2>6, <2>7, <2>8 DEF RunTypes
  <1>7. CASE e.type = "attempt.queued"
    <2>1. /\ AttemptQueuedOK(snapshot, e) /\ snapshot.status \notin TerminalRun
      BY <1>1, <1>7 DEF Guard, LifecycleTypes, AttemptTypes
    <2>2. /\ snapshot'.status = "running"
          /\ snapshot'.cancelRequested = snapshot.cancelRequested
          /\ Len(snapshot'.attempts) = n + 1
          /\ snapshot'.attempts[n + 1] = NewAttempt(e, head + 1)
      BY <1>1, <1>7, AttemptQueuedFields
    <2>3. Last(snapshot') = "live"
      <3>1. snapshot'.attempts # << >>
        BY <1>3, <2>2
      <3>2. Latest(snapshot').status = "queued"
        BY <2>2 DEF Latest, NewAttempt
      <3> QED BY <3>1, <3>2 DEF TerminalAttempt
    <2>4. Last(snapshot) \in {"none", "failed"}
      BY <2>1 DEF AttemptQueuedOK, FirstAttemptOK, RetryOK, LatestIs, TerminalAttempt
    <2>5. n < MaxAttemptsLimit
      <3>1. snapshot.maxAttempts \in 1 .. MaxAttemptsLimit /\ n < snapshot.maxAttempts
        BY <1>1, <2>1 DEF AttemptQueuedOK, Snapshot, Ordinals
      <3> QED BY <1>3, <3>1, ConstantsAssumption
    <2>6. ~snapshot.cancelRequested
      BY <2>1 DEF AttemptQueuedOK
    <2>7. Contract!Try
      BY <1>2, <2>1, <2>2, <2>3, <2>4, <2>5, <2>6 DEF Contract!Try, LastTry, TerminalRun
    <2> QED BY <2>7 DEF Contract!ContractNext
  <1>8. CASE e.type \in AttemptTypes \ {"attempt.queued"}
    <2> DEFINE old == snapshot.attempts[n]
               new == MovedAttempt(old, e, head + 1)
    <2>1. /\ n \in Nat \ {0}
          /\ old.status \in AttemptFrom(e.type) /\ old.status \in UnresolvedAttempt
          /\ snapshot'.status = RunTo(e.type, snapshot.status)
          /\ snapshot'.cancelRequested = snapshot.cancelRequested
          /\ Len(snapshot'.attempts) = n /\ snapshot'.attempts[n] = new
      BY <1>1, <1>8, AttemptEventFields
    <2>2. snapshot.status \notin TerminalRun
      BY <1>1, <1>8 DEF Guard, LifecycleTypes, AttemptTypes
    <2>3. snapshot'.status \notin TerminalRun
      BY <1>8, <2>1, <2>2, AttemptEventTable DEF TerminalRun
    <2>4. Latest(snapshot) = old /\ Latest(snapshot') = new
          /\ snapshot.attempts # << >> /\ snapshot'.attempts # << >>
      BY <1>3, <2>1 DEF Latest
    <2>5. Last(snapshot) = "live"
      BY <2>1, <2>4 DEF UnresolvedAttempt, TerminalAttempt
    <2>6. new.status = AttemptTo(e.type, old.status)
      <3>1. old \in Attempt
        BY <1>1, <1>3, <2>1, AttemptsType
      <3> QED BY <1>1, <3>1, MovedFields
    <2>7. CASE new.status \in TerminalAttempt
      <3>1. Last(snapshot') \in {"succeeded", "failed", "cancelled"}
        BY <2>4, <2>7 DEF TerminalAttempt
      <3>2. Contract!Resolve
        BY <1>2, <2>1, <2>2, <2>3, <2>5, <3>1 DEF Contract!Resolve, LastTry
      <3> QED BY <3>2 DEF Contract!ContractNext
    <2>8. CASE new.status \notin TerminalAttempt
      <3>1. Stutters
        BY <2>1, <2>2, <2>3, <2>4, <2>5, <2>8
      <3> QED BY <1>4, <3>1
    <2> QED BY <2>7, <2>8
  <1> QED BY <1>1, <1>5, <1>6, <1>7, <1>8 DEF Event, EventTypes, LifecycleTypes

\* The reducer, for any limits, implements the contract of a run.
THEOREM ContractImplemented == RunSpec => ImplementsContract
  <1>1. RunInit => Contract!ContractInit
    BY DEF RunInit, Contract!ContractInit, LastTry
  <1>2. RunTypeOK /\ Rules /\ [RunNext]_runVars => [Contract!ContractNext]_(Contract!contractVars)
    <2> SUFFICES ASSUME RunTypeOK, Rules, [RunNext]_runVars
                 PROVE  [Contract!ContractNext]_(Contract!contractVars)
      OBVIOUS
    <2>1. CASE snapshot' = snapshot
      BY <2>1 DEF Contract!contractVars, LastTry, Latest
    <2>2. CASE snapshot' # snapshot /\ snapshot # None
      BY <2>2, TransitionImplements
    <2>3. CASE snapshot' # snapshot /\ snapshot = None
      <3>1. RunNext /\ head + 1 \in Nat
        BY <2>3 DEF runVars, RunTypeOK
      <3>2. PICK e \in Drafts : snapshot' = Apply(snapshot, e, head + 1) /\ snapshot' # Rejected
        BY <2>3, <3>1, StepIsFold
      <3>3. e \in Event
        BY DEF Drafts
      <3>4. snapshot' = FirstSnapshot(e, head + 1)
        BY <2>3, <3>1, <3>2, <3>3, ApplyCases
      <3>5. /\ snapshot'.attempts = << >> /\ snapshot'.status = "queued"
            /\ snapshot'.cancelRequested = FALSE
        BY <3>4 DEF FirstSnapshot
      <3>6. snapshot' # None
        BY <3>1, <3>3, <3>4, FirstSnapshotType, SentinelAssumption
      <3>7. UNCHANGED Contract!contractVars
        BY <2>3, <3>5, <3>6 DEF Contract!contractVars, LastTry, TerminalRun
      <3> QED BY <3>7
    <2> QED BY <2>1, <2>2, <2>3
  <1> QED BY <1>1, <1>2, RulesHold, PTL DEF RunSpec, ImplementsContract, Contract!ContractSpec

-----------------------------------------------------------------------------
(* No run is stranded.                                                     *)

\* The cursor of the fold is never ahead of the log.
CursorInLog == snapshot # None => snapshot.lastSequence <= head

\* Appending keeps it so: an accepted event stamps the snapshot with the new head.
LEMMA CursorHolds == RunSpec => []CursorInLog
  <1>1. RunInit => CursorInLog
    BY DEF RunInit, CursorInLog
  <1>2. RunTypeOK /\ Rules /\ CursorInLog /\ [RunNext]_runVars => CursorInLog'
    <2> SUFFICES ASSUME RunTypeOK, Rules, CursorInLog, [RunNext]_runVars, snapshot' # None
                 PROVE  snapshot'.lastSequence <= head'
      BY DEF CursorInLog
    <2>1. head \in Nat /\ head' \in Nat /\ head <= head' /\ head + 1 \in Nat
      <3>1. head \in Nat /\ head' \in {head, head + 1}
        BY StepIsFold DEF RunTypeOK, runVars
      <3> QED BY <3>1
    <2>2. CASE snapshot' = snapshot
      <3>1. snapshot \in Snapshot /\ snapshot.lastSequence <= head
        BY <2>2 DEF RunTypeOK, CursorInLog
      <3>2. snapshot.lastSequence \in Nat
        BY <3>1 DEF Snapshot
      <3> QED BY <2>1, <2>2, <3>1, <3>2
    <2>3. CASE snapshot' # snapshot
      <3>1. RunNext
        BY <2>3 DEF runVars
      <3>2. head' = head + 1
        BY <3>1, StepIsFold
      <3>3. PICK e \in Drafts : snapshot' = Apply(snapshot, e, head + 1) /\ snapshot' # Rejected
        BY <2>3, <3>1, StepIsFold
      <3>4. e \in Event /\ snapshot \in Snapshot \union {None}
        BY DEF Drafts, RunTypeOK
      <3>5. snapshot'.lastSequence = head + 1
        <4>1. CASE snapshot = None
          <5>1. snapshot' = FirstSnapshot(e, head + 1)
            BY <2>1, <3>3, <3>4, <4>1, ApplyCases
          <5> QED BY <5>1 DEF FirstSnapshot
        <4>2. CASE snapshot # None
          <5>1. snapshot' = Result(snapshot, e, head + 1) /\ Guard(snapshot, e, head + 1)
            BY <3>3, <4>2 DEF Apply
          <5> QED BY <2>1, <3>4, <4>2, <5>1, ResultType DEF Guard
        <4> QED BY <4>1, <4>2
      <3> QED BY <2>1, <3>2, <3>5
    <2> QED BY <2>2, <2>3
  <1> QED BY <1>1, <1>2, RulesHold, PTL DEF RunSpec

\* The events that may close a run, for any revision of it.
ClosingEvent(type, id, revision) ==
    [type |-> type, attemptId |-> id, revision |-> revision, ordinal |-> 1,
     retryOf |-> None, decided |-> FALSE, maxAttempts |-> 1]

\* They are events.
LEMMA ClosingEventType ==
    ASSUME NEW type \in EventTypes, NEW id \in AttemptIds \union {None},
           NEW revision \in Revisions
    PROVE  ClosingEvent(type, id, revision) \in Event
  <1>1. 1 \in Ordinals
    BY ConstantsAssumption DEF Ordinals
  <1> QED BY <1>1 DEF ClosingEvent, Event

\* No transition changes the revision a run was queued with.
LEMMA RevisionKept ==
    ASSUME NEW s \in Snapshot, NEW e \in Event, NEW q \in Nat
    PROVE  Result(s, e, q).revision = s.revision
  <1>1. Updated(s, e, q).revision = s.revision
    <2>1. [s EXCEPT !.reviewSequence = q].revision = s.revision
      BY DEF Snapshot
    <2>2. AttemptQueuedResult(s, e, q).revision = s.revision
      BY DEF AttemptQueuedResult, Snapshot
    <2>3. AttemptEventResult(s, e, q).revision = s.revision
      BY DEF AttemptEventResult, Snapshot
    <2>4. RunEventResult(s, e).revision = s.revision
      BY DEF RunEventResult, Snapshot
    <2> QED BY <2>1, <2>2, <2>3, <2>4 DEF Updated
  <1> QED BY <1>1 DEF Result, Stamped

\* A run event the guards admit is accepted, with the result of the table.
LEMMA RunEventApplies ==
    ASSUME NEW s \in Snapshot, SnapshotOK(s), NEW q \in Nat, s.lastSequence < q,
           s.status \notin TerminalRun,
           NEW type \in {"run.completed", "run.failed", "run.cancelled", "run.cancel.requested"},
           RunEventOK(s, ClosingEvent(type, None, s.revision))
    PROVE  LET t == Apply(s, ClosingEvent(type, None, s.revision), q)
           IN  /\ t \in Snapshot /\ SnapshotOK(t) /\ t # Rejected
               /\ t.lastSequence = q /\ t.revision = s.revision
               /\ t.status = CASE type = "run.completed" -> "completed"
                               [] type = "run.failed"    -> "failed"
                               [] type = "run.cancelled" -> "cancelled"
                               [] OTHER                  -> s.status
               /\ t.attempts = s.attempts
               /\ type = "run.cancel.requested" => t.cancelRequested
  <1> DEFINE e == ClosingEvent(type, None, s.revision)
             t == Result(s, e, q)
  <1>1. s.revision \in Revisions /\ type \in EventTypes
    BY DEF Snapshot, EventTypes, LifecycleTypes, RunTypes
  <1>2. e \in Event /\ e.type = type /\ e.attemptId = None /\ e.revision = s.revision
    BY <1>1, ClosingEventType DEF ClosingEvent
  <1>3. RunEventOK(s, e)
    OBVIOUS
  <1> HIDE DEF e
  <1>4. EnvelopeOK(e) /\ CursorAndBindingOK(s, e, q)
    BY <1>2 DEF EnvelopeOK, CursorAndBindingOK, AttemptTypes, Snapshot
  <1>5. Guard(s, e, q)
    BY <1>2, <1>3, <1>4 DEF Guard, AttemptTypes
  <1>6. SnapshotOK(t) /\ t \in Snapshot /\ t.lastSequence = q /\ t.revision = s.revision
    BY <1>2, <1>4, <1>5, GuardsSuffice, ResultType, RevisionKept
  <1>7. e.type \in RunTypes \ {"run.queued", "run.reviewed"} /\ e.type \notin AttemptTypes
    BY <1>2 DEF RunTypes, AttemptTypes
  <1>8. /\ t.status = CASE e.type = "run.started"   -> "running"
                        [] e.type = "run.completed" -> "completed"
                        [] e.type = "run.failed"    -> "failed"
                        [] e.type = "run.cancelled" -> "cancelled"
                        [] OTHER                    -> s.status
        /\ t.cancelRequested = IF e.type = "run.cancel.requested"
                               THEN TRUE ELSE s.cancelRequested
        /\ t.attempts = s.attempts
    <2>1. t.attempts = s.attempts
      BY <1>2, <1>7, KeptFields, Zenon
    <2> QED BY <1>2, <1>7, <2>1, RunEventFields, Zenon
  <1>9. Apply(s, e, q) = t
    BY <1>5, <1>6, SentinelAssumption DEF Apply
  <1>10. t # Rejected
    BY <1>6, SentinelAssumption
  <1> HIDE DEF t
  <1>11. t.status = CASE type = "run.completed" -> "completed"
                      [] type = "run.failed"    -> "failed"
                      [] type = "run.cancelled" -> "cancelled"
                      [] OTHER                  -> s.status
    BY <1>2, <1>8
  <1> QED BY <1>2, <1>6, <1>8, <1>9, <1>10, <1>11 DEF e

\* Reporting the unresolved attempt as failed is always accepted.
LEMMA FailureApplies ==
    ASSUME NEW s \in Snapshot, SnapshotOK(s), NEW q \in Nat, s.lastSequence < q,
           s.status \notin TerminalRun, NEW i \in Unresolved(s),
           s.active = s.attempts[i].attemptId
    PROVE  LET t == Apply(s, ClosingEvent("attempt.failed", s.active, s.revision), q)
           IN  /\ t \in Snapshot /\ SnapshotOK(t) /\ t # Rejected
               /\ t.lastSequence = q /\ t.revision = s.revision /\ t.status = "retry_pending"
  <1> DEFINE e == ClosingEvent("attempt.failed", s.active, s.revision)
             t == Result(s, e, q)
  <1>1. /\ i \in DOMAIN s.attempts /\ s.attempts[i].status \in UnresolvedAttempt
        /\ s.attempts[i] \in Attempt
    BY AttemptsType DEF Unresolved
  <1>2. s.active \in AttemptIds /\ s.active # None /\ s.revision \in Revisions
    BY <1>1, ConstantsAssumption DEF Attempt, Snapshot
  <1>3. /\ e \in Event /\ e.type = "attempt.failed" /\ e.attemptId = s.active
        /\ e.revision = s.revision
    BY <1>2, ClosingEventType DEF ClosingEvent, EventTypes, LifecycleTypes, AttemptTypes
  <1> HIDE DEF e
  <1>4. EnvelopeOK(e) /\ CursorAndBindingOK(s, e, q)
    BY <1>2, <1>3 DEF EnvelopeOK, CursorAndBindingOK, RunTypes, Snapshot
  <1>5. AttemptEventOK(s, e)
    <2>1. AttemptFrom(e.type) = UnresolvedAttempt
      BY <1>3 DEF AttemptFrom
    <2> QED BY <1>1, <1>3, <2>1 DEF AttemptEventOK
  <1>6. Guard(s, e, q)
    BY <1>3, <1>4, <1>5 DEF Guard, RunTypes
  <1>7. SnapshotOK(t) /\ t \in Snapshot /\ t.lastSequence = q /\ t.revision = s.revision
    BY <1>3, <1>4, <1>6, GuardsSuffice, ResultType, RevisionKept
  <1>8. t.status = RunTo(e.type, s.status)
    BY <1>3, <1>6, AttemptEventFields DEF AttemptTypes
  <1>9. t.status = "retry_pending"
    BY <1>3, <1>8 DEF RunTo
  <1>10. Apply(s, e, q) = t /\ t # Rejected
    BY <1>6, <1>7, SentinelAssumption DEF Apply
  <1> QED BY <1>7, <1>9, <1>10 DEF e

\* Two requests close a run that has nothing left to resolve and is not decided.
LEMMA CancelCloses ==
    ASSUME NEW s \in Snapshot, SnapshotOK(s), NEW q \in Nat, s.lastSequence < q,
           s.status \notin TerminalRun, Unresolved(s) = {},
           s.attempts = << >> \/ LatestIs(s, {"cancelled"})
    PROVE  LET t == Apply(s, ClosingEvent("run.cancel.requested", None, s.revision), q)
               u == Apply(t, ClosingEvent("run.cancelled", None, s.revision), q + 1)
           IN  t # Rejected /\ u # Rejected /\ u.status \in TerminalRun
  <1> DEFINE t == Apply(s, ClosingEvent("run.cancel.requested", None, s.revision), q)
             u == Apply(t, ClosingEvent("run.cancelled", None, s.revision), q + 1)
  <1>1. RunEventOK(s, ClosingEvent("run.cancel.requested", None, s.revision))
    BY DEF RunEventOK, ClosingEvent
  <1>2. /\ t \in Snapshot /\ SnapshotOK(t) /\ t # Rejected
        /\ t.lastSequence = q /\ t.revision = s.revision /\ t.status = s.status
        /\ t.attempts = s.attempts /\ t.cancelRequested
    BY <1>1, RunEventApplies
  <1> HIDE DEF t
  <1>3. Unresolved(t) = {} /\ (t.attempts = << >> \/ LatestIs(t, {"cancelled"}))
    BY <1>2 DEF Unresolved, LatestIs, Latest
  <1>4. RunEventOK(t, ClosingEvent("run.cancelled", None, t.revision))
    BY <1>2, <1>3 DEF RunEventOK, ClosingEvent
  <1>5. q + 1 \in Nat /\ t.lastSequence < q + 1
    BY <1>2
  <1>6. u # Rejected /\ u.status = "cancelled"
    BY <1>2, <1>4, <1>5, RunEventApplies
  <1> QED BY <1>2, <1>6 DEF t, TerminalRun

\* From every snapshot of every behaviour that is not terminal, at most two more
\* events close the run: the reducer strands no run.
THEOREM RunsCanClose == RunSpec => []TwoEventsClose
  <1>1. RunTypeOK /\ Rules /\ CursorInLog => TwoEventsClose
    <2> SUFFICES ASSUME RunTypeOK, Rules, CursorInLog, snapshot # None,
                        snapshot.status \notin TerminalRun, head + 2 <= SequenceMax
                 PROVE  \/ ClosedBy(snapshot, ClosingMoves, head + 1)
                        \/ \E e \in ClosingMoves :
                              LET t == Apply(snapshot, e, head + 1)
                              IN  t # Rejected /\ ClosedBy(t, ClosingMoves, head + 2)
      BY DEF TwoEventsClose
    <2> DEFINE s == snapshot
               q == head + 1
               r == snapshot.revision
    <2>1. /\ s \in Snapshot /\ SnapshotOK(s) /\ head \in Nat /\ q \in Nat /\ q + 1 = head + 2
          /\ s.lastSequence <= head
      BY DEF RunTypeOK, Rules, CursorInLog
    <2>2. s.lastSequence < q /\ q + 1 \in Nat
      BY <2>1 DEF Snapshot
    <2>3. /\ \A type \in {"run.completed", "run.failed", "run.cancelled",
                          "run.cancel.requested"} : ClosingEvent(type, None, r) \in ClosingMoves
          /\ \A id \in AttemptIds : ClosingEvent("attempt.failed", id, r) \in ClosingMoves
      BY DEF ClosingEvent, ClosingMoves, Bare
    <2> HIDE DEF s, q, r
    <2>4. s = snapshot /\ q = head + 1 /\ r = s.revision /\ s.status \notin TerminalRun
      BY DEF s, q, r
    <2>5. CASE Unresolved(s) # {}
      <3>1. PICK i \in Unresolved(s) : s.active = s.attempts[i].attemptId
        BY <2>1, <2>5 DEF SnapshotOK, ActiveMatches
      <3>2. s.active \in AttemptIds
        <4>1. s.attempts[i] \in Attempt
          BY <2>1, AttemptsType DEF Unresolved
        <4> QED BY <3>1, <4>1 DEF Attempt
      <3> DEFINE e == ClosingEvent("attempt.failed", s.active, r)
                 t == Apply(s, e, q)
                 f == ClosingEvent("run.failed", None, r)
      <3>3. /\ t \in Snapshot /\ SnapshotOK(t) /\ t # Rejected
            /\ t.lastSequence = q /\ t.revision = r /\ t.status = "retry_pending"
        BY <2>1, <2>2, <2>4, <3>1, FailureApplies
      <3> HIDE DEF t
      <3>4. Unresolved(t) = {} /\ LatestIs(t, {"failed"})
        BY <3>3 DEF SnapshotOK, StatusMatchesAttempts
      <3>5. RunEventOK(t, ClosingEvent("run.failed", None, t.revision))
        BY <3>4 DEF RunEventOK, ClosingEvent
      <3>6. t.status \notin TerminalRun /\ t.lastSequence < q + 1
        BY <2>1, <3>3 DEF TerminalRun
      <3>7. Apply(t, f, q + 1) # Rejected /\ Apply(t, f, q + 1).status = "failed"
        BY <2>2, <3>3, <3>5, <3>6, RunEventApplies
      <3>8. e \in ClosingMoves /\ f \in ClosingMoves
        BY <2>3, <3>2
      <3> HIDE DEF e, f
      <3>9. ClosedBy(t, ClosingMoves, q + 1)
        BY <3>7, <3>8 DEF ClosedBy, TerminalRun
      <3> QED BY <2>1, <2>4, <3>3, <3>8, <3>9 DEF t
    <2>6. CASE Unresolved(s) = {} /\ (s.attempts = << >> \/ LatestIs(s, {"cancelled"}))
      <3> DEFINE e == ClosingEvent("run.cancel.requested", None, r)
                 f == ClosingEvent("run.cancelled", None, r)
                 t == Apply(s, e, q)
      <3>1. /\ t # Rejected /\ Apply(t, f, q + 1) # Rejected
            /\ Apply(t, f, q + 1).status \in TerminalRun
        BY <2>1, <2>2, <2>4, <2>6, CancelCloses
      <3>2. e \in ClosingMoves /\ f \in ClosingMoves
        BY <2>3
      <3> HIDE DEF e, f, t
      <3>3. ClosedBy(t, ClosingMoves, q + 1)
        BY <3>1, <3>2 DEF ClosedBy
      <3> QED BY <2>1, <2>4, <3>1, <3>2, <3>3 DEF t
    <2>7. ASSUME NEW type \in {"run.completed", "run.failed"},
                 RunEventOK(s, ClosingEvent(type, None, s.revision))
          PROVE  ClosedBy(s, ClosingMoves, q)
      <3> DEFINE e == ClosingEvent(type, None, r)
      <3>1. Apply(s, e, q) # Rejected /\ Apply(s, e, q).status \in {"completed", "failed"}
        BY <2>1, <2>2, <2>4, <2>7, RunEventApplies
      <3>2. e \in ClosingMoves
        BY <2>3
      <3> HIDE DEF e
      <3> QED BY <3>1, <3>2 DEF ClosedBy, TerminalRun
    <2>8. CASE Unresolved(s) = {} /\ LatestIs(s, {"succeeded"})
      <3>1. RunEventOK(s, ClosingEvent("run.completed", None, s.revision))
        BY <2>8 DEF RunEventOK, ClosingEvent
      <3> QED BY <2>4, <2>7, <3>1
    <2>9. CASE Unresolved(s) = {} /\ LatestIs(s, {"failed"})
      <3>1. RunEventOK(s, ClosingEvent("run.failed", None, s.revision))
        BY <2>9 DEF RunEventOK, ClosingEvent
      <3> QED BY <2>4, <2>7, <3>1
    <2>10. \/ Unresolved(s) # {} \/ s.attempts = << >> \/ LatestIs(s, {"cancelled"})
           \/ LatestIs(s, {"succeeded"}) \/ LatestIs(s, {"failed"})
      <3> SUFFICES ASSUME s.attempts # << >>, Unresolved(s) = {}
                   PROVE  Latest(s).status \in TerminalAttempt
        BY DEF LatestIs, TerminalAttempt
      <3>1. s.attempts \in Seq(Attempt)
        BY <2>1 DEF Snapshot
      <3>2. Len(s.attempts) \in DOMAIN s.attempts /\ Latest(s) \in Attempt
        BY <3>1 DEF Latest
      <3>3. Latest(s).status \notin UnresolvedAttempt
        BY <3>2 DEF Unresolved, Latest
      <3> QED BY <3>2, <3>3 DEF Attempt, AttemptStatuses
    <2> QED BY <2>4, <2>5, <2>6, <2>8, <2>9, <2>10
  <1> QED BY <1>1, RulesHold, CursorHolds, PTL

-----------------------------------------------------------------------------
(* The inductive invariant.                                                *)

CompletedRecorded == \E i \in DOMAIN leases : leases[i].status = "completed"

ObservedRecorded == \E i \in DOMAIN leases : leases[i].status = "failed" /\ leases[i].observed

\* What the attempts of a snapshot say is backed: success by a completed lease,
\* cancellation by an observed stop and a request.
Backed(s, completed, observed) ==
    \A i \in DOMAIN s.attempts :
        /\ s.attempts[i].status = "succeeded" => completed
        /\ s.attempts[i].status = "cancelled" =>
               observed /\ (s.cancelRequested \/ s.attempts[i].cancelRequested)

\* The fold obeys the snapshot rules and claims only what is backed.
SnapshotBacked ==
    snapshot # None =>
        SnapshotOK(snapshot) /\ Backed(snapshot, CompletedRecorded, ObservedRecorded)

\* What a call holds is backed: its lease, its outcome and its path.
CallBacked(step, call, completed, observed) ==
    /\ step = "decide" =>
           /\ call.lease \in Lease
           /\ call.lease.status = "completed" => completed
           /\ call.lease.status = "failed" /\ call.lease.observed => observed
    /\ step = "plan" =>
           /\ call.outcome \in Outcomes
           /\ call.outcome = "succeed" => completed
           /\ call.outcome = "cancelled" => observed
    /\ \A k \in DOMAIN call.path :
           /\ call.path[k] = "attempt.succeeded" => completed
           /\ call.path[k] = "attempt.cancelled" => observed

\* It was when the reconciler read it, and it still is: no fact behind a lease,
\* an outcome or a path that is held across appends of others is taken back.
PlanBacked ==
    \A p \in Reconcilers : CallBacked(pc[p], plan[p], CompletedRecorded, ObservedRecorded)

RecoveryInv == TypeOK /\ SnapshotBacked /\ PlanBacked

-----------------------------------------------------------------------------
(* The fold.                                                               *)

\* The drafts of the runtime are events of the Run.
LEMMA DraftType ==
    ASSUME NEW type \in LifecycleTypes
    PROVE  Draft(type) \in Event /\ Draft(type).type = type
  <1>1. 1 \in Ordinals
    BY ConstantsAssumption DEF Ordinals
  <1> QED BY <1>1, RecoveryAssumption DEF Draft, Event, EventTypes

\* An event resolves an attempt only as its type says, and cancels one only if
\* somebody asked.
LEMMA FoldBacked ==
    ASSUME NEW s \in Snapshot, SnapshotOK(s), NEW e \in Event, NEW q \in Nat, Guard(s, e, q),
           NEW completed \in BOOLEAN, NEW observed \in BOOLEAN,
           Backed(s, completed, observed),
           e.type = "attempt.succeeded" => completed,
           e.type = "attempt.cancelled" => observed
    PROVE  Backed(Result(s, e, q), completed, observed)
  <1> DEFINE t == Result(s, e, q)
             n == Len(s.attempts)
  <1>1. /\ n \in Nat /\ DOMAIN s.attempts = 1 .. n
        /\ \A i \in 1 .. n : s.attempts[i] \in Attempt
    BY AttemptsType
  <1>2. CASE e.type \notin AttemptTypes
    <2>1. t.attempts = s.attempts
      BY <1>2, KeptFields
    <2>2. s.cancelRequested => t.cancelRequested
      <3>1. CASE e.type \in {"other", "run.reviewed"}
        BY <3>1, ObservedFields
      <3>2. CASE e.type \notin {"other", "run.reviewed"}
        <4>1. t = Stamped(RunEventResult(s, e), q)
          BY <1>2, <3>2 DEF Result, Updated, AttemptTypes
        <4> QED BY <4>1 DEF Stamped, RunEventResult, Snapshot
      <3> QED BY <3>1, <3>2
    <2> QED BY <2>1, <2>2 DEF Backed
  <1>3. CASE e.type = "attempt.queued"
    <2>1. /\ DOMAIN t.attempts = 1 .. n + 1 /\ t.cancelRequested = s.cancelRequested
          /\ \A i \in 1 .. n : t.attempts[i] = s.attempts[i]
          /\ t.attempts[n + 1] = NewAttempt(e, q)
      BY <1>3, AttemptQueuedFields
    <2>2. t.attempts[n + 1].status = "queued"
      BY <2>1 DEF NewAttempt
    <2> HIDE DEF t
    <2>3. Backed(t, completed, observed)
      BY <1>1, <2>1, <2>2 DEF Backed
    <2> QED BY <2>3 DEF t
  <1>4. CASE e.type \in AttemptTypes \ {"attempt.queued"}
    <2>1. /\ n \in Nat \ {0} /\ s.attempts[n].attemptId = e.attemptId
          /\ s.attempts[n].status \in UnresolvedAttempt
          /\ DOMAIN t.attempts = 1 .. n /\ t.cancelRequested = s.cancelRequested
          /\ \A i \in 1 .. n - 1 : t.attempts[i] = s.attempts[i]
          /\ t.attempts[n] = MovedAttempt(s.attempts[n], e, q)
      BY <1>4, AttemptEventFields
    <2>2. s.attempts[n] \in Attempt /\ n \in DOMAIN s.attempts
      BY <1>1, <2>1
    <2>3. /\ t.attempts[n].status = AttemptTo(e.type, s.attempts[n].status)
          /\ s.attempts[n].cancelRequested => t.attempts[n].cancelRequested
      BY <2>1, <2>2 DEF MovedAttempt, Attempt
    <2>4. /\ t.attempts[n].status = "succeeded" => e.type = "attempt.succeeded"
          /\ t.attempts[n].status = "cancelled" => e.type = "attempt.cancelled"
      BY <2>1, <2>3 DEF AttemptTo, UnresolvedAttempt
    <2>5. e.type = "attempt.cancelled" => s.cancelRequested \/ s.attempts[n].cancelRequested
      <3>1. PICK i \in DOMAIN s.attempts :
               /\ s.attempts[i].attemptId = e.attemptId
               /\ e.type = "attempt.cancelled" =>
                      s.cancelRequested \/ s.attempts[i].cancelRequested
        BY <1>4 DEF Guard, AttemptEventOK
      <3>2. i = n
        BY <2>1, <2>2, <3>1 DEF SnapshotOK, IdsUnique
      <3> QED BY <3>1, <3>2
    <2> HIDE DEF t
    <2>6. Backed(t, completed, observed)
      BY <1>1, <2>1, <2>3, <2>4, <2>5 DEF Backed
    <2> QED BY <2>6 DEF t
  <1> QED BY <1>2, <1>3, <1>4

\* What _append commits is a snapshot that obeys the rules and is backed, given
\* that the draft is.
LEMMA AppendRunStep ==
    ASSUME TypeOK, SnapshotBacked, NEW type \in LifecycleTypes, AppendRun(type),
           type = "attempt.succeeded" => CompletedRecorded,
           type = "attempt.cancelled" => ObservedRecorded
    PROVE  /\ snapshot' \in Snapshot /\ head' \in 0 .. SequenceMax
           /\ SnapshotOK(snapshot') /\ Backed(snapshot', CompletedRecorded, ObservedRecorded)
  <1> DEFINE e == Draft(type)
             q == head + 1
  <1>1. e \in Event /\ e.type = type
    BY DraftType
  <1>2. head \in Nat /\ SequenceMax \in Nat /\ head < SequenceMax /\ q \in Nat
    BY ConstantsAssumption DEF TypeOK, RunTypeOK, AppendRun
  <1>3. head' \in 0 .. SequenceMax
    BY <1>2 DEF AppendRun
  <1>4. snapshot' = Apply(snapshot, e, q) /\ Apply(snapshot, e, q) # Rejected
    BY DEF AppendRun, Folded
  <1>5. snapshot \in Snapshot \union {None}
    BY DEF TypeOK, RunTypeOK
  <1>6. CompletedRecorded \in BOOLEAN /\ ObservedRecorded \in BOOLEAN
    BY DEF CompletedRecorded, ObservedRecorded
  <1> HIDE DEF e, q
  <1>7. CASE snapshot = None
    <2>1. snapshot' = FirstSnapshot(e, q)
      BY <1>1, <1>4, <1>7 DEF Apply, LifecycleTypes, RunTypes, AttemptTypes
    <2>2. FirstSnapshot(e, q) \in Snapshot /\ SnapshotOK(FirstSnapshot(e, q))
      BY <1>1, <1>2, FirstSnapshotType, FirstSnapshotOK
    <2>3. DOMAIN FirstSnapshot(e, q).attempts = {}
      BY DEF FirstSnapshot
    <2> QED BY <1>3, <2>1, <2>2, <2>3 DEF Backed
  <1>8. CASE snapshot # None
    <2>1. /\ snapshot \in Snapshot /\ SnapshotOK(snapshot)
          /\ Backed(snapshot, CompletedRecorded, ObservedRecorded)
      BY <1>5, <1>8 DEF SnapshotBacked
    <2>2. snapshot' = Result(snapshot, e, q) /\ Guard(snapshot, e, q) /\ SnapshotOK(snapshot')
      BY <1>4, <1>8 DEF Apply
    <2>3. snapshot' \in Snapshot
      BY <1>1, <1>2, <2>1, <2>2, ResultType DEF Guard
    <2>4. Backed(snapshot', CompletedRecorded, ObservedRecorded)
      BY <1>1, <1>2, <1>6, <2>1, <2>2, FoldBacked
    <2> QED BY <1>3, <2>2, <2>3, <2>4
  <1> QED BY <1>7, <1>8

-----------------------------------------------------------------------------
(* Facts about leases, plans and paths.                                    *)

PlanType ==
    [lease : Lease \union {None}, outcome : Outcomes \union {None}, path : Seq(LifecycleTypes)]

Steps == {"idle", "decide", "plan", "append"}

\* The events that are missing are of the outcome, and of the catalog.
LEMMA RemainingType ==
    ASSUME NEW outcome \in Outcomes
    PROVE  /\ Remaining(outcome) \in Seq({AttemptEventOf(outcome), RunEventOf(outcome)})
           /\ {AttemptEventOf(outcome), RunEventOf(outcome)} \subseteq LifecycleTypes
           /\ outcome # "succeed" => AttemptEventOf(outcome) # "attempt.succeeded"
           /\ outcome # "cancelled" => AttemptEventOf(outcome) # "attempt.cancelled"
           /\ RunEventOf(outcome) \notin {"attempt.succeeded", "attempt.cancelled"}
  <1> DEFINE S == {AttemptEventOf(outcome), RunEventOf(outcome)}
  <1>1. /\ S \subseteq LifecycleTypes
        /\ outcome # "succeed" => AttemptEventOf(outcome) # "attempt.succeeded"
        /\ outcome # "cancelled" => AttemptEventOf(outcome) # "attempt.cancelled"
        /\ RunEventOf(outcome) \notin {"attempt.succeeded", "attempt.cancelled"}
    <2>1. CASE outcome = "succeed"
      BY <2>1 DEF AttemptEventOf, RunEventOf, LifecycleTypes, RunTypes, AttemptTypes
    <2>2. CASE outcome = "failed"
      BY <2>2 DEF AttemptEventOf, RunEventOf, LifecycleTypes, RunTypes, AttemptTypes
    <2>3. CASE outcome = "cancelled"
      BY <2>3 DEF AttemptEventOf, RunEventOf, LifecycleTypes, RunTypes, AttemptTypes
    <2> QED BY <2>1, <2>2, <2>3 DEF Outcomes
  <1>2. Remaining(outcome) \in Seq(S)
    <2>1. PICK a \in {<<AttemptEventOf(outcome)>>, << >>},
               b \in {<<RunEventOf(outcome)>>, << >>} : Remaining(outcome) = a \o b
      BY DEF Remaining
    <2>2. AttemptEventOf(outcome) \in S /\ RunEventOf(outcome) \in S
      OBVIOUS
    <2> HIDE DEF S
    <2>3. << >> \in Seq(S) /\ \A x \in S : <<x>> \in Seq(S)
      OBVIOUS
    <2>4. a \in Seq(S) /\ b \in Seq(S)
      BY <2>2, <2>3, Zenon
    <2> QED BY <2>1, <2>4
  <1> QED BY <1>1, <1>2

\* A lease that has an outcome keeps it: the facts behind a plan stay.
LEMMA LeasesStep ==
    ASSUME TypeOK, [Next]_vars
    PROVE  /\ leases' \in Seq(Lease)
           /\ CompletedRecorded => CompletedRecorded'
           /\ ObservedRecorded => ObservedRecorded'
  <1>1. /\ leases \in Seq(Lease) /\ Len(leases) \in Nat /\ DOMAIN leases = 1 .. Len(leases)
        /\ \A i \in DOMAIN leases : leases[i] \in Lease
    BY DEF TypeOK, RunTypeOK
  <1>2. CASE UNCHANGED leases
    BY <1>1, <1>2 DEF CompletedRecorded, ObservedRecorded
  <1>3. CASE OpenLease
    <2>1. [status |-> "leased", observed |-> FALSE] \in Lease
      BY DEF Lease
    <2>2. leases' = Append(leases, [status |-> "leased", observed |-> FALSE])
      BY <1>3 DEF OpenLease
    <2>3. /\ leases' \in Seq(Lease) /\ DOMAIN leases \subseteq DOMAIN leases'
          /\ \A i \in DOMAIN leases : leases'[i] = leases[i]
      BY <1>1, <2>1, <2>2
    <2> QED BY <2>3 DEF CompletedRecorded, ObservedRecorded
  <1>4. ASSUME NEW status \in {"completed", "failed", "expired"}, NEW observed \in BOOLEAN,
               SettleLease(status, observed)
        PROVE  /\ leases' \in Seq(Lease)
               /\ CompletedRecorded => CompletedRecorded'
               /\ ObservedRecorded => ObservedRecorded'
    <2>1. [status |-> status, observed |-> observed] \in Lease
      BY DEF Lease
    <2>2. /\ leases' = [leases EXCEPT ![Len(leases)] = [status |-> status, observed |-> observed]]
          /\ leases # << >> /\ leases[Len(leases)].status = "leased"
      BY <1>4 DEF SettleLease, LatestLease
    <2>3. leases' \in Seq(Lease) /\ DOMAIN leases' = DOMAIN leases
      BY <1>1, <2>1, <2>2
    <2>4. \A i \in DOMAIN leases : leases[i].status # "leased" => leases'[i] = leases[i]
      BY <1>1, <2>2
    <2> QED BY <2>3, <2>4 DEF CompletedRecorded, ObservedRecorded
  <1>5. CASE Around
    BY <1>2, <1>3, <1>4, <1>5 DEF Around, Start, Report, RequestCancel
  <1>6. ASSUME NEW p \in Reconcilers, Work(p) \/ Crash(p) PROVE UNCHANGED leases
    BY <1>6 DEF Work, Reconcile, Decide, Plan, AppendNext, Finish, Crash
  <1> QED BY <1>2, <1>5, <1>6 DEF Next, vars

\* The latest lease is a recorded one.
LEMMA LatestType ==
    ASSUME TypeOK, leases # << >>
    PROVE  Len(leases) \in DOMAIN leases /\ LatestLease \in Lease
  BY DEF TypeOK, RunTypeOK, LatestLease

\* What reconcile decides is an outcome the lease carries.
LEMMA DecisionFacts ==
    ASSUME NEW lease
    PROVE  /\ Decision(lease) \in Outcomes \union {None}
           /\ Decision(lease) = "succeed" => lease.status = "completed" \/ Decision(lease) = None
           /\ Decision(lease) = "cancelled" =>
                  (lease.status = "failed" /\ lease.observed) \/ Decision(lease) = None
  BY DEF Decision, Outcomes, Succeeds, Cancels, Fails

-----------------------------------------------------------------------------
(* Every action keeps the invariant.                                       *)

\* Ending a call leaves nothing behind that needs backing.
LEMMA ReturnFacts ==
    ASSUME TypeOK, NEW p \in Reconcilers, Return(p)
    PROVE  /\ pc' \in [Reconcilers -> Steps] /\ plan' \in [Reconcilers -> PlanType]
           /\ pc'[p] = "idle" /\ DOMAIN plan'[p].path = {}
           /\ \A r \in Reconcilers \ {p} : pc'[r] = pc[r] /\ plan'[r] = plan[r]
  <1>1. NoPlan \in PlanType /\ DOMAIN NoPlan.path = {}
    BY DEF NoPlan, PlanType
  <1>2. pc \in [Reconcilers -> Steps] /\ plan \in [Reconcilers -> PlanType]
    BY DEF TypeOK, RunTypeOK, PlanType, Steps
  <1> QED BY <1>1, <1>2 DEF Return, Goto, Steps

\* An append of the runtime or of a cancellation command keeps the invariant.
LEMMA AppendKeeps ==
    ASSUME RecoveryInv, [Next]_vars, NEW type \in LifecycleTypes, AppendRun(type),
           UNCHANGED leases,
           type = "attempt.succeeded" => CompletedRecorded,
           type = "attempt.cancelled" => ObservedRecorded
    PROVE  /\ snapshot' \in Snapshot \union {None} /\ head' \in 0 .. SequenceMax
           /\ SnapshotBacked'
  <1>1. /\ snapshot' \in Snapshot /\ head' \in 0 .. SequenceMax
        /\ SnapshotOK(snapshot') /\ Backed(snapshot', CompletedRecorded, ObservedRecorded)
    BY AppendRunStep DEF RecoveryInv
  <1>2. CompletedRecorded' = CompletedRecorded /\ ObservedRecorded' = ObservedRecorded
    BY DEF CompletedRecorded, ObservedRecorded
  <1> QED BY <1>1, <1>2 DEF SnapshotBacked

\* A step that leaves the Run alone keeps the snapshot backed.
LEMMA UnchangedRunKeeps ==
    ASSUME RecoveryInv, [Next]_vars, UNCHANGED runVars
    PROVE  /\ snapshot' \in Snapshot \union {None} /\ head' \in 0 .. SequenceMax
           /\ SnapshotBacked'
  <1>1. /\ CompletedRecorded => CompletedRecorded'
        /\ ObservedRecorded => ObservedRecorded'
    BY LeasesStep DEF RecoveryInv
  <1>2. snapshot' = snapshot /\ head' = head
    BY DEF runVars
  <1>3. SnapshotBacked'
    BY <1>1, <1>2 DEF RecoveryInv, SnapshotBacked, Backed
  <1> QED BY <1>2, <1>3 DEF RecoveryInv, TypeOK, RunTypeOK

\* A step that leaves the reconcilers alone keeps their plans backed.
LEMMA UnchangedPlansKeep ==
    ASSUME RecoveryInv, [Next]_vars, UNCHANGED <<pc, plan>>
    PROVE  PlanBacked'
  <1>1. /\ CompletedRecorded => CompletedRecorded'
        /\ ObservedRecorded => ObservedRecorded'
    BY LeasesStep DEF RecoveryInv
  <1> QED BY <1>1 DEF RecoveryInv, PlanBacked, CallBacked

\* A step of one reconciler keeps the plans of the others backed.
LEMMA OtherPlansKeep ==
    ASSUME RecoveryInv, [Next]_vars, NEW p \in Reconcilers,
           \A r \in Reconcilers \ {p} : pc'[r] = pc[r] /\ plan'[r] = plan[r],
           CallBacked(pc'[p], plan'[p], CompletedRecorded, ObservedRecorded)
    PROVE  PlanBacked'
  <1>1. /\ CompletedRecorded => CompletedRecorded'
        /\ ObservedRecorded => ObservedRecorded'
    BY LeasesStep DEF RecoveryInv
  <1>2. ASSUME NEW r \in Reconcilers
        PROVE  CallBacked(pc'[r], plan'[r], CompletedRecorded, ObservedRecorded)
    BY DEF RecoveryInv, PlanBacked
  <1>3. ASSUME NEW r \in Reconcilers
        PROVE  CallBacked(pc'[r], plan'[r], CompletedRecorded', ObservedRecorded')
    BY <1>1, <1>2 DEF CallBacked
  <1> QED BY <1>3 DEF PlanBacked

\* So does a step of reconciler p that has typed and backed what it holds.
LEMMA WorkStep ==
    ASSUME RecoveryInv, [Next]_vars, NEW p \in Reconcilers, Work(p) \/ Crash(p)
    PROVE  RecoveryInv'
  <1>1. /\ pc \in [Reconcilers -> Steps] /\ plan \in [Reconcilers -> PlanType]
        /\ TypeOK /\ plan[p] \in PlanType
    BY DEF RecoveryInv, TypeOK, RunTypeOK, PlanType, Steps
  <1>2. CallBacked(pc[p], plan[p], CompletedRecorded, ObservedRecorded)
    BY DEF RecoveryInv, PlanBacked
  <1>3. leases' \in Seq(Lease)
    BY <1>1, LeasesStep
  <1>4. ASSUME UNCHANGED <<runVars, flips>>, crashes' \in 0 .. MaxCrashes,
               pc' \in [Reconcilers -> Steps], plan' \in [Reconcilers -> PlanType],
               \A r \in Reconcilers \ {p} : pc'[r] = pc[r] /\ plan'[r] = plan[r],
               CallBacked(pc'[p], plan'[p], CompletedRecorded, ObservedRecorded)
        PROVE  RecoveryInv'
    <2>1. /\ snapshot' \in Snapshot \union {None} /\ head' \in 0 .. SequenceMax
          /\ SnapshotBacked'
      BY <1>4, UnchangedRunKeeps
    <2>2. PlanBacked'
      BY <1>4, OtherPlansKeep
    <2> QED BY <1>1, <1>3, <1>4, <2>1, <2>2 DEF RecoveryInv, TypeOK, RunTypeOK, PlanType, Steps
  <1>5. CASE Return(p) /\ UNCHANGED <<runVars, flips>> /\ crashes' \in 0 .. MaxCrashes
    <2>1. /\ pc' \in [Reconcilers -> Steps] /\ plan' \in [Reconcilers -> PlanType]
          /\ pc'[p] = "idle" /\ DOMAIN plan'[p].path = {}
          /\ \A r \in Reconcilers \ {p} : pc'[r] = pc[r] /\ plan'[r] = plan[r]
      BY <1>1, <1>5, ReturnFacts
    <2>2. CallBacked(pc'[p], plan'[p], CompletedRecorded, ObservedRecorded)
      BY <2>1 DEF CallBacked
    <2> QED BY <1>4, <1>5, <2>1, <2>2
  <1>6. crashes \in 0 .. MaxCrashes
    BY <1>1 DEF TypeOK, RunTypeOK
  <1>7. CASE Reconcile(p)
    <2>1. Len(leases) \in DOMAIN leases /\ LatestLease \in Lease
          /\ LatestLease = leases[Len(leases)]
      BY <1>1, <1>7, LatestType DEF Reconcile, LatestLease
    <2>2. /\ plan' = [plan EXCEPT ![p].lease = LatestLease]
          /\ pc' = [pc EXCEPT ![p] = "decide"]
          /\ UNCHANGED <<runVars, flips, crashes>>
      BY <1>7 DEF Reconcile, Goto
    <2>3. /\ pc' \in [Reconcilers -> Steps] /\ plan' \in [Reconcilers -> PlanType]
          /\ \A r \in Reconcilers \ {p} : pc'[r] = pc[r] /\ plan'[r] = plan[r]
          /\ pc'[p] = "decide" /\ plan'[p].lease = LatestLease
          /\ plan'[p].path = plan[p].path
      BY <1>1, <2>1, <2>2 DEF PlanType, Steps
    <2>4. /\ LatestLease.status = "completed" => CompletedRecorded
          /\ LatestLease.status = "failed" /\ LatestLease.observed => ObservedRecorded
      BY <2>1 DEF CompletedRecorded, ObservedRecorded
    <2>5. CallBacked(pc'[p], plan'[p], CompletedRecorded, ObservedRecorded)
      BY <1>2, <2>1, <2>3, <2>4 DEF CallBacked
    <2> QED BY <1>4, <1>6, <2>2, <2>3, <2>5
  <1>8. CASE Decide(p)
    <2> DEFINE outcome == Decision(plan[p].lease)
    <2>1. pc[p] = "decide" /\ UNCHANGED <<runVars, leases, flips, crashes>>
      BY <1>8 DEF Decide
    <2>2. CASE outcome = None
      BY <1>5, <1>6, <1>8, <2>1, <2>2 DEF Decide
    <2>3. CASE outcome # None
      <3>1. /\ outcome \in Outcomes
            /\ outcome = "succeed" => plan[p].lease.status = "completed"
            /\ outcome = "cancelled" => plan[p].lease.status = "failed" /\ plan[p].lease.observed
        BY <2>3, DecisionFacts
      <3>2. plan' = [plan EXCEPT ![p].outcome = outcome] /\ pc' = [pc EXCEPT ![p] = "plan"]
        BY <1>8, <2>3 DEF Decide, Goto
      <3> HIDE DEF outcome
      <3>3. /\ pc' \in [Reconcilers -> Steps] /\ plan' \in [Reconcilers -> PlanType]
            /\ \A r \in Reconcilers \ {p} : pc'[r] = pc[r] /\ plan'[r] = plan[r]
            /\ pc'[p] = "plan" /\ plan'[p].outcome = outcome /\ plan'[p].path = plan[p].path
        BY <1>1, <3>1, <3>2 DEF PlanType, Steps
      <3>4. CallBacked(pc'[p], plan'[p], CompletedRecorded, ObservedRecorded)
        BY <1>2, <2>1, <3>1, <3>3 DEF CallBacked
      <3> QED BY <1>4, <1>6, <2>1, <3>3, <3>4
    <2> QED BY <2>2, <2>3
  <1>9. CASE Plan(p)
    <2> DEFINE outcome == plan[p].outcome
               path == Remaining(outcome)
    <2>1. /\ pc[p] = "plan" /\ UNCHANGED <<runVars, leases, flips, crashes>>
          /\ plan' = [plan EXCEPT ![p].path = path] /\ pc' = [pc EXCEPT ![p] = "append"]
      BY <1>9 DEF Plan, Goto
    <2>2. /\ outcome \in Outcomes /\ (outcome = "succeed" => CompletedRecorded)
          /\ outcome = "cancelled" => ObservedRecorded
      BY <1>2, <2>1 DEF CallBacked
    <2>3. /\ path \in Seq({AttemptEventOf(outcome), RunEventOf(outcome)})
          /\ {AttemptEventOf(outcome), RunEventOf(outcome)} \subseteq LifecycleTypes
          /\ outcome # "succeed" => AttemptEventOf(outcome) # "attempt.succeeded"
          /\ outcome # "cancelled" => AttemptEventOf(outcome) # "attempt.cancelled"
          /\ RunEventOf(outcome) \notin {"attempt.succeeded", "attempt.cancelled"}
      BY <2>2, RemainingType
    <2> HIDE DEF path
    <2>4. \A k \in DOMAIN path : path[k] \in {AttemptEventOf(outcome), RunEventOf(outcome)}
      BY <2>3
    <2>5. path \in Seq(LifecycleTypes)
      BY <2>3
    <2>6. /\ pc' \in [Reconcilers -> Steps] /\ plan' \in [Reconcilers -> PlanType]
          /\ \A r \in Reconcilers \ {p} : pc'[r] = pc[r] /\ plan'[r] = plan[r]
          /\ pc'[p] = "append" /\ plan'[p].path = path
      BY <1>1, <2>1, <2>5 DEF PlanType, Steps
    <2>7. CallBacked(pc'[p], plan'[p], CompletedRecorded, ObservedRecorded)
      BY <2>2, <2>3, <2>4, <2>6 DEF CallBacked
    <2> QED BY <1>4, <1>6, <2>1, <2>6, <2>7
  <1>10. CASE AppendNext(p)
    <2> DEFINE path == plan[p].path
               rest == SubSeq(path, 2, Len(path))
    <2>1. /\ pc[p] = "append" /\ path # << >> /\ AppendRun(path[1])
          /\ plan' = [plan EXCEPT ![p].path = rest]
          /\ UNCHANGED <<leases, pc, flips, crashes>>
      BY <1>10 DEF AppendNext
    <2>2. path \in Seq(LifecycleTypes)
      BY <1>1 DEF PlanType
    <2>3. \A k \in DOMAIN path :
              /\ path[k] = "attempt.succeeded" => CompletedRecorded
              /\ path[k] = "attempt.cancelled" => ObservedRecorded
      BY <1>2 DEF CallBacked
    <2> HIDE DEF path
    <2>4. /\ path[1] \in LifecycleTypes /\ 1 \in DOMAIN path
          /\ rest \in Seq(LifecycleTypes)
          /\ \A k \in DOMAIN rest : k + 1 \in DOMAIN path /\ rest[k] = path[k + 1]
      BY <2>1, <2>2
    <2> HIDE DEF rest
    <2>5. /\ snapshot' \in Snapshot \union {None} /\ head' \in 0 .. SequenceMax
          /\ SnapshotBacked'
      <3>1. /\ path[1] = "attempt.succeeded" => CompletedRecorded
            /\ path[1] = "attempt.cancelled" => ObservedRecorded
        <4>1. 1 \in DOMAIN path
          BY <2>4
        <4> QED BY <2>3, <4>1, Zenon
      <3> DEFINE type == path[1]
      <3>2. type \in LifecycleTypes /\ AppendRun(type) /\ UNCHANGED leases
            /\ (type = "attempt.succeeded" => CompletedRecorded)
            /\ (type = "attempt.cancelled" => ObservedRecorded)
        BY <2>1, <2>4, <3>1
      <3> HIDE DEF type
      <3> QED BY <3>2, AppendKeeps
    <2>6. /\ plan' \in [Reconcilers -> PlanType] /\ plan'[p].path = rest
          /\ \A r \in Reconcilers \ {p} : pc'[r] = pc[r] /\ plan'[r] = plan[r]
          /\ pc'[p] = "append"
      BY <1>1, <2>1, <2>4 DEF PlanType
    <2>7. CallBacked(pc'[p], plan'[p], CompletedRecorded, ObservedRecorded)
      <3>1. \A k \in DOMAIN rest :
                /\ rest[k] = "attempt.succeeded" => CompletedRecorded
                /\ rest[k] = "attempt.cancelled" => ObservedRecorded
        <4> TAKE k \in DOMAIN rest
        <4>1. k + 1 \in DOMAIN path /\ rest[k] = path[k + 1]
          BY <2>4
        <4> QED BY <2>3, <4>1, Zenon
      <3> QED BY <2>6, <3>1 DEF CallBacked
    <2>8. PlanBacked'
      BY <2>6, <2>7, OtherPlansKeep
    <2> QED BY <1>1, <1>3, <2>1, <2>5, <2>6, <2>8 DEF RecoveryInv, TypeOK, RunTypeOK, PlanType
  <1>11. CASE Finish(p)
    BY <1>5, <1>6, <1>11 DEF Finish
  <1>12. CASE Crash(p)
    <2>1. crashes' \in 0 .. MaxCrashes
      BY <1>6, <1>12, RecoveryAssumption DEF Crash
    <2> QED BY <1>5, <1>12, <2>1 DEF Crash
  <1> QED BY <1>7, <1>8, <1>9, <1>10, <1>11, <1>12 DEF Work

\* Every step of the coordinator, the supervisor and the worker keeps it.
LEMMA AroundStep ==
    ASSUME RecoveryInv, [Next]_vars, Around
    PROVE  RecoveryInv'
  <1>1. TypeOK /\ leases' \in Seq(Lease)
    BY LeasesStep DEF RecoveryInv
  <1>2. UNCHANGED <<pc, plan, crashes>> /\ flips' \in 0 .. MaxFlips
    <2>1. flips \in 0 .. MaxFlips /\ MaxFlips \in Nat
      BY <1>1, RecoveryAssumption DEF TypeOK, RunTypeOK
    <2>2. /\ UNCHANGED <<pc, plan, crashes>>
          /\ flips' = flips \/ (flips < MaxFlips /\ flips' = flips + 1)
      <3>1. CASE Start \/ OpenLease
        BY <3>1 DEF Start, OpenLease
      <3>2. ASSUME NEW type, Report(type) \/ RequestCancel(type)
            PROVE  /\ UNCHANGED <<pc, plan, crashes>>
                   /\ flips' = flips \/ (flips < MaxFlips /\ flips' = flips + 1)
        BY <3>2 DEF Report, RequestCancel
      <3>3. ASSUME NEW status, NEW observed, SettleLease(status, observed)
            PROVE  UNCHANGED <<pc, plan, crashes, flips>>
        BY <3>3 DEF SettleLease
      <3> QED BY <3>1, <3>2, <3>3 DEF Around
    <2> QED BY <2>1, <2>2
  <1>3. PlanBacked'
    BY <1>2, UnchangedPlansKeep
  <1>4. ASSUME NEW type \in LifecycleTypes \ {"attempt.succeeded", "attempt.cancelled"},
               AppendRun(type), UNCHANGED leases
        PROVE  RecoveryInv'
    <2>1. /\ snapshot' \in Snapshot \union {None} /\ head' \in 0 .. SequenceMax
          /\ SnapshotBacked'
      BY <1>4, AppendKeeps
    <2> QED BY <1>1, <1>2, <1>3, <2>1 DEF RecoveryInv, TypeOK, RunTypeOK
  <1>5. CASE UNCHANGED runVars
    <2>1. /\ snapshot' \in Snapshot \union {None} /\ head' \in 0 .. SequenceMax
          /\ SnapshotBacked'
      BY <1>5, UnchangedRunKeeps
    <2> QED BY <1>1, <1>2, <1>3, <2>1 DEF RecoveryInv, TypeOK, RunTypeOK
  <1>6. CASE Start
    <2>1. PICK n \in DOMAIN StartPath : AppendRun(StartPath[n]) /\ UNCHANGED leases
      BY <1>6 DEF Start
    <2>2. StartPath[n] \in LifecycleTypes \ {"attempt.succeeded", "attempt.cancelled"}
      BY DEF StartPath, LifecycleTypes, RunTypes, AttemptTypes
    <2> QED BY <1>4, <2>1, <2>2
  <1>7. ASSUME NEW type \in {"attempt.unknown", "attempt.lost", "attempt.recovered"},
               Report(type)
        PROVE  RecoveryInv'
    BY <1>4, <1>7 DEF Report, LifecycleTypes, RunTypes, AttemptTypes
  <1>8. ASSUME NEW type \in {"run.cancel.requested", "attempt.cancel.requested"},
               RequestCancel(type)
        PROVE  RecoveryInv'
    BY <1>4, <1>8 DEF RequestCancel, LifecycleTypes, RunTypes, AttemptTypes
  <1>9. CASE OpenLease
    BY <1>5, <1>9 DEF OpenLease
  <1>10. ASSUME NEW status, NEW observed, SettleLease(status, observed) PROVE RecoveryInv'
    BY <1>5, <1>10 DEF SettleLease
  <1> QED BY <1>6, <1>7, <1>8, <1>9, <1>10 DEF Around

-----------------------------------------------------------------------------
(* The theorems.                                                           *)

\* The invariant holds before the Run exists.
LEMMA RecoveryInvInit == Init => RecoveryInv
  <1> SUFFICES ASSUME Init PROVE RecoveryInv
    OBVIOUS
  <1>1. NoPlan \in PlanType /\ DOMAIN NoPlan.path = {}
    BY DEF NoPlan, PlanType
  <1>2. {MaxLeases, MaxFlips, MaxCrashes, SequenceMax} \subseteq Nat
    BY RecoveryAssumption, ConstantsAssumption
  <1>3. head \in 0 .. SequenceMax /\ flips \in 0 .. MaxFlips /\ crashes \in 0 .. MaxCrashes
    BY <1>2 DEF Init, RunInit
  <1>4. TypeOK
    BY <1>1, <1>3 DEF Init, RunInit, TypeOK, RunTypeOK, PlanType
  <1>5. PlanBacked
    BY <1>1 DEF Init, RunInit, PlanBacked, CallBacked
  <1> QED BY <1>4, <1>5 DEF Init, RunInit, RecoveryInv, SnapshotBacked

\* Every step keeps it.
LEMMA RecoveryInvStep == RecoveryInv /\ [Next]_vars => RecoveryInv'
  <1> SUFFICES ASSUME RecoveryInv, [Next]_vars PROVE RecoveryInv'
    OBVIOUS
  <1>1. CASE UNCHANGED vars
    <2>1. TypeOK'
      BY <1>1 DEF vars, RecoveryInv, TypeOK, RunTypeOK
    <2>2. SnapshotBacked'
      BY <1>1, UnchangedRunKeeps DEF vars, runVars
    <2>3. PlanBacked'
      BY <1>1, UnchangedPlansKeep DEF vars
    <2> QED BY <2>1, <2>2, <2>3 DEF RecoveryInv
  <1> QED BY <1>1, AroundStep, WorkStep DEF Next

\* So it holds throughout.
LEMMA RecoveryInvariant == Spec => []RecoveryInv
  BY RecoveryInvInit, RecoveryInvStep, PTL DEF Spec

\* The attempt reconciliation looks at is one of the fold.
LEMMA TheAttemptFacts ==
    ASSUME HasAttempt
    PROVE  \E i \in DOMAIN snapshot.attempts : TheAttempt = snapshot.attempts[i]
  BY DEF HasAttempt, TheAttempt

\* Every reachable state is typed.
THEOREM RecoveryTypeCorrect == Spec => []TypeOK
  <1>1. RecoveryInv => TypeOK
    BY DEF RecoveryInv
  <1> QED BY <1>1, RecoveryInvariant, PTL

\* Reconciliation marks no success without a completed lease, however many
\* reconcilers race, die between their appends or act on a lease they read long ago.
THEOREM SuccessBacked == Spec => []SuccessWasRecorded
  <1>1. RecoveryInv => SuccessWasRecorded
    <2> SUFFICES ASSUME RecoveryInv, AttemptStatus = "succeeded" PROVE CompletedRecorded
      BY DEF SuccessWasRecorded, CompletedRecorded
    <2>1. HasAttempt /\ TheAttempt.status = "succeeded"
      BY DEF AttemptStatus
    <2>2. PICK i \in DOMAIN snapshot.attempts : TheAttempt = snapshot.attempts[i]
      BY <2>1, TheAttemptFacts
    <2>3. snapshot # None
      BY <2>1 DEF HasAttempt
    <2> QED BY <2>1, <2>2, <2>3 DEF RecoveryInv, SnapshotBacked, Backed
  <1> QED BY <1>1, RecoveryInvariant, PTL

\* A cancelled attempt was asked to stop and was observed to have stopped.
THEOREM CancellationBacked == Spec => []CancelWasObserved
  <1>1. RecoveryInv => CancelWasObserved
    <2> SUFFICES ASSUME RecoveryInv, AttemptStatus = "cancelled"
                 PROVE  CancelRequested /\ ObservedRecorded
      BY DEF CancelWasObserved, ObservedRecorded
    <2>1. HasAttempt /\ TheAttempt.status = "cancelled"
      BY DEF AttemptStatus
    <2>2. PICK i \in DOMAIN snapshot.attempts : TheAttempt = snapshot.attempts[i]
      BY <2>1, TheAttemptFacts
    <2>3. snapshot # None
      BY <2>1 DEF HasAttempt
    <2>4. ObservedRecorded /\ (snapshot.cancelRequested \/ TheAttempt.cancelRequested)
      BY <2>1, <2>2, <2>3 DEF RecoveryInv, SnapshotBacked, Backed
    <2> QED BY <2>1, <2>3, <2>4 DEF CancelRequested
  <1> QED BY <1>1, RecoveryInvariant, PTL

\* What the runtime appends is an event of the aggregate.
LEMMA AppendIsFold ==
    ASSUME NEW type \in LifecycleTypes, AppendRun(type)
    PROVE  RunNext
  <1>1. Draft(type) \in Event /\ Draft(type).type = type
    BY DraftType
  <1>2. Draft(type) \in Drafts
    BY <1>1 DEF Drafts, PayloadFits, Draft
  <1>3. /\ head < SequenceMax /\ head' = head + 1
        /\ Apply(snapshot, Draft(type), head + 1) # Rejected
        /\ snapshot' = Apply(snapshot, Draft(type), head + 1)
    BY DEF AppendRun, Folded
  <1> HIDE DEF Draft
  <1>4. ASSUME NEW types, type \in types PROVE Fold(types)
    BY <1>1, <1>2, <1>3, <1>4 DEF Fold
  <1> QED BY <1>4 DEF LifecycleTypes, RunNext, RunEvent, AttemptEvent

\* The runtime and its reconcilers only ever take steps of the aggregate: what is
\* proved of RunState (resolved attempts stay, the contract is kept, no run is
\* stranded) is true of every run that workers serve.
THEOREM RecoveryImplementsRun == Spec => RunSpec
  <1>1. Init => RunInit
    BY DEF Init
  <1>2. RecoveryInv /\ [Next]_vars => [RunNext]_runVars
    <2> SUFFICES ASSUME RecoveryInv, [Next]_vars, ~UNCHANGED runVars PROVE RunNext
      OBVIOUS
    <2>1. CASE Start
      <3>1. PICK n \in DOMAIN StartPath : AppendRun(StartPath[n])
        BY <2>1 DEF Start
      <3>2. StartPath[n] \in LifecycleTypes
        BY DEF StartPath, LifecycleTypes, RunTypes, AttemptTypes
      <3> QED BY <3>1, <3>2, AppendIsFold
    <2>2. ASSUME NEW type \in {"attempt.unknown", "attempt.lost", "attempt.recovered"}, Report(type)
          PROVE  RunNext
      BY <2>2, AppendIsFold DEF Report, LifecycleTypes, AttemptTypes
    <2>3. ASSUME NEW type \in {"run.cancel.requested", "attempt.cancel.requested"}, RequestCancel(type)
          PROVE  RunNext
      BY <2>3, AppendIsFold DEF RequestCancel, LifecycleTypes, RunTypes, AttemptTypes
    <2>4. ASSUME NEW p \in Reconcilers, AppendNext(p) PROVE RunNext
      <3>1. plan[p].path \in Seq(LifecycleTypes) /\ plan[p].path # << >> /\ AppendRun(plan[p].path[1])
        BY <2>4 DEF AppendNext, RecoveryInv, TypeOK
      <3>2. plan[p].path[1] \in LifecycleTypes
        BY <3>1
      <3> QED BY <3>1, <3>2, AppendIsFold
    <2>5. ASSUME NEW p \in Reconcilers, Work(p) \/ Crash(p), ~AppendNext(p) PROVE FALSE
      BY <2>5 DEF Work, Crash, Reconcile, Decide, Plan, Finish, runVars
    <2>6. CASE Around
      BY <2>1, <2>2, <2>3, <2>6 DEF Around, OpenLease, SettleLease, runVars
    <2>7. ~UNCHANGED vars
      BY DEF vars, runVars
    <2> QED BY <2>4, <2>5, <2>6, <2>7 DEF Next
  <1> QED BY <1>1, <1>2, RecoveryInvariant, PTL DEF Spec, RunSpec
=============================================================================
