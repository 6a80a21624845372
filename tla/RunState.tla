------------------------------ MODULE RunState ------------------------------
(***************************************************************************)
(* The Run/Attempt aggregate as a state machine: a log head that grows by  *)
(* one event at a time, each event either accepted by the fold of          *)
(* RunReducer or belonging to another aggregate.                           *)
(***************************************************************************)
EXTENDS RunReducer

VARIABLES
    snapshot,  \* the fold of the log, None before run.queued
    head       \* the global sequence of the last event

runVars == <<snapshot, head>>

RunInit == snapshot = None /\ head = 0

Fold(types) ==
    /\ head < SequenceMax
    /\ head' = head + 1
    /\ \E e \in Drafts :
           /\ e.type \in types
           /\ Apply(snapshot, e, head + 1) # Rejected
           /\ snapshot' = Apply(snapshot, e, head + 1)

RunEvent == Fold(RunTypes)

AttemptEvent == Fold(AttemptTypes)

ObserveUnrelated == Fold({"other"})

\* An event of another (projectId, runId): the fold returns the state it got.
OtherAggregate == head < SequenceMax /\ head' = head + 1 /\ UNCHANGED snapshot

RunNext == RunEvent \/ AttemptEvent \/ ObserveUnrelated \/ OtherAggregate

RunSpec == RunInit /\ [][RunNext]_runVars
-----------------------------------------------------------------------------
(* Properties.                                                             *)

RunTypeOK == snapshot \in Snapshot \union {None} /\ head \in 0 .. SequenceMax

\* The assertion _stamp makes on every copy is never what refuses an event:
\* whenever the guards of a transition hold, its result obeys all the rules of
\* assert_run_snapshot_invariants.  (A copy the guards let through and the
\* assertion refused would be a transition the reducer half supports.)
StampNeverRejects ==
    snapshot # None /\ head < SequenceMax =>
        \A e \in Drafts :
            Guard(snapshot, e, head + 1) => SnapshotOK(Result(snapshot, e, head + 1))

\* model_copy skips the validators of AttemptSnapshot; every attempt the fold
\* derives nevertheless passes them, so a cached row of an honest fold is never
\* dropped as malformed by _require_cached_snapshot.
AttemptsRevalidate ==
    snapshot # None =>
        \A i \in DOMAIN snapshot.attempts : AttemptFieldsConsistent(snapshot.attempts[i])

\* No legal sequence of events strands a run: from every snapshot that is not
\* terminal at most two further events close it, whatever was requested, lost
\* or left unknown on the way.
Bare(type, id) ==
    [type |-> type, attemptId |-> id, revision |-> snapshot.revision, ordinal |-> 1,
     retryOf |-> None, decided |-> FALSE, maxAttempts |-> 1]

ClosingMoves ==
    {Bare(t, None) : t \in {"run.completed", "run.failed", "run.cancelled",
                            "run.cancel.requested"}}
    \union {Bare("attempt.failed", id) : id \in AttemptIds}

ClosedBy(s, moves, q) ==
    \E e \in moves : LET t == Apply(s, e, q) IN t # Rejected /\ t.status \in TerminalRun

TwoEventsClose ==
    snapshot # None /\ snapshot.status \notin TerminalRun /\ head + 2 <= SequenceMax =>
        \/ ClosedBy(snapshot, ClosingMoves, head + 1)
        \/ \E e \in ClosingMoves :
              LET t == Apply(snapshot, e, head + 1)
              IN  t # Rejected /\ ClosedBy(t, ClosingMoves, head + 2)

\* A resolved attempt keeps its record for ever: no later retry, cancellation
\* request, review or unrelated fact rewrites it or moves it in the list.
ResolvedAttemptsFrozen ==
    [][snapshot # None =>
         \A i \in DOMAIN snapshot.attempts :
             snapshot.attempts[i].status \in TerminalAttempt =>
                 /\ i \in DOMAIN snapshot'.attempts
                 /\ snapshot'.attempts[i] = snapshot.attempts[i]]_runVars

-----------------------------------------------------------------------------
(* The refinement mapping onto RunContract.                                *)

LastTry ==
    IF snapshot = None THEN "none"
    ELSE IF snapshot.attempts = << >> THEN "none"
    ELSE IF Latest(snapshot).status \in TerminalAttempt THEN Latest(snapshot).status
    ELSE "live"

Contract ==
    INSTANCE RunContract WITH
        TryLimit <- MaxAttemptsLimit,
        tries    <- IF snapshot = None THEN 0 ELSE Len(snapshot.attempts),
        last     <- LastTry,
        stop     <- IF snapshot = None THEN FALSE ELSE snapshot.cancelRequested,
        outcome  <- IF snapshot = None THEN "open"
                    ELSE IF snapshot.status \in TerminalRun THEN snapshot.status
                    ELSE "open"

\* The reducer implements the contract: at most one live try, a retry only after
\* a failure and never once the run was cancelled, a final outcome decided by
\* the last try.
ImplementsContract == Contract!ContractSpec

=============================================================================
