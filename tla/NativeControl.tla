---------------------------- MODULE NativeControl ----------------------------
(***************************************************************************)
(* The controller side of reviewed native work: the claim, start, output   *)
(* and outcome endpoints (workers/native_claim.py, native_start.py,        *)
(* native_output.py, native_outcome.py) over the Run of one attempt and    *)
(* the lease of its one grant.                                             *)
(*                                                                         *)
(* An endpoint runs under the publication lock, one append or one journal  *)
(* write per step, so an operator's cancellation or revocation falls       *)
(* between any two of them and the controller may stop there.  A check of  *)
(* the plane and the append it guards are one step here; their race is     *)
(* WorkerPlane's subject.  A start document is named by the process whose  *)
(* child it identifies, an artifact by the process that produced it.       *)
(***************************************************************************)
EXTENDS RunReducer

CONSTANTS
    Procs,   \* processes of workers, drivers and operators' commands
    NoProc   \* no process

ASSUME ControlAssumption == NoProc \notin Procs /\ AttemptIds # {} /\ Revisions # {}

VARIABLES
    ctl,     \* the EventStore's facts, the journals and the artifact store
    proc     \* [process -> its program counter and locals]

NativeAttempt == CHOOSE a \in AttemptIds : TRUE
NativeRevision == CHOOSE v \in Revisions : TRUE

QueueRows == <<"run.queued", "run.started", "attempt.queued">>

EmptyController ==
    [run |-> None, facts |-> {}, lease |-> "none", reason |-> "none", revoked |-> FALSE,
     lapsed |-> FALSE, lock |-> NoProc, journal |-> NoProc, outcomes |-> {}, cas |-> {},
     artifact |-> NoProc]

-----------------------------------------------------------------------------
(* Facts.                                                                  *)

LifecycleDraft(type) ==
    [type |-> type, attemptId |-> IF type \in AttemptTypes THEN NativeAttempt ELSE None,
     revision |-> NativeRevision, ordinal |-> 1, retryOf |-> None, decided |-> FALSE, maxAttempts |-> 1]

NextRun(type) ==
    Apply(ctl.run, LifecycleDraft(type), IF ctl.run = None THEN 1 ELSE ctl.run.lastSequence + 1)

(* An event id names its dispatch ("remote", "local") and its type.        *)
Fact(kind, type) == <<kind, type>>
Recorded(kind, type) == Fact(kind, type) \in ctl.facts

(* _append_bound and _append_once: an event of this id is the one meant;   *)
(* otherwise the Run must accept it.                                       *)
CanAppend(kind, type) == Recorded(kind, type) \/ NextRun(type) # Rejected

Appended(kind, type) ==
    IF Recorded(kind, type) THEN ctl
    ELSE [ctl EXCEPT !.run = NextRun(type), !.facts = @ \cup {Fact(kind, type)}]

MissingRows(kind) == {i \in DOMAIN QueueRows : ~Recorded(kind, QueueRows[i])}
NextRow(kind) == QueueRows[CHOOSE i \in MissingRows(kind) : \A j \in MissingRows(kind) : i <= j]

RunIs(statuses) == ctl.run # None /\ ctl.run.status \in statuses
AttemptIs(statuses) == ctl.run # None /\ LatestIs(ctl.run, statuses)

(* run_cancel_requested: of the run or of its attempt.                     *)
CancelRequested ==
    ctl.run # None /\ (ctl.run.cancelRequested \/ (ctl.run.attempts # <<>> /\ Latest(ctl.run).cancelRequested))

OpenLease == {"leased", "claimed", "consumed"}
ConsumedLease == {"consumed", "completed", "failed"}

(* _require_live_result_grant: the lease has not lapsed either.            *)
ResultLive == ~ctl.revoked /\ ~ctl.lapsed /\ ctl.lease \in OpenLease

(* native_input_scope: material authority, claimed or not.                 *)
ScopeLive == (ResultLive \/ (~ctl.revoked /\ ctl.lease = "none")) /\ ~CancelRequested

-----------------------------------------------------------------------------
(* Calls.  A caller waits at a handler's counter and goes on at ok, no     *)
(* (refused) or lost (no answer, or the controller stopped).               *)

Goto(p, pc) == proc' = [proc EXCEPT ![p].pc = pc]

Call(p, handler, ok, no, lost) ==
    proc' = [proc EXCEPT ![p].pc = handler, ![p].ok = ok, ![p].no = no, ![p].lost = lost]

At(p, pc) == proc[p].pc = pc

Unlocked(p, c) == IF c.lock = p THEN [c EXCEPT !.lock = NoProc] ELSE c

Refuse(p) == Goto(p, proc[p].no) /\ ctl' = Unlocked(p, ctl)

(* The answer may be lost; the client repeats the request or gives up.     *)
Reply(p, c, again) ==
    /\ ctl' = Unlocked(p, c)
    /\ \/ Goto(p, proc[p].ok)
       \/ proc[p].lossy /\ (Goto(p, proc[p].lost) \/ Goto(p, again))

Enter(p, handler, ok, next) ==
    /\ At(p, handler)
    /\ IF ctl.lock = NoProc /\ ok
       THEN ctl' = [ctl EXCEPT !.lock = p] /\ Goto(p, next)
       ELSE Goto(p, proc[p].no) /\ UNCHANGED ctl

(* One append of a handler, refused where the Run rejects it.              *)
Step(p, kind, type, next) ==
    IF CanAppend(kind, type)
    THEN ctl' = Appended(kind, type) /\ Goto(p, next)
    ELSE Refuse(p)

-----------------------------------------------------------------------------
(* claim_native and WorkerPlane.poll                                       *)

RunIsOurs == ctl.run = None \/ Recorded("remote", "run.queued")

Claim(p) == Enter(p, "claim", ScopeLive /\ RunIsOurs, "claim.queue")

ClaimQueue(p) ==
    /\ At(p, "claim.queue")
    /\ IF MissingRows("remote") # {}
       THEN Step(p, "remote", NextRow("remote"), "claim.queue")
       ELSE Goto(p, "claim.open") /\ UNCHANGED ctl

Dispatchable ==
    /\ ~RunIs(TerminalRun)
    /\ ctl.lease = "none" => RunIs({"running"}) /\ AttemptIs({"queued"})

(* Mutant: a lease left by an earlier poll is offered as a fresh claim.    *)
ResumedAsFresh(p) == FALSE

(* An existing lease is resumed; the remote caller never launches from it, *)
(* a local one does when the lease was not yet claimed.                    *)
ResumedClaim(p) == proc[p].op = "execute" \/ ctl.lease # "leased"

(* poll: resume the lease of this grant or open one.  A second opener      *)
(* finds the fixed event ids taken and is refused.                         *)
Poll(p) ==
    /\ At(p, "claim.open")
    /\ IF proc[p].op = "execute" /\ ~(Dispatchable /\ ScopeLive) THEN Refuse(p)
       ELSE IF ctl.revoked \/ ctl.lease \in {"completed", "failed"} \/ ctl.lapsed THEN Refuse(p)
       ELSE IF ctl.lease = "none" /\ CancelRequested THEN Refuse(p)
       ELSE /\ ctl' = IF ctl.lease = "none" THEN [ctl EXCEPT !.lease = "leased"] ELSE ctl
            /\ proc' = [proc EXCEPT ![p].pc = "claim.claim",
                                    ![p].fresh = ctl.lease = "none" \/ ~ResumedClaim(p)]

PollClaim(p) ==
    /\ At(p, "claim.claim")
    /\ ctl' = IF ctl.lease = "leased" THEN [ctl EXCEPT !.lease = "claimed"] ELSE ctl
    /\ Goto(p, "claim.consume")

(* The claim is usable when it is fresh and nobody asked to cancel.        *)
PollConsume(p) ==
    /\ At(p, "claim.consume")
    /\ LET c == IF ctl.lease = "claimed" THEN [ctl EXCEPT !.lease = "consumed"] ELSE ctl IN
       IF proc[p].fresh /\ ~CancelRequested
       THEN /\ ctl' = Unlocked(p, c)
            /\ \/ proc' = [proc EXCEPT ![p].pc = proc[p].ok, ![p].claimed = TRUE]
               \/ proc[p].lossy /\ Goto(p, proc[p].lost)
       ELSE ctl' = Unlocked(p, c) /\ Goto(p, proc[p].no)

-----------------------------------------------------------------------------
(* record_native_start                                                     *)

StartBound ==
    /\ ctl.lease = "consumed" /\ MissingRows("remote") = {}
    /\ RunIs({"running"}) /\ AttemptIs({"queued", "running"})

Start(p) == Enter(p, "start", ScopeLive /\ StartBound, "start.journal")

(* _journal: the first start document is the only one ever accepted.       *)
StartJournal(p) ==
    /\ At(p, "start.journal")
    /\ IF ctl.journal = proc[p].doc.start \/ (ctl.journal = NoProc /\ AttemptIs({"queued"}))
       THEN ctl' = [ctl EXCEPT !.journal = proc[p].doc.start] /\ Goto(p, "start.fact")
       ELSE Refuse(p)

StartFact(p) ==
    /\ At(p, "start.fact")
    /\ IF ScopeLive /\ RunIs({"running"}) /\ AttemptIs({"queued", "running"})
       THEN Step(p, "remote", "attempt.started", "start.check")
       ELSE Refuse(p)

StartCheck(p) ==
    /\ At(p, "start.check")
    /\ IF ScopeLive /\ RunIs({"running"}) /\ AttemptIs({"running"})
       THEN Reply(p, ctl, "start") ELSE Refuse(p)

-----------------------------------------------------------------------------
(* complete_native_output: verified bytes first, then the completion, or   *)
(* the receipt of the completion already recorded.                         *)

OutputLive == ResultLive /\ ~CancelRequested /\ ctl.lease = "consumed"
Replays(p) == ctl.lease = "completed" /\ ctl.artifact = proc[p].doc.start

Output(p) == Enter(p, "output", OutputLive \/ Replays(p), "output.put")

OutputPut(p) ==
    /\ At(p, "output.put")
    /\ ctl' = [ctl EXCEPT !.cas = @ \cup {proc[p].doc.start}]
    /\ Goto(p, "output.complete")

(* The append cites the head its authorization was decided at.             *)
OutputComplete(p) ==
    /\ At(p, "output.complete")
    /\ IF Replays(p) THEN Reply(p, ctl, "output")
       ELSE IF OutputLive
       THEN Reply(p, [ctl EXCEPT !.lease = "completed", !.artifact = proc[p].doc.start], "output")
       ELSE Refuse(p)

-----------------------------------------------------------------------------
(* reconcile_native_outcome, for the document [start, obs, out].           *)

OutcomeBound(p) ==
    /\ ctl.lease \in ConsumedLease /\ ctl.journal = proc[p].doc.start
    /\ MissingRows("remote") = {} /\ Recorded("remote", "attempt.started")

Outcome(p) ==
    Enter(p, "outcome", OutcomeBound(p),
          IF proc[p].doc.out = "unknown" THEN "outcome.unknown" ELSE "outcome.journal")

(* A revoked grant first becomes a cancellation request of the Run.        *)
RequestForRevocation(p) == Step(p, "remote", "run.cancel.requested", proc[p].pc)

OutcomeUnknown(p) ==
    /\ At(p, "outcome.unknown")
    /\ IF ~RunIs({"running", "unknown"}) THEN Refuse(p)
       ELSE IF ctl.revoked /\ ~CancelRequested THEN RequestForRevocation(p)
       ELSE IF proc[p].doc.obs = "running" THEN Reply(p, ctl, "outcome")
       ELSE IF CanAppend("remote", "attempt.unknown")
       THEN Reply(p, Appended("remote", "attempt.unknown"), "outcome")
       ELSE Refuse(p)

OutcomeJournal(p) ==
    /\ At(p, "outcome.journal")
    /\ IF (proc[p].doc.out = "completed" => ctl.lease = "completed")
          /\ (proc[p].doc \in ctl.outcomes \/ RunIs({"running", "unknown"}))
       THEN ctl' = [ctl EXCEPT !.outcomes = @ \cup {proc[p].doc}] /\ Goto(p, "outcome.settle")
       ELSE Refuse(p)

SettleCompleted == ctl.lease = "completed" /\ ctl.artifact \in ctl.cas

(* The lease decides: completion is a fact, failure needs live authority   *)
(* and no cancellation, cancellation needs a request.                      *)
OutcomeSettle(p) ==
    /\ At(p, "outcome.settle")
    /\ CASE proc[p].doc.out = "completed" ->
               IF SettleCompleted THEN Goto(p, "outcome.attempt") /\ UNCHANGED ctl ELSE Refuse(p)
         [] proc[p].doc.out = "failed" ->
               IF ctl.lease = "failed"
               THEN IF ctl.reason = "native-task-failed"
                    THEN Goto(p, "outcome.attempt") /\ UNCHANGED ctl ELSE Refuse(p)
               ELSE IF CancelRequested \/ ~ResultLive THEN Refuse(p)
               ELSE Goto(p, "outcome.fail") /\ UNCHANGED ctl
         [] proc[p].doc.out = "cancelled" ->
               IF ctl.revoked /\ ~CancelRequested THEN RequestForRevocation(p)
               ELSE Goto(p, "outcome.cancel") /\ UNCHANGED ctl

(* WorkerPlane.fail *)
OutcomeFail(p) ==
    /\ At(p, "outcome.fail")
    /\ IF ResultLive
       THEN ctl' = [ctl EXCEPT !.lease = "failed", !.reason = "native-task-failed"]
            /\ Goto(p, "outcome.attempt")
       ELSE Refuse(p)

(* fail_observed_cancellation: expiry and revocation do not prevent it.    *)
CanSettleCancelled ==
    /\ CancelRequested /\ ctl.lease \in ConsumedLease
    /\ ctl.lease = "consumed" \/ (ctl.lease = "failed" /\ ctl.reason = "cancel-observed")

SettledCancelled == [ctl EXCEPT !.lease = "failed", !.reason = "cancel-observed"]

OutcomeCancel(p) ==
    /\ At(p, "outcome.cancel")
    /\ IF CanSettleCancelled THEN ctl' = SettledCancelled /\ Goto(p, "outcome.attempt") ELSE Refuse(p)

FinalTypes(out) ==
    CASE out = "completed" -> <<"attempt.succeeded", "run.completed">>
      [] out = "failed" -> <<"attempt.failed", "run.failed">>
      [] out = "cancelled" -> <<"attempt.cancelled", "run.cancelled">>

OutcomeAttempt(p) ==
    /\ At(p, "outcome.attempt")
    /\ Step(p, "remote", FinalTypes(proc[p].doc.out)[1], "outcome.run")

OutcomeRun(p) ==
    /\ At(p, "outcome.run")
    /\ IF CanAppend("remote", FinalTypes(proc[p].doc.out)[2])
       THEN Reply(p, Appended("remote", FinalTypes(proc[p].doc.out)[2]), "outcome")
       ELSE Refuse(p)

Handler(p) ==
    \/ Claim(p) \/ ClaimQueue(p) \/ Poll(p) \/ PollClaim(p) \/ PollConsume(p)
    \/ Start(p) \/ StartJournal(p) \/ StartFact(p) \/ StartCheck(p)
    \/ Output(p) \/ OutputPut(p) \/ OutputComplete(p)
    \/ Outcome(p) \/ OutcomeUnknown(p) \/ OutcomeJournal(p) \/ OutcomeSettle(p)
    \/ OutcomeFail(p) \/ OutcomeCancel(p) \/ OutcomeAttempt(p) \/ OutcomeRun(p)

(* The controller stops inside a handler: the lock is freed with it.       *)
ControllerStops(p) ==
    /\ ctl.lock = p
    /\ ctl' = Unlocked(p, ctl) /\ Goto(p, proc[p].lost)

-----------------------------------------------------------------------------
(* Operators and the clock.                                                *)

RequestCancel(type) ==
    /\ ctl.run # None /\ NextRun(type) # Rejected
    /\ ctl' = [ctl EXCEPT !.run = NextRun(type)]
    /\ UNCHANGED proc

Revoke ==
    /\ ~ctl.revoked /\ ctl' = [ctl EXCEPT !.revoked = TRUE] /\ UNCHANGED proc

Lapse ==
    /\ ~ctl.lapsed /\ ctl.lease \in OpenLease /\ ctl' = [ctl EXCEPT !.lapsed = TRUE] /\ UNCHANGED proc
=============================================================================
