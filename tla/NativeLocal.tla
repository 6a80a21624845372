----------------------------- MODULE NativeLocal -----------------------------
(***************************************************************************)
(* Reviewed native work on the controller's own host:                      *)
(* execute_reviewed_native (execution/native_reviewed_runtime.py) and      *)
(* reconcile_reviewed_native (execution/native_reviewed_recovery.py).  No  *)
(* lock keeps an executor and a reconciler apart; only the event ids, the  *)
(* O_EXCL intent and the grant do.                                         *)
(***************************************************************************)
EXTENDS NativeRemote

LocalGo(p, pc) == Goto(p, pc) /\ UNCHANGED <<ctl, host, child>>

(* _lifecycle: an id already taken is an error here, not a success.        *)
Lifecycle(p, type, next, failed) ==
    /\ IF ~Recorded("local", type) /\ NextRun(type) # Rejected
       THEN ctl' = Appended("local", type) /\ Goto(p, next)
       ELSE Goto(p, failed) /\ UNCHANGED ctl
    /\ UNCHANGED <<host, child>>

(* _append_once *)
AppendOnce(p, type, next) ==
    /\ IF CanAppend("local", type)
       THEN ctl' = Appended("local", type) /\ Goto(p, next)
       ELSE Goto(p, proc[p].no) /\ UNCHANGED ctl
    /\ UNCHANGED <<host, child>>

-----------------------------------------------------------------------------
(* execute_reviewed_native                                                 *)

(* check_before_user_code *)
BeforeUserCode(p) == Verify(H(p).differs) /\ Ready(H(p).workspace)

(* A Run that exists already refuses as well.                              *)
LocalCheck(p) ==
    /\ At(p, "begin") /\ proc[p].op = "local"
    /\ LocalGo(p, IF BeforeUserCode(p) /\ ctl.run = None
                  THEN "local.intent" ELSE "refused")

(* _write_intent, with O_EXCL *)
LocalIntent(p) ==
    /\ At(p, "local.intent")
    /\ IF H(p).intent = NoProc
       THEN Write(p, "intent", p) /\ Goto(p, "local.queue")
       ELSE Goto(p, "refused") /\ UNCHANGED host
    /\ UNCHANGED <<ctl, child>>

LocalQueue(p) ==
    /\ At(p, "local.queue")
    /\ IF proc[p].row <= Len(QueueRows)
       THEN LET t == QueueRows[proc[p].row] IN
            /\ IF ~Recorded("local", t) /\ NextRun(t) # Rejected
               THEN ctl' = Appended("local", t) /\ proc' = [proc EXCEPT ![p].row = @ + 1]
               ELSE Goto(p, "local.except") /\ UNCHANGED ctl
            /\ UNCHANGED <<host, child>>
       ELSE /\ Call(p, "claim.open", "local.started", "local.except", "local.except")
            /\ UNCHANGED <<ctl, host, child>>

LocalStarted(p) ==
    /\ At(p, "local.started")
    /\ IF ~Recorded("local", "attempt.started") /\ NextRun("attempt.started") # Rejected
       THEN /\ ctl' = Appended("local", "attempt.started")
            /\ proc' = [proc EXCEPT ![p].pc = "local.spawn", ![p].started = TRUE]
       ELSE Goto(p, "local.except") /\ UNCHANGED ctl
    /\ UNCHANGED <<host, child>>

LocalSpawn(p) ==
    /\ At(p, "local.spawn")
    /\ child' = [child EXCEPT ![p].state = "blocked"]
    /\ Goto(p, "local.identity")
    /\ UNCHANGED <<ctl, host>>

(* The identity is synced before the frame is written; the interpreter of  *)
(* the child may be the wrong one.                                         *)
LocalIdentity(p) ==
    /\ At(p, "local.identity")
    /\ Write(p, "identity", p)
    /\ Goto(p, "local.release") \/ (proc[p].lossy /\ Goto(p, "local.except"))
    /\ UNCHANGED <<ctl, child>>

(* Writing to a child that a reconciler stopped fails.                     *)
LocalRelease(p) ==
    /\ At(p, "local.release")
    /\ IF child[p].state = "blocked"
       THEN child' = [child EXCEPT ![p] = Loaded(child[p], H(p).workspace)] /\ Goto(p, "local.collect")
       ELSE Goto(p, "local.except") /\ UNCHANGED child
    /\ UNCHANGED <<ctl, host>>

LocalCollect(p) ==
    /\ At(p, "local.collect")
    /\ \/ child[p].state \in {"lingering", "exited"}
          /\ LocalGo(p, IF Observed(child[p]) = "exited" THEN "local.settle" ELSE "local.except")
       \/ proc[p].lossy /\ LocalGo(p, "local.except")

(* A cancellation goes to the reconciler; otherwise the exit code settles  *)
(* the lease, under a live grant.                                          *)
LocalSettle(p) ==
    /\ At(p, "local.settle")
    /\ \/ /\ CancelRequested /\ UNCHANGED ctl
          /\ proc' = [proc EXCEPT ![p].pc = "lr", ![p].ok = "local.except", ![p].no = "local.except"]
       \/ /\ ~CancelRequested /\ (~ResultLive \/ (child[p].code = 0 /\ proc[p].lossy))
          /\ Goto(p, "local.except") /\ UNCHANGED ctl
       \/ /\ ~CancelRequested /\ ResultLive /\ child[p].code # 0
          /\ ctl' = [ctl EXCEPT !.lease = "failed", !.reason = "native-task-failed"]
          /\ proc' = [proc EXCEPT ![p].pc = "local.attempt", ![p].doc = Document(p, "exited", "failed")]
       \/ /\ ~CancelRequested /\ ResultLive /\ child[p].code = 0
          /\ ctl' = [ctl EXCEPT !.lease = "completed", !.artifact = p, !.cas = @ \cup {p}]
          /\ proc' = [proc EXCEPT ![p].pc = "local.attempt", ![p].doc = Document(p, "exited", "completed")]
    /\ UNCHANGED <<host, child>>

LocalAttempt(p) ==
    At(p, "local.attempt") /\ Lifecycle(p, FinalTypes(proc[p].doc.out)[1], "local.run", "local.except")

LocalRun(p) ==
    At(p, "local.run") /\ Lifecycle(p, FinalTypes(proc[p].doc.out)[2], "done", "local.except")

(* The exception path: kill the group, and with a consumed grant leave the *)
(* attempt started and unknown.                                            *)
LocalExcept(p) ==
    /\ At(p, "local.except")
    /\ child' = [child EXCEPT ![p] = Stopped(child[p], TRUE)]
    /\ Goto(p, IF ~(proc[p].claimed \/ ctl.lease \in ConsumedLease) \/ ctl.run = None THEN "done"
               ELSE IF proc[p].started THEN "local.unknown" ELSE "local.late")
    /\ UNCHANGED <<ctl, host>>

LocalLate(p) == At(p, "local.late") /\ Lifecycle(p, "attempt.started", "local.unknown", "done")

LocalUnknown(p) ==
    /\ At(p, "local.unknown")
    /\ IF RunIs({"running"}) THEN Lifecycle(p, "attempt.unknown", "done", "done") ELSE LocalGo(p, "done")

-----------------------------------------------------------------------------
(* reconcile_reviewed_native                                               *)

LocalReconcile(p) ==
    /\ At(p, "begin") /\ proc[p].op = "localreconcile"
    /\ proc' = [proc EXCEPT ![p].pc = IF H(p).intent = NoProc THEN "refused" ELSE "lr",
                            ![p].ok = "done", ![p].no = "done"]
    /\ UNCHANGED <<ctl, host, child>>

(* What the reconciler saw: the Run, the grant and the lease of one fold,  *)
(* and the process group its recorded identity names.                      *)
Seen(p) ==
    [status |-> ctl.run.status, runCancel |-> ctl.run.cancelRequested, requested |-> CancelRequested,
     revoked |-> ctl.revoked, lease |-> ctl.lease, reason |-> ctl.reason,
     attempt |-> Latest(ctl.run).status,
     obs |-> IF H(p).identity = NoProc THEN "unknown" ELSE Observed(child[H(p).identity])]

LocalObserve(p) ==
    /\ At(p, "lr")
    /\ IF ctl.run = None \/ ctl.lease \notin ConsumedLease \/ RunIs(TerminalRun) \/ ctl.run.attempts = <<>>
       THEN Goto(p, proc[p].ok)
       ELSE proc' = [proc EXCEPT ![p].pc = "lr.cancel", ![p].seen = Seen(p)]
    /\ UNCHANGED <<ctl, host, child>>

(* Revocation, or the cancellation of the attempt alone, becomes a         *)
(* cancellation request of the Run.                                        *)
LocalCancel(p) ==
    LET s == proc[p].seen
        revoking == s.revoked /\ ~s.requested /\ s.status \in {"running", "unknown"} IN
    /\ At(p, "lr.cancel")
    /\ IF revoking \/ (s.requested /\ ~s.runCancel)
       THEN /\ IF CanAppend("local", "run.cancel.requested")
               THEN /\ ctl' = Appended("local", "run.cancel.requested")
                    /\ proc' = [proc EXCEPT ![p].pc = "lr.stop", ![p].seen.requested = TRUE]
               ELSE Goto(p, proc[p].no) /\ UNCHANGED ctl
            /\ UNCHANGED <<host, child>>
       ELSE LocalGo(p, "lr.stop")

(* Requested and unsettled: stop what runs.                                *)
LocalStop(p) ==
    LET s == proc[p].seen IN
    /\ At(p, "lr.stop")
    /\ IF s.requested /\ s.lease \in OpenLease /\ s.obs = "running"
       THEN \E seen \in BOOLEAN :
               /\ child' = [child EXCEPT ![H(p).identity] = Stopped(child[H(p).identity], seen)]
               /\ proc' = [proc EXCEPT ![p].pc = "lr.fail", ![p].seen.obs = IF seen THEN "exited" ELSE "unknown"]
       ELSE Goto(p, "lr.fail") /\ UNCHANGED child
    /\ UNCHANGED <<ctl, host>>

(* An observed exit settles the lease as cancelled.                        *)
LocalFail(p) ==
    LET s == proc[p].seen IN
    /\ At(p, "lr.fail")
    /\ IF s.requested /\ s.lease \in OpenLease /\ s.obs = "exited"
       THEN IF CanSettleCancelled
            THEN /\ ctl' = SettledCancelled
                 /\ proc' = [proc EXCEPT ![p].pc = "lr.settle", ![p].seen.lease = "failed",
                                         ![p].seen.reason = "cancel-observed"]
            ELSE Goto(p, proc[p].no) /\ UNCHANGED ctl
       ELSE Goto(p, "lr.settle") /\ UNCHANGED ctl
    /\ UNCHANGED <<host, child>>

(* A settled lease and an exit give the outcome; a live process is left    *)
(* alone; anything else is unknown.                                        *)
LocalOutcome(s) ==
    CASE s.lease = "completed" /\ s.obs = "exited" -> "completed"
      [] s.lease = "failed" /\ s.obs = "exited" /\ s.reason = "cancel-observed" /\ s.requested -> "cancelled"
      [] s.lease = "failed" /\ s.obs = "exited" /\ s.reason = "native-task-failed" -> "failed"
      [] OTHER -> "unknown"

LocalDecide(p) ==
    LET s == proc[p].seen IN
    /\ At(p, "lr.settle")
    /\ proc' = IF LocalOutcome(s) # "unknown"
               THEN [proc EXCEPT ![p].pc = "lr.attempt", ![p].doc = Document(p, "exited", LocalOutcome(s))]
               ELSE [proc EXCEPT ![p].pc =
                        IF (s.obs = "running" /\ ~s.requested) \/ s.attempt \notin {"queued", "running"}
                        THEN proc[p].ok
                        ELSE IF s.attempt = "queued" THEN "lr.started" ELSE "lr.unknown"]
    /\ UNCHANGED <<ctl, host, child>>

LocalReconcileFacts(p) ==
    \/ At(p, "lr.attempt") /\ AppendOnce(p, FinalTypes(proc[p].doc.out)[1], "lr.run")
    \/ At(p, "lr.run") /\ AppendOnce(p, FinalTypes(proc[p].doc.out)[2], proc[p].ok)
    \/ At(p, "lr.started") /\ AppendOnce(p, "attempt.started", "lr.unknown")
    \/ At(p, "lr.unknown") /\ AppendOnce(p, "attempt.unknown", proc[p].ok)

LocalStep(p) ==
    \/ LocalCheck(p) \/ LocalIntent(p) \/ LocalQueue(p) \/ LocalStarted(p) \/ LocalSpawn(p)
    \/ LocalIdentity(p) \/ LocalRelease(p) \/ LocalCollect(p) \/ LocalSettle(p) \/ LocalAttempt(p)
    \/ LocalRun(p) \/ LocalExcept(p) \/ LocalLate(p) \/ LocalUnknown(p)
    \/ LocalReconcile(p) \/ LocalObserve(p) \/ LocalCancel(p) \/ LocalStop(p) \/ LocalFail(p)
    \/ LocalDecide(p) \/ LocalReconcileFacts(p)
=============================================================================
