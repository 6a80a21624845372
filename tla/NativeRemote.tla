---------------------------- MODULE NativeRemote ----------------------------
(***************************************************************************)
(* The compute host's side of remote native work: execute_remote_native,   *)
(* its heartbeat monitor, reconcile_remote_native and _publish             *)
(* (workers/native_executor.py), and the Ray driver that starts it         *)
(* (workers/ray_native_job.py).                                            *)
(*                                                                         *)
(* The executor leaves private files in its state root in this order:      *)
(* intent, claim, identity, start, result, outcome, cancelled.  A file     *)
(* holds the process that wrote it (the process whose child it identifies) *)
(* or the outcome document.  A child blocks on its pipe until the frame is *)
(* written and leaves without user code when the pipe closes first.        *)
(***************************************************************************)
EXTENDS NativeTransfer

VARIABLE child   \* [process -> the child it spawned]

NoChild == [state |-> "none", code |-> 0, loaded |-> None, released |-> FALSE]
Alive == {"blocked", "user", "lingering"}

Document(start, obs, out) == [start |-> start, obs |-> obs, out |-> out]

Write(p, file, value) == host' = [host EXCEPT ![proc[p].root][file] = value]

(* Leave under any exit: the private state lock goes with the process.     *)
Leave(p) ==
    /\ At(p, "leave")
    /\ host' = [host EXCEPT ![proc[p].root].lock = NoProc]
    /\ Goto(p, "done")
    /\ UNCHANGED <<ctl, child>>

-----------------------------------------------------------------------------
(* execute_remote_native                                                   *)

Begin(p) ==
    /\ At(p, "begin") /\ proc[p].op = "execute"
    /\ IF ScopeLive /\ H(p).lock = NoProc /\ H(p).intent = NoProc
       THEN /\ Write(p, "lock", p)
            /\ proc' = [proc EXCEPT ![p].pc = "prepare", ![p].ok = "intent", ![p].no = "leave", ![p].lost = "leave"]
       ELSE Goto(p, "refused") /\ UNCHANGED host
    /\ UNCHANGED <<ctl, child>>

WriteIntent(p) ==
    /\ At(p, "intent")
    /\ Write(p, "intent", p)
    /\ Call(p, "claim", "claimed", "leave", "leave")
    /\ UNCHANGED <<ctl, child>>

(* The claim is written, then host, material and authority are checked a   *)
(* second time.                                                            *)
WriteClaim(p) ==
    /\ At(p, "claimed")
    /\ Write(p, "claim", p)
    /\ Call(p, "prepare", "spawn", "leave", "leave")
    /\ UNCHANGED <<ctl, child>>

Spawn(p) ==
    /\ At(p, "spawn")
    /\ child' = [child EXCEPT ![p].state = "blocked"]
    /\ Goto(p, "identity")
    /\ UNCHANGED <<ctl, host>>

(* No start token, or a file that cannot be written, aborts the launch.    *)
WriteIdentity(p) ==
    /\ At(p, "identity")
    /\ \/ Write(p, "identity", p) /\ Goto(p, "start.write")
       \/ proc[p].lossy /\ Goto(p, "abort") /\ UNCHANGED host
    /\ UNCHANGED <<ctl, child>>

WriteStart(p) ==
    /\ At(p, "start.write")
    /\ \/ /\ Write(p, "start", p)
          /\ proc' = [proc EXCEPT ![p].doc = Document(p, "unknown", "unknown"),
                      ![p].pc = "start", ![p].ok = "barrier", ![p].no = "abort", ![p].lost = "abort"]
       \/ proc[p].lossy /\ Goto(p, "abort") /\ UNCHANGED host
    /\ UNCHANGED <<ctl, child>>

(* The barrier: the workspace is as it was prepared, then a heartbeat, then *)
(* the request is still authorized; only then the frame is written.         *)
Barrier(p) ==
    /\ At(p, "barrier")
    /\ proc' = [proc EXCEPT ![p].pc = IF ~Ready(H(p).workspace) \/ CancelRequested THEN "abort" ELSE "fetch",
                            ![p].cancelSeen = Ready(H(p).workspace) /\ CancelRequested]
    /\ UNCHANGED <<ctl, host, child>>

BarrierFetch(p) ==
    /\ At(p, "fetch")
    /\ \/ ScopeLive /\ Goto(p, "release")
       \/ ~ScopeLive /\ proc' = [proc EXCEPT ![p].pc = "abort", ![p].authorityLost = TRUE]
       \/ proc[p].lossy /\ Goto(p, "abort")
    /\ UNCHANGED <<ctl, host, child>>

(* Mutant: the child imports what it finds in the workspace.               *)
LoadedUnverified(c, w) ==
    [c EXCEPT !.state = "user", !.released = TRUE, !.loaded = w.files]

(* native_reviewed_child: every byte of the frame's manifest is verified   *)
(* before the entry point is imported.                                     *)
Loaded(c, w) ==
    IF w.files = AllGood
    THEN [c EXCEPT !.state = "user", !.released = TRUE, !.loaded = w.files]
    ELSE [c EXCEPT !.state = "exited", !.code = 70]

Release(p) ==
    /\ At(p, "release")
    /\ child' = [child EXCEPT ![p] = Loaded(child[p], H(p).workspace)]
    /\ Goto(p, "collect")
    /\ UNCHANGED <<ctl, host>>

(* _Monitor.check, while the output is collected.                          *)
Monitor(p) ==
    /\ At(p, "collect") /\ ~proc[p].cancelSeen /\ ~proc[p].authorityLost
    /\ \/ CancelRequested /\ proc' = [proc EXCEPT ![p].cancelSeen = TRUE]
       \/ ~CancelRequested /\ ~ScopeLive /\ proc' = [proc EXCEPT ![p].authorityLost = TRUE]
    /\ UNCHANGED <<ctl, host, child>>

(* Collection ends with the child, or is given up (a stop request, the     *)
(* wall clock, a bound on the output).                                     *)
Phase(p, obs) ==
    CASE obs # "exited" -> "unknown"
      [] obs = "exited" /\ proc[p].cancelSeen -> "cancelled"
      [] obs = "exited" /\ ~proc[p].cancelSeen /\ proc[p].authorityLost -> "unknown"
      [] obs = "exited" /\ ~proc[p].cancelSeen /\ ~proc[p].authorityLost ->
            IF child[p].code # 0 THEN "failed" ELSE "completed"

(* Mutant: the leader's exit is taken for the group's.                     *)
ObservedLeader(c) == IF c.state \in {"blocked", "user"} THEN "running" ELSE "exited"

(* observe_process_group: exited only when no member is left; a probe that *)
(* cannot be read says unknown.                                            *)
Observed(c) == IF c.state \in Alive THEN "running" ELSE "exited"

Collect(p) ==
    /\ At(p, "collect")
    /\ \/ /\ child[p].state \in {"lingering", "exited"}
          /\ \E obs \in {Observed(child[p])} \cup (IF proc[p].lossy THEN {"unknown"} ELSE {}) :
             proc' = [proc EXCEPT ![p].doc = Document(p, obs, Phase(p, obs)), ![p].pc = "result"]
       \/ (proc[p].cancelSeen \/ proc[p].authorityLost \/ proc[p].lossy) /\ Goto(p, "abort")
    /\ UNCHANGED <<ctl, host, child>>

(* observe_and_stop either sees the group gone or knows nothing; a blocked *)
(* child leaves in any case when its pipe closes.                          *)
Stopped(c, seen) ==
    IF c.state # "none" /\ (seen \/ c.state = "blocked") THEN [c EXCEPT !.state = "exited"] ELSE c

(* The exception path: close the pipe, stop, and report only what was seen. *)
Abort(p) ==
    /\ At(p, "abort")
    /\ \E seen \in BOOLEAN :
          /\ child' = [child EXCEPT ![p] = Stopped(child[p], seen)]
          /\ proc' = [proc EXCEPT
                 ![p].doc = Document(p, IF seen THEN "exited" ELSE "unknown",
                                     IF seen /\ proc[p].cancelSeen THEN "cancelled" ELSE "unknown"),
                 ![p].pc = IF H(p).start = p THEN "result" ELSE "leave"]
    /\ UNCHANGED <<ctl, host>>

(* A completed output is stored with its record, unless it is too large.   *)
WriteResult(p) ==
    /\ At(p, "result")
    /\ IF proc[p].doc.out = "completed"
       THEN \/ Write(p, "result", p) /\ Goto(p, "outcome.write")
            \/ /\ proc[p].lossy /\ UNCHANGED host
               /\ proc' = [proc EXCEPT ![p].pc = "outcome.write", ![p].doc.out = "failed"]
       ELSE Goto(p, "outcome.write") /\ UNCHANGED host
    /\ UNCHANGED <<ctl, child>>

WriteOutcome(p) ==
    /\ At(p, "outcome.write")
    /\ Write(p, "outcome", proc[p].doc)
    /\ Goto(p, "publish")
    /\ UNCHANGED <<ctl, child>>

-----------------------------------------------------------------------------
(* _publish                                                                *)

AsCancelled(d) == [d EXCEPT !.out = "cancelled"]

(* An exit nobody explains is first offered as a cancellation, which only  *)
(* the controller's own request can confirm; a completion uploads first.   *)
PublishOutcome(p) ==
    LET d == proc[p].doc IN
    /\ At(p, "publish")
    /\ CASE d.out = "unknown" /\ d.obs = "exited" ->
               proc' = [proc EXCEPT ![p].report = d, ![p].doc = AsCancelled(d), ![p].pc = "outcome",
                                    ![p].ok = "cancelled.write", ![p].no = "report", ![p].lost = "leave"]
         [] d.out = "completed" ->
               IF H(p).result # d.start THEN Goto(p, "leave")
               ELSE proc' = [proc EXCEPT ![p].report = d, ![p].pc = "output",
                                         ![p].ok = "report", ![p].no = "output.no", ![p].lost = "leave"]
         [] ~(d.out = "unknown" /\ d.obs = "exited") /\ d.out # "completed" ->
               proc' = [proc EXCEPT ![p].report = d, ![p].pc = "report"]
    /\ UNCHANGED <<ctl, host, child>>

OutputRefused(p) ==
    /\ At(p, "output.no")
    /\ proc' = [proc EXCEPT ![p].doc = AsCancelled(proc[p].doc), ![p].pc = "outcome",
                            ![p].ok = "cancelled.write", ![p].no = "leave", ![p].lost = "leave"]
    /\ UNCHANGED <<ctl, host, child>>

Report(p) ==
    /\ At(p, "report")
    /\ proc' = [proc EXCEPT ![p].doc = proc[p].report, ![p].pc = "outcome",
                            ![p].ok = "leave", ![p].no = "leave", ![p].lost = "leave"]
    /\ UNCHANGED <<ctl, host, child>>

WriteCancelled(p) ==
    /\ At(p, "cancelled.write")
    /\ host' = [host EXCEPT ![proc[p].root].cancelled = IF @ = None THEN proc[p].doc ELSE @]
    /\ Goto(p, proc[p].then)
    /\ UNCHANGED <<ctl, child>>

-----------------------------------------------------------------------------
(* reconcile_remote_native: observe and replay, never launch.              *)

Reconcile(p) ==
    /\ At(p, "begin") /\ proc[p].op = "reconcile"
    /\ IF H(p).lock = NoProc /\ H(p).intent # NoProc
       THEN /\ Write(p, "lock", p)
            /\ Goto(p, IF H(p).start = NoProc \/ H(p).identity = NoProc THEN "leave" ELSE "observe")
       ELSE Goto(p, "refused") /\ UNCHANGED host
    /\ UNCHANGED <<ctl, child>>

(* A live process is stopped only on the controller's cancellation.        *)
ReconcileObserve(p) ==
    LET q == H(p).identity IN
    /\ At(p, "observe")
    /\ IF Observed(child[q]) = "running" /\ CancelRequested
       THEN \E seen \in BOOLEAN :
               /\ child' = [child EXCEPT ![q] = Stopped(child[q], seen)]
               /\ proc' = IF seen
                          THEN [proc EXCEPT ![p].pc = "cancelled.write", ![p].then = "publish",
                                            ![p].doc = Document(q, "exited", "cancelled")]
                          ELSE [proc EXCEPT ![p].pc = "replay", ![p].doc = Document(q, "unknown", "unknown")]
       ELSE /\ proc' = [proc EXCEPT ![p].pc = "replay", ![p].doc = Document(q, Observed(child[q]), "unknown")]
            /\ UNCHANGED child
    /\ UNCHANGED <<ctl, host>>

(* The document kept from before is replayed once the group is gone; an    *)
(* unknown one is reported again with the new observation.                 *)
Replay(p) ==
    LET d == proc[p].doc
        kept == IF H(p).cancelled # None THEN H(p).cancelled ELSE H(p).outcome IN
    /\ At(p, "replay")
    /\ IF kept # None /\ kept.out # "unknown"
       THEN IF d.obs = "exited" THEN proc' = [proc EXCEPT ![p].pc = "publish", ![p].doc = kept, ![p].then = "leave"]
            ELSE Goto(p, "leave")
       ELSE proc' = [proc EXCEPT ![p].pc = "publish", ![p].then = "leave"]
    /\ UNCHANGED <<ctl, host, child>>

-----------------------------------------------------------------------------
(* RayNativeJob                                                            *)

(* submit_once: the intent precedes the only POST, whose answer may be     *)
(* lost; with an intent in place the job is only observed.                 *)
SubmitOnce(p) ==
    /\ At(p, "begin") /\ proc[p].op = "ray"
    /\ IF H(p).ray = "none"
       THEN Write(p, "ray", "intent") /\ Goto(p, "post")
       ELSE Goto(p, "done") /\ UNCHANGED host
    /\ UNCHANGED <<ctl, child>>

Post(p) ==
    /\ At(p, "post")
    /\ \/ Write(p, "ray", "submitted")
       \/ proc[p].lossy /\ UNCHANGED host
    /\ Goto(p, "done")
    /\ UNCHANGED <<ctl, child>>

(* The backend starts the driver of a submitted job.                       *)
RunDriver(p) ==
    /\ At(p, "begin") /\ proc[p].op = "driver"
    /\ H(p).ray = "submitted"
    /\ host' = [host EXCEPT ![proc[p].root].ray = "driven"]
    /\ proc' = [proc EXCEPT ![p].op = "execute"]
    /\ UNCHANGED <<ctl, child>>

RemoteStep(p) ==
    \/ Begin(p) \/ WriteIntent(p) \/ WriteClaim(p) \/ Spawn(p) \/ WriteIdentity(p) \/ WriteStart(p)
    \/ Barrier(p) \/ BarrierFetch(p) \/ Release(p) \/ Monitor(p) \/ Collect(p) \/ Abort(p)
    \/ WriteResult(p) \/ WriteOutcome(p) \/ PublishOutcome(p) \/ OutputRefused(p) \/ Report(p)
    \/ WriteCancelled(p) \/ Reconcile(p) \/ ReconcileObserve(p) \/ Replay(p)
    \/ SubmitOnce(p) \/ Post(p) \/ RunDriver(p) \/ Leave(p)

-----------------------------------------------------------------------------
(* The child                                                               *)

(* User code ends; a descendant of it may outlive the leader.              *)
UserEnds(p) ==
    /\ child[p].state = "user"
    /\ \E s \in {"lingering", "exited"}, c \in {0, 1} :
           child' = [child EXCEPT ![p].state = s, ![p].code = c]
    /\ UNCHANGED <<ctl, proc, host>>

LingeringEnds(p) ==
    /\ child[p].state = "lingering"
    /\ child' = [child EXCEPT ![p].state = "exited"]
    /\ UNCHANGED <<ctl, proc, host>>

(* A process stops wherever it is: its locks go, its pipe closes.          *)
Crash(p) ==
    /\ proc[p].pc \notin {"begin", "write", "carry", "done", "refused", "dead"}
    /\ Goto(p, "dead")
    /\ host' = [host EXCEPT ![proc[p].root].lock = IF @ = p THEN NoProc ELSE @,
                            ![proc[p].root].prepare = IF @ = p THEN NoProc ELSE @]
    /\ child' = [child EXCEPT ![p].state = IF @ = "blocked" THEN "exited" ELSE @]
    /\ ctl' = IF ctl.lock = p THEN Unlocked(p, ctl) ELSE ctl
=============================================================================
