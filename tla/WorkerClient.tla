---------------------------- MODULE WorkerClient ----------------------------
(***************************************************************************)
(* Worker processes that run one lease: run_once from the poll to the      *)
(* completed fact, the executor they start, the two files they keep per    *)
(* lease (the execution identity and the pending completion), and the      *)
(* HTTP answers of the controller, any of which may be lost.  A process    *)
(* may die at any step and another of the same Worker may run beside it.   *)
(* The native run command starts and stops a process on the same terms,    *)
(* without a lease.                                                        *)
(***************************************************************************)
EXTENDS NativeProcess, TrainingOutput, Launch

CONSTANTS Clients,      \* processes of one Worker
          Retries,      \* attempts of one HTTP call
          Workloads

(* None is no exit code, no reason of a failure and no identity.           *)
ASSUME NoneAssumption ==
    /\ None \notin {"cancel-observed", "ok", "bad", "signal", "overflow"}
    /\ None \notin [kind : {"posix", "oci"}, token : BOOLEAN, cid : BOOLEAN]

(* A job is of a known runtime and differs from what was authorized only   *)
(* in facets there are.  Checkpoints are numbered, one has the highest     *)
(* number, and what training writes is of its own run.                     *)
ASSUME WorkloadsAssumption ==
    \A w \in Workloads :
        LET written == {w.job.writes[i] : i \in 1..Len(w.job.writes)}
            all     == w.leftovers \cup written
        IN /\ w.job.runtime \in {"python-sandbox", "oci-container", "gpu-oci", "macos-mps", "native-process"}
           /\ w.job.differs \subseteq
                 IF w.job.runtime = "native-process" THEN NativeFacets ELSE Facets(w.job.runtime)
           /\ w.job.token \in BOOLEAN /\ Len(w.job.writes) \in Nat
           /\ \A k \in all : k.index \in Nat
           /\ all # {} => \E top \in all : \A k \in all : k.index <= top.index
           /\ \A k \in written : k.by = "run"

VARIABLES job,    \* what the lease asks for, and how the user code behaves
          srv,    \* the controller: lease, grant, cancel request, CAS
          host,   \* the Worker's disk: identity, pending completion, image, output
          ex,     \* the executor
          cl,     \* the client processes
          env     \* what may still disturb the workload

vars == <<job, srv, host, ex, cl, env>>

IdleClient == [pc |-> "idle", tries |-> 0, cancel |-> FALSE, baseline |-> {}, id |-> None,
               result |-> None, reason |-> None]

Go(c, pc) == [cl[c] EXCEPT !.pc = pc, !.tries = Retries]
At(c, pc) == cl[c].pc = pc
Step(c, new) == cl' = [cl EXCEPT ![c] = new]
Raise(c) == Step(c, IdleClient)

Result(disposition, reason, report) == [disposition |-> disposition, reason |-> reason, report |-> report]
Unknown(reason) == Result("unknown", reason, None)
Failed(reason) == Result("failed", reason, None)
Succeeded(report) == Result("succeeded", "ok", report)

-----------------------------------------------------------------------------
(* The controller's handlers, each from a request to a state and an answer. *)
Answer(s, status) == [srv |-> s, status |-> status]

(* A poll opens and claims a lease, takes over one that was offered and    *)
(* not claimed, or tells its owner that it is already claimed.             *)
PollAt(s) ==
    CASE ~s.live \/ s.lease = "failed" -> Answer(s, "error")
      [] s.live /\ s.lease = "completed" -> Answer(s, "empty")
      [] s.live /\ s.lease = "none" -> IF s.cancel THEN Answer(s, "empty") ELSE Answer([s EXCEPT !.lease = "active"], "fresh")
      [] s.live /\ s.lease = "offered" -> Answer([s EXCEPT !.lease = "active"], "fresh")
      [] OTHER -> Answer(s, "resumed")

(* Completing again with the same digests is the same completion.          *)
CompleteAt(s, report, bytes) ==
    CASE s.lease = "completed" -> Answer(s, IF s.result = report /\ s.artifact = bytes THEN "ok" ELSE "error")
      [] s.lease = "active" /\ s.live /\ bytes \in s.cas ->
            Answer([s EXCEPT !.lease = "completed", !.result = report, !.artifact = bytes], "ok")
      [] OTHER -> Answer(s, "error")

FailAt(s, reason) ==
    CASE s.lease = "failed" -> Answer(s, IF s.reason = reason THEN "ok" ELSE "error")
      [] s.lease = "active" /\ s.live -> Answer([s EXCEPT !.lease = "failed", !.reason = reason], "ok")
      [] OTHER -> Answer(s, "error")

(* An upload needs a session, not a live grant.                            *)
PutAt(s, bytes) == Answer([s EXCEPT !.cas = @ \cup {bytes}], "ok")

(* An image is served to the owner of a live grant.                        *)
GetAt(s) == Answer(s, IF s.live THEN "ok" ELSE "error")

(* One HTTP call: the request or its answer may be lost, and a lost one is *)
(* sent again until the attempts are used up.  `then` is the client once   *)
(* it has the answer, `lost` once it gives up.                             *)
Exchange(c, answer, then, lost) ==
    \/ /\ srv' = answer.srv
       /\ Step(c, then)
       /\ UNCHANGED env
    \/ /\ env.drops > 0 /\ env' = [env EXCEPT !.drops = @ - 1]
       /\ srv' \in {srv, answer.srv}
       /\ Step(c, IF cl[c].tries > 1 THEN [cl[c] EXCEPT !.tries = @ - 1] ELSE lost)

-----------------------------------------------------------------------------
(* run_once: the output preflight, the poll, the image, the launch.        *)
Begin(c) ==
    /\ At(c, "idle") /\ job.runtime # "native-process"
    /\ Step(c, IF PreflightOK(job.runtime, job.dirs, job.differs) THEN Go(c, "poll") ELSE IdleClient)
    /\ UNCHANGED <<job, srv, host, ex, env>>

(* Mutant: a lease that was claimed before is executed like a new one.     *)
PolledAlike(c, status) == IF status \in {"fresh", "resumed"} THEN Go(c, "fetch") ELSE IdleClient

(* Only a lease this poll claimed is executed; a fresh claim that is       *)
(* already cancelled is left alone.                                        *)
Polled(c, status) ==
    CASE status = "fresh" -> IF srv.cancel THEN IdleClient ELSE Go(c, "fetch")
      [] status = "resumed" -> [Go(c, "resume") EXCEPT !.cancel = srv.cancel]
      [] OTHER -> IdleClient

Poll(c) ==
    /\ At(c, "poll")
    /\ LET answer == PollAt(srv) IN Exchange(c, answer, Polled(c, answer.status), IdleClient)
    /\ UNCHANGED <<job, host, ex>>

FetchImage(c) ==
    /\ At(c, "fetch")
    /\ \/ job.cached /\ Step(c, Go(c, "launch")) /\ UNCHANGED <<srv, env>>
       \/ ~job.cached /\ LET answer == GetAt(srv) IN
             Exchange(c, answer, IF answer.status = "ok" THEN Go(c, "launch") ELSE IdleClient, IdleClient)
    /\ UNCHANGED <<job, host, ex>>

Kind == IF job.runtime \in {"oci-container", "gpu-oci"} THEN "oci" ELSE "posix"
Outcome == LaunchOutcome(job.runtime, job.differs \cup (IF job.dirs THEN {} ELSE {"dirs"}))
With(c, result) == [Go(c, "settle") EXCEPT !.result = result]

Launch(c) ==
    /\ At(c, "launch")
    /\ \/ Outcome = "raised" /\ Raise(c) /\ UNCHANGED <<ex, env>>
       \/ Outcome = "failed" /\ Step(c, With(c, Failed("refused"))) /\ UNCHANGED <<ex, env>>
       \/ /\ Outcome = "started" /\ env.faults > 0 /\ env' = [env EXCEPT !.faults = @ - 1]
          /\ Step(c, With(c, Unknown("worker.process.lost"))) /\ UNCHANGED ex
       \/ /\ Outcome = "started"
          /\ ex' = Spawned(ex, Kind, IF job.child THEN {"leader", "child"} ELSE {"leader"})
          /\ Step(c, [Go(c, "record") EXCEPT !.baseline = SnapshotCheckpoints(host.out)])
          /\ UNCHANGED env
    /\ UNCHANGED <<job, srv, host>>

(* The identity is saved once the process runs.  A container is known by   *)
(* its cidfile; when that is late nothing is saved.                        *)
RecordIdentity(c) ==
    /\ At(c, "record")
    /\ \/ /\ Kind = "posix" \/ ex.cid
          /\ host' = [host EXCEPT !.identity = Identity(ex, job.token)]
          /\ Step(c, [Go(c, "running") EXCEPT !.id = Identity(ex, job.token)])
       \/ Kind = "oci" /\ ~ex.cid /\ job.late /\ Step(c, Go(c, "running")) /\ UNCHANGED host
    /\ UNCHANGED <<job, srv, ex, env>>

-----------------------------------------------------------------------------
(* The end of the executor.  Whatever the result, the group is killed and  *)
(* a container whose id is known is removed, if docker answers.            *)
Cleanup(e) == IF e.kind = "oci" /\ e.cid THEN {Killed(e), Halted(e, "gone")} ELSE {Killed(e)}

(* What the exit and the output of a brick say.                            *)
ParseReport(emits) ==
    CASE emits = "ok" -> Succeeded([status |-> "ok", by |-> "run"])
      [] emits = "invalid" -> Failed("worker.brick.invalid-report")
      [] OTHER -> Failed("worker.brick.failed")

RunBounded(e) ==
    CASE e.code = "overflow" -> Failed("worker.brick.output-too-large")
      [] e.code \in {None, "signal"} -> Unknown("worker.process.lost")
      [] e.code = "bad" -> Failed("worker.brick.failed")
      [] OTHER -> ParseReport(job.emits)

(* A GPU run that ended well is judged by its checkpoints, whatever it     *)
(* printed; the restore is judged with it.                                 *)
RunGpuTraining(e, baseline) ==
    LET r == RunBounded(e)
        report == CudaTrainingReport(host.out, baseline, job.source)
    IN IF r.disposition = "succeeded" \/ r.reason = "worker.brick.invalid-report"
       THEN IF report.status = "raised" THEN None
            ELSE Succeeded([status |-> "ok", checkpoint |-> report.checkpoint, updated |-> report.updated,
                            restore |-> RestoreStatus(host.out, job.resume, baseline, job.source, report)])
       ELSE r

ExecuteMpsTraining(e) ==
    CASE e.code \in {None, "signal"} -> Unknown("worker.process.lost")
      [] e.code = "bad" -> Failed("worker.brick.failed")
      [] OTHER -> IF "raised" \in {MpsTrainingReport(host.out).status, ListTree(host.out).status} THEN None
                  ELSE Succeeded(MpsTrainingReport(host.out))

(* None stands for an executor that raised.                                *)
Finished(e, baseline) ==
    CASE job.runtime = "gpu-oci" -> RunGpuTraining(e, baseline)
      [] job.runtime = "macos-mps" -> ExecuteMpsTraining(e)
      [] OTHER -> RunBounded(e)

Settled(c, result) == IF result = None THEN Raise(c) ELSE Step(c, With(c, result))

(* An MPS run puts its checkpoints in the Worker's own CAS before it       *)
(* returns, and does not look at the receipt.                              *)
Reap(c) ==
    /\ At(c, "running") /\ "leader" \notin ex.members
    /\ ex' \in Cleanup(ex)
    /\ Settled(c, Finished(ex, cl[c].baseline))
    /\ IF job.runtime = "macos-mps" /\ Finished(ex, {}) # None
       THEN \E r \in CollectReceipts(host.out) : host' = [host EXCEPT !.collected = r.files]
       ELSE UNCHANGED host
    /\ UNCHANGED <<job, srv, env>>

TimeOut(c) ==
    /\ At(c, "running") /\ "leader" \in ex.members
    /\ env.faults > 0 /\ env' = [env EXCEPT !.faults = @ - 1]
    /\ ex' \in Cleanup(Killed(ex))
    /\ Step(c, With(c, Unknown("worker.process.timeout")))
    /\ UNCHANGED <<job, srv, host>>

(* Each turn of the wait asks the controller whether to cancel; an answer  *)
(* that is lost counts as no.                                              *)
SeeCancel(c) ==
    /\ At(c, "running") /\ srv.cancel
    /\ Step(c, Go(c, "cancel"))
    /\ UNCHANGED <<job, srv, host, ex, env>>

(* Killed and waited for; the wait may run out.                            *)
Reaped(e) == {[ex |-> Killed(e), result |-> Failed("cancel-observed")], [ex |-> Killed(e), result |-> Unknown(UNOBSERVED)]}

StoppedBy(r) == [ex |-> r.ex, result |-> IF r.outcome = OBSERVED_STOP THEN Failed("cancel-observed") ELSE Unknown(UNOBSERVED)]

(* A container is stopped and inspected; without its id only the docker    *)
(* client is killed and waited for, as a sandboxed process is.             *)
SandboxFinishCancelled(e, id) ==
    IF id # None /\ id.kind = "oci" THEN {StoppedBy(r) : r \in ObserveAndStop(e, id)} ELSE Reaped(e)

MpsFinishCancelled(e, id) ==
    IF id # None THEN {StoppedBy(r) : r \in ObserveAndStop(e, id)} ELSE Reaped(e)

FinishCancelled(c) ==
    /\ At(c, "cancel")
    /\ \E r \in IF job.runtime = "macos-mps" THEN MpsFinishCancelled(ex, cl[c].id)
                 ELSE SandboxFinishCancelled(ex, cl[c].id) :
          /\ ex' \in Cleanup(r.ex)
          /\ Step(c, With(c, r.result))
    /\ UNCHANGED <<job, srv, host, env>>

-----------------------------------------------------------------------------
(* The end of run_once.  An unknown outcome is reported to no one.         *)
DropExecutionIdentity(h) == [h EXCEPT !.identity = None]
DropIdentity(h) == [h EXCEPT !.identity = None, !.pending = None]

Settle(c) ==
    /\ At(c, "settle")
    /\ LET r == cl[c].result IN
       \/ r.disposition = "unknown" /\ host' = DropIdentity(host) /\ Raise(c)
       \/ r.disposition = "failed" /\ Step(c, [Go(c, "fail") EXCEPT !.reason = r.reason]) /\ UNCHANGED host
       \/ r.disposition = "succeeded" /\ host' = DropExecutionIdentity(host) /\ Step(c, Go(c, "upload"))
    /\ UNCHANGED <<job, srv, ex, env>>

PutArtifact(c) ==
    /\ At(c, "upload")
    /\ Exchange(c, PutAt(srv, cl[c].result.report), Go(c, "pending"), IdleClient)
    /\ UNCHANGED <<job, host, ex>>

SavePending(c) ==
    /\ At(c, "pending")
    /\ host' = [host EXCEPT !.pending = cl[c].result.report]
    /\ Step(c, Go(c, "complete"))
    /\ UNCHANGED <<job, srv, ex, env>>

Complete(c) ==
    /\ At(c, "complete")
    /\ LET report == cl[c].result.report
           answer == CompleteAt(srv, report, report)
       IN Exchange(c, answer, IF answer.status = "ok" THEN Go(c, "drop") ELSE IdleClient, IdleClient)
    /\ UNCHANGED <<job, host, ex>>

(* A refused or undelivered failure is not retried.                        *)
Fail(c) ==
    /\ At(c, "fail")
    /\ Exchange(c, FailAt(srv, cl[c].reason), Go(c, "drop"), Go(c, "drop"))
    /\ UNCHANGED <<job, host, ex>>

Drop(c) ==
    /\ At(c, "drop")
    /\ host' = DropIdentity(host)
    /\ Raise(c)
    /\ UNCHANGED <<job, srv, ex, env>>

(* Mutant: the pending completion is not looked for.                       *)
ResumeWithoutPending(c) ==
    /\ At(c, "resume")
    /\ \/ cl[c].cancel /\ Step(c, [Go(c, "stop") EXCEPT !.id = host.identity])
       \/ ~cl[c].cancel /\ Raise(c)
    /\ UNCHANGED <<job, srv, host, ex, env>>

(* A lease that was claimed before: finish its pending completion, or stop *)
(* its executor when a cancel is asked for; never execute it again.        *)
ResumeClaimed(c) ==
    /\ At(c, "resume")
    /\ \/ host.pending # None /\ Step(c, [Go(c, "complete") EXCEPT !.result = Succeeded(host.pending)])
       \/ host.pending = None /\ cl[c].cancel /\ Step(c, [Go(c, "stop") EXCEPT !.id = host.identity])
       \/ host.pending = None /\ ~cl[c].cancel /\ Raise(c)
    /\ UNCHANGED <<job, srv, host, ex, env>>

(* The leader of an earlier process is no child of this one, so its number *)
(* is compared, signalled and waited for in steps: SIGTERM and a wait,     *)
(* then SIGKILL, which compares nothing again, and a wait.                 *)
Signalling == {"term", "termed", "kill"}

Stopped(c, outcome) ==
    IF outcome = OBSERVED_STOP THEN Step(c, [Go(c, "fail") EXCEPT !.reason = "cancel-observed"]) ELSE Raise(c)

StopOriginal(c) ==
    /\ At(c, "stop")
    /\ LET id == cl[c].id IN
       IF id # None /\ id.kind = "posix"
       THEN UNCHANGED ex /\ \E may \in MaySignal(ex, id) : IF may THEN Step(c, Go(c, "term")) ELSE Raise(c)
       ELSE \E r \in ObserveAndStop(ex, id) : ex' = r.ex /\ Stopped(c, r.outcome)
    /\ UNCHANGED <<job, srv, host, env>>

(* A signal that is not sent is the last one.                              *)
SignalOriginal(c) ==
    /\ At(c, "term") \/ At(c, "kill")
    /\ \E s \in SignalGroup(ex) :
          /\ ex' = s.ex
          /\ Step(c, Go(c, IF At(c, "term") /\ s.sent THEN "termed" ELSE "killed"))
    /\ UNCHANGED <<job, srv, host, env>>

AwaitOriginal(c) ==
    /\ At(c, "termed") \/ At(c, "killed")
    /\ \E outcome \in WaitGroupExited(ex) :
          IF At(c, "termed") /\ outcome = UNOBSERVED THEN Step(c, Go(c, "kill")) ELSE Stopped(c, outcome)
    /\ UNCHANGED <<job, srv, host, ex, env>>

-----------------------------------------------------------------------------
(* The native run command, one at a time.  Its receipt is what it prints.  *)
Receipt(c, result) == host' = [host EXCEPT !.receipt = result] /\ Raise(c)

ExecuteNativeProcess(c) ==
    /\ At(c, "idle") /\ job.runtime = "native-process"
    /\ ~UserCodeRuns(ex) /\ \A d \in Clients : At(d, "idle")
    /\ Step(c, IF MayExecute(job.differs) THEN Go(c, "helper") ELSE IdleClient)
    /\ host' = [host EXCEPT !.receipt = None]
    /\ UNCHANGED <<job, srv, ex, env>>

RunHelper(c) ==
    /\ At(c, "helper")
    /\ \/ /\ ex' = Spawned(NoExecutor, "posix", IF job.child THEN {"leader", "child"} ELSE {"leader"})
          /\ Step(c, Go(c, "native")) /\ UNCHANGED <<host, env>>
       \/ /\ env.faults > 0 /\ env' = [env EXCEPT !.faults = @ - 1]
          /\ Receipt(c, ProcessLost) /\ UNCHANGED ex
    /\ UNCHANGED <<job, srv>>

(* The wait asks for a cancel before it looks at the process.              *)
NativeCancelled(c) ==
    /\ At(c, "native") /\ srv.cancel
    /\ \E r \in FinishNativeCancelled(ex) : ex' = r.ex /\ Receipt(c, r.result)
    /\ UNCHANGED <<job, srv, env>>

NativeExited(c) ==
    /\ At(c, "native") /\ "leader" \notin ex.members
    /\ ex' \in ReapProcessGroup(ex)
    /\ Receipt(c, RunNativeBounded(ex, job.emits))
    /\ UNCHANGED <<job, srv, env>>

(* The payload cannot be written, or the wall time is over.                *)
NativeUnobserved(c) ==
    /\ At(c, "native")
    /\ env.faults > 0 /\ env' = [env EXCEPT !.faults = @ - 1]
    /\ ex' \in ReapProcessGroup(ex)
    /\ \E r \in {ProcessLost, ProcessTimeout} : Receipt(c, r)
    /\ UNCHANGED <<job, srv>>

NativeRun(c) == ExecuteNativeProcess(c) \/ RunHelper(c) \/ NativeCancelled(c) \/ NativeExited(c) \/ NativeUnobserved(c)

-----------------------------------------------------------------------------
(* The executor itself.                                                    *)
BoxCreated ==
    /\ ex.box = "creating"
    /\ \/ ex' = [ex EXCEPT !.box = "running", !.cid = TRUE]
       \/ "leader" \notin ex.members /\ ex' = [ex EXCEPT !.box = "gone"]
    /\ UNCHANGED <<job, srv, host, cl, env>>

Runs == IF ex.kind = "oci" THEN ex.box = "running" ELSE "leader" \in ex.members

(* Training loads what it resumes, then writes its checkpoints in turn.    *)
Train ==
    /\ Runs /\ ex.wrote < Len(job.writes)
    /\ ex' = [ex EXCEPT !.wrote = @ + 1]
    /\ LET k   == job.writes[ex.wrote + 1]
           out == EmitLoaded(host.out, job.loads)
       IN host' = [host EXCEPT !.out = [out EXCEPT !.checkpoints = {j \in out.checkpoints : j.index # k.index} \cup {k},
                                                   !.markers = out.markers \/ job.resume # "none"]]
    /\ UNCHANGED <<job, srv, cl, env>>

(* The output of an MPS run goes to a log that nobody bounds.              *)
ExitCode == CASE job.emits = "error" -> "bad" [] job.emits = "crash" -> "signal"
              [] job.emits = "overflow" /\ job.runtime # "macos-mps" -> "overflow" [] OTHER -> "ok"

LeaderExits ==
    /\ Runs /\ "leader" \in ex.members /\ (ExitCode = "ok" => ex.wrote = Len(job.writes))
    /\ ex' = [ex EXCEPT !.members = @ \ {"leader"}, !.code = ExitCode,
                        !.box = IF ex.kind = "oci" /\ ExitCode # "overflow" THEN "exited" ELSE @]
    /\ UNCHANGED <<job, srv, host, cl, env>>

(* The container of a dead client, or a child of a dead leader, ends.      *)
OrphanEnds ==
    /\ "leader" \notin ex.members
    /\ \/ ex.box = "running" /\ ex' = [ex EXCEPT !.box = "exited"]
       \/ "child" \in ex.members /\ ex' = [ex EXCEPT !.members = {}]
    /\ UNCHANGED <<job, srv, host, cl, env>>

Spend(kind) == env[kind] > 0 /\ env' = [env EXCEPT ![kind] = @ - 1]

(* The pid of a leader no one waits for is given to another process, even  *)
(* while a stop that compared it is about to signal it.                    *)
PidRecycled ==
    /\ ex.kind = "posix" /\ ex.members = {} /\ ex.stranger = "no"
    /\ \A c \in Clients : cl[c].pc \notin {"record", "running", "cancel", "native"}
    /\ Spend("recycle")
    /\ ex' = [ex EXCEPT !.stranger = "runs", !.raced = \E c \in Clients : cl[c].pc \in Signalling]
    /\ UNCHANGED <<job, srv, host, cl>>

RequestCancel == Spend("cancel") /\ srv' = [srv EXCEPT !.cancel = TRUE] /\ UNCHANGED <<job, host, ex, cl>>
Revoke == Spend("revoke") /\ srv' = [srv EXCEPT !.live = FALSE] /\ UNCHANGED <<job, host, ex, cl>>

(* The controller stops after work.leased and before work.claimed.         *)
ControllerStops ==
    /\ \E c \in Clients : At(c, "poll") /\ Raise(c)
    /\ PollAt(srv).status = "fresh" /\ srv.lease = "none"
    /\ Spend("controller") /\ srv' = [srv EXCEPT !.lease = "offered"]
    /\ UNCHANGED <<job, host, ex>>

Crash(c) == ~At(c, "idle") /\ Spend("crash") /\ Raise(c) /\ UNCHANGED <<job, srv, host, ex>>

-----------------------------------------------------------------------------
Init ==
    \E w \in Workloads :
        /\ job = w.job /\ env = w.env
        /\ srv = [lease |-> "none", live |-> Granted(w.job.differs), cancel |-> FALSE, cas |-> {}, result |-> None,
                  artifact |-> None, reason |-> None]
        /\ host = [identity |-> None, pending |-> None, collected |-> {}, receipt |-> None,
                   out |-> [checkpoints |-> w.leftovers, loads |-> {}, markers |-> FALSE]]
        /\ ex = NoExecutor
        /\ cl = [c \in Clients |-> IdleClient]

RunOnce(c) ==
    \/ Begin(c) \/ Poll(c) \/ FetchImage(c) \/ Launch(c) \/ RecordIdentity(c)
    \/ Reap(c) \/ TimeOut(c) \/ SeeCancel(c) \/ FinishCancelled(c)
    \/ Settle(c) \/ PutArtifact(c) \/ SavePending(c) \/ Complete(c) \/ Fail(c) \/ Drop(c)
    \/ ResumeClaimed(c) \/ StopOriginal(c) \/ SignalOriginal(c) \/ AwaitOriginal(c)

Executor == BoxCreated \/ Train \/ LeaderExits \/ OrphanEnds
Disturb == PidRecycled \/ RequestCancel \/ Revoke \/ ControllerStops \/ \E c \in Clients : Crash(c)

Next == (\E c \in Clients : RunOnce(c) \/ NativeRun(c)) \/ Executor \/ Disturb

Spec == Init /\ [][Next]_vars

(* The Worker's commands are run again and again and each of their steps   *)
(* is finite; nothing is assumed of the user code, the operators or the    *)
(* network, whose losses env bounds.                                       *)
LiveSpec == Spec /\ \A c \in Clients : WF_vars(RunOnce(c) \/ NativeRun(c))

-----------------------------------------------------------------------------
(* User code is started at most once for a lease, only for a request that  *)
(* agrees with what was authorized and with the host, and a lease that is  *)
(* recorded as completed (client.py complete, http.py _complete) names the *)
(* report of that one execution, whose exit was clean and whose bytes the  *)
(* controller holds; a GPU report scores a checkpoint this execution wrote *)
(* and not a leftover.  Crashes, lost answers, a second process and a      *)
(* pending completion of an earlier one do not change that.  The receipt   *)
(* of a native run says succeeded on the same terms.                       *)
CompletedIsExecuted ==
    /\ ex.starts <= 1
    /\ ex.starts > 0 => job.differs = {}
    /\ srv.lease = "completed" =>
          /\ ex.starts = 1 /\ ex.code = "ok"
          /\ srv.result = srv.artifact /\ srv.artifact \in srv.cas
          /\ job.runtime = "gpu-oci" => srv.result.checkpoint.by = "run"
    /\ host.receipt # None /\ host.receipt.disposition = "succeeded" => ex.starts = 1 /\ ex.code = "ok"

(* work.failed with cancel-observed (client.py _resume_claimed, sandbox.py *)
(* and mps.py _finish_cancelled), or the receipt of a native run with it   *)
(* (native_runtime.py _finish_cancelled), is recorded only when no process *)
(* of the user code still runs; and a stop by a stored identity never      *)
(* signals a stranger that had the pid when the identity was compared.     *)
(* Three cases are outside: a container whose cidfile came late, an        *)
(* identity saved without a start token, and a pid given away between the  *)
(* comparison (supervise.py:342) and the last signal (351), which nothing  *)
(* compares again.                                                         *)
CancelObservedStops ==
    /\ srv.reason = "cancel-observed" => ~UserCodeRuns(ex) \/ job.late
    /\ host.receipt # None /\ host.receipt.reason = "cancel-observed" => ~UserCodeRuns(ex)
    /\ ex.stranger = "hit" => ~job.token \/ ex.raced

(* A result whose upload was acknowledged and whose pending completion was *)
(* saved (supervise.py save_pending_complete) reaches the controller: the  *)
(* lease stops being active, whoever died and whatever answers were lost,  *)
(* unless the grant is revoked.                                            *)
PendingDelivered == host.pending # None ~> srv.lease # "active" \/ ~srv.live
=============================================================================
