------------------------- MODULE WorkerClientProofs -------------------------
(***************************************************************************)
(* Proofs about the processes of a Worker.  One of them at most holds a    *)
(* claim it may execute; a report is good only once the executor ended     *)
(* with a clean exit, and an executor that has gone stays gone, so what a  *)
(* process, a file on the disk or the controller says of either stays true *)
(* whoever dies and whatever is sent again.                                *)
(***************************************************************************)
EXTENDS WorkerClient, WellFoundedInduction, TLAPS

-----------------------------------------------------------------------------
(* Shapes.  A record is a function of its field names.                     *)
Rec(r, F) == r = [f \in F |-> r[f]]

ExFields == {"kind", "members", "code", "box", "cid", "starts", "wrote", "stranger", "raced"}
SrvFields == {"lease", "live", "cancel", "cas", "result", "artifact", "reason"}
HostFields == {"identity", "pending", "collected", "receipt", "out"}
OutFields == {"checkpoints", "loads", "markers"}
ClientFields == {"pc", "tries", "cancel", "baseline", "id", "result", "reason"}

ClientsShaped == cl = [c \in Clients |-> cl[c]] /\ \A c \in Clients : Rec(cl[c], ClientFields)

Shaped ==
    /\ \E w \in Workloads : job = w.job
    /\ Rec(ex, ExFields) /\ Rec(srv, SrvFields) /\ Rec(host, HostFields) /\ Rec(host.out, OutFields)
    /\ ClientsShaped /\ ex.cid \in BOOLEAN /\ ex.wrote \in Nat

-----------------------------------------------------------------------------
(* The invariant.  Good: the one execution ended with a clean exit, and a  *)
(* GPU report scores what it wrote.  Gone: the one execution runs no more. *)
Good(report) ==
    /\ ex.starts = 1 /\ ex.code = "ok" /\ "leader" \notin ex.members
    /\ job.runtime = "gpu-oci" => report.checkpoint.by = "run"

Gone == ex.starts = 1 /\ (~UserCodeRuns(ex) \/ job.late)

IsId(id) == ex.starts = 1 /\ id.kind = Kind /\ id.token = job.token

Unclaimed == {"none", "offered"}
Executing == {"fetch", "launch", "record", "running", "cancel"}
Reporting == {"upload", "pending", "complete"}

(* Every checkpoint of another run is among those seen at the launch.      *)
BaselineKept(baseline) ==
    \A k \in host.out.checkpoints : k.by = "run" \/ [index |-> k.index, print |-> Fingerprint(k)] \in baseline

ClientOK(c) ==
    LET r == cl[c] IN
    /\ r.pc \in Executing => srv.lease \notin Unclaimed /\ Granted(job.differs) /\ job.runtime # "native-process"
    /\ r.pc \in {"fetch", "launch"} => ex.starts = 0
    /\ r.pc \in {"record", "running", "cancel"} => ex.starts = 1
    /\ r.id = None \/ IsId(r.id)
    /\ r.pc \in {"running", "cancel"} => r.id # None \/ job.late
    /\ r.pc \in {"record", "running"} => BaselineKept(r.baseline)
    /\ r.pc = "settle" /\ r.result.disposition = "succeeded" => Good(r.result.report)
    /\ r.pc \in Reporting => Good(r.result.report)
    /\ r.pc \in {"term", "termed", "kill", "killed"} =>
          r.id # None /\ Kind = "posix" /\ (ex.stranger = "runs" => ~job.token \/ ex.raced \/ r.pc = "killed")
    /\ r.pc = "settle" /\ r.result.reason = "cancel-observed" => Gone
    /\ r.pc = "fail" /\ r.reason = "cancel-observed" => Gone
    /\ r.pc # "idle" => (r.pc \in {"helper", "native"} <=> job.runtime = "native-process")

NativeOK(c) ==
    cl[c].pc \in {"helper", "native"} =>
        /\ job.differs = {} /\ host.receipt = None
        /\ cl[c].pc = "native" => ex.starts = 1
        /\ \A d \in Clients \ {c} : cl[d].pc = "idle"

OneClaim == \A c, d \in Clients : cl[c].pc \in Executing /\ cl[d].pc \in Executing => c = d

ServerOK(s) ==
    /\ s.live => Granted(job.differs)
    /\ s.lease = "completed" => Good(s.result) /\ s.result = s.artifact /\ s.artifact \in s.cas
    /\ s.reason = "cancel-observed" => Gone
    /\ s.lease \in Unclaimed /\ job.runtime # "native-process" => ex.starts = 0
    /\ job.runtime = "native-process" => s.lease = "none" /\ s.reason = None

HostOK(h) ==
    /\ h.pending # None => Good(h.pending) /\ job.runtime # "native-process"
    /\ h.identity = None \/ IsId(h.identity)
    /\ h.receipt # None =>
          /\ job.runtime = "native-process"
          /\ h.receipt.disposition = "succeeded" => ex.starts = 1 /\ ex.code = "ok" /\ "leader" \notin ex.members
          /\ h.receipt.reason = "cancel-observed" => ~UserCodeRuns(ex)
    /\ \E n \in Nat : /\ \A k \in h.out.checkpoints : k.index \in 0..n
                      /\ \A i \in 1..Len(job.writes) : job.writes[i].index \in 0..n

ExecutorOK(e) ==
    /\ e.starts \in {0, 1} /\ e.code \in {None, "signal", "bad", "overflow", "ok"}
    /\ e.code = "overflow" => job.runtime # "macos-mps"
    /\ e.starts = 1 => job.differs = {} /\ e.kind = Kind
    /\ e.stranger = "hit" => ~job.token \/ e.raced

ClientInv ==
    /\ \A c \in Clients : ClientOK(c) /\ NativeOK(c)
    /\ OneClaim /\ ServerOK(srv) /\ HostOK(host) /\ ExecutorOK(ex)

-----------------------------------------------------------------------------
(* The executor.  What is done to one that was started never brings back a *)
(* member or a container, never changes the code of a leader that has      *)
(* left, and hits a stranger only under an identity without a token or     *)
(* in the middle of a stop; and while a process may yet signal, a pid that *)
(* is given away is marked so.                                             *)
Keeps(e, f) ==
    /\ Rec(f, ExFields) /\ f.cid \in BOOLEAN /\ (e.wrote \in Nat => f.wrote \in Nat) /\ f.kind = e.kind /\ f.starts = e.starts /\ f.members \subseteq e.members
    /\ f.code \in {e.code, "signal", "bad", "ok"} \/ (f.code = "overflow" /\ job.runtime # "macos-mps")
    /\ "leader" \notin e.members => f.code = e.code
    /\ e.box \notin {"creating", "running"} => f.box \notin {"creating", "running"}
    /\ f.stranger = "hit" => e.stranger = "hit" \/ ~job.token \/ f.raced
    /\ e.raced /\ e.stranger # "no" => f.raced
    /\ f.stranger = "runs" => e.stranger = "runs" \/ f.raced \/ \A c \in Clients : cl[c].pc \notin Signalling
    /\ e.stranger # "no" => f.stranger # "no"

(* What Killed and Halted leave.                                           *)
LEMMA KillKeeps ==
    ASSUME NEW e, Rec(e, ExFields), e.cid \in BOOLEAN
    PROVE  /\ Keeps(e, e)
           /\ Keeps(e, Killed(e)) /\ Killed(e).members = {}
           /\ \A some \in SUBSET e.members : Keeps(e, Died(e, some))
           /\ \A box \in {"exited", "gone"} : Keeps(e, Halted(e, box)) /\ Halted(e, box).box = box
  <1>1. ASSUME NEW some \in SUBSET e.members PROVE Keeps(e, Died(e, some))
    BY <1>1 DEF Keeps, Died, Rec, ExFields
  <1>2. Killed(e).members = {}
    BY DEF Killed, Died, Rec, ExFields
  <1>3. ASSUME NEW box \in {"exited", "gone"} PROVE Keeps(e, Halted(e, box)) /\ Halted(e, box).box = box
    BY <1>3 DEF Keeps, Halted, Rec, ExFields
  <1>4. Keeps(e, e)
    BY DEF Keeps
  <1> QED BY <1>1, <1>2, <1>3, <1>4 DEF Killed

(* What a start leaves.                                                    *)
LEMMA SpawnShape ==
    ASSUME NEW e, e.starts = 0, NEW kind, NEW members
    PROVE  LET f == Spawned(e, kind, members)
           IN  /\ Rec(f, ExFields) /\ f.starts = 1 /\ f.kind = kind /\ f.code = None /\ f.stranger = "no"
               /\ f.cid \in BOOLEAN /\ f.wrote \in Nat
  <1> DEFINE one == e.starts + 1
             box == IF kind = "oci" THEN "creating" ELSE "none"
             new == [NoExecutor EXCEPT !.kind = kind, !.members = members, !.starts = one, !.box = box]
  <1>1. one = 1 /\ Spawned(e, kind, members) = new
    BY DEF Spawned
  <1> HIDE DEF one, box
  <1>2. /\ Rec(NoExecutor, ExFields) /\ NoExecutor.code = None /\ NoExecutor.stranger = "no" /\ NoExecutor.cid \in BOOLEAN
        /\ NoExecutor.wrote = 0
    BY DEF NoExecutor, Rec, ExFields
  <1>3. /\ new.starts = one /\ new.kind = kind /\ new.code = None /\ new.stranger = "no" /\ new.cid \in BOOLEAN /\ new.wrote = 0
        /\ Rec(new, ExFields)
    BY <1>2 DEF Rec, ExFields
  <1> HIDE DEF new
  <1> QED BY <1>1, <1>3

(* One change after another.                                               *)
LEMMA KeepsChain ==
    ASSUME NEW e, NEW f, NEW g, Keeps(e, f), Keeps(f, g)
    PROVE  Keeps(e, g)
  BY DEF Keeps

(* The end of an executor.                                                 *)
LEMMA CleanupKeeps ==
    ASSUME NEW e, Rec(e, ExFields), e.cid \in BOOLEAN, NEW f \in Cleanup(e)
    PROVE  Keeps(e, f)
  BY KillKeeps DEF Cleanup

(* The end of a native process: its leader has left in any case.           *)
LEMMA ReapKeeps ==
    ASSUME NEW e, Rec(e, ExFields), e.cid \in BOOLEAN, NEW f \in ReapProcessGroup(e)
    PROVE  Keeps(e, f)
  <1>1. CASE f = Killed(e)
    BY <1>1, KillKeeps
  <1>2. CASE f = [Killed(e) EXCEPT !.members = e.members \ {"leader"}]
    BY <1>2 DEF Keeps, Killed, Died, Rec, ExFields
  <1> QED BY <1>1, <1>2 DEF ReapProcessGroup

(* A probe of a process that runs never says that it has left.             *)
LEMMA RunningNeverExited ==
    Observations[TRUE] \subseteq {"running", "unknown"}
  <1>1. ASSUME NEW v \in ProcessViews(TRUE) PROVE ObserveProcess(v) \in {"running", "unknown"}
    <2>1. v \in [signal : {"sent", "denied", "error"}, stat : {"unread", "R"}, procfs : BOOLEAN,
                 again : {"sent", "error"}, ps : {"failed", "R"}]
      BY <1>1 DEF ProcessViews
    <2>2. /\ v.signal \in {"sent", "denied", "error"} /\ v.stat \in {"unread", "R"} /\ v.procfs \in BOOLEAN
          /\ v.again \in {"sent", "error"} /\ v.ps \in {"failed", "R"}
      BY <2>1
    <2>3. RecheckKill(v.again) = "unknown" /\ (v.signal # "sent" => RecheckKill(v.signal) \in {"running", "unknown"})
      BY <2>2 DEF RecheckKill
    <2>4. StateObservation("R") = "running"
      BY DEF StateObservation
    <2>5. PsObserve(v) \in {"running", "unknown"}
      BY <2>2, <2>3, <2>4 DEF PsObserve
    <2> QED BY <2>2, <2>3, <2>4, <2>5 DEF ObserveProcess
  <1>2. Observations[TRUE] = {ObserveProcess(v) : v \in ProcessViews(TRUE)}
    BY DEF Observations
  <1> QED BY <1>1, <1>2

(* So a group that is seen to have gone has no member.                     *)
LEMMA ObservedExitIsReal ==
    ASSUME NEW e, OBSERVED_STOP \in WaitGroupExited(e)
    PROVE  e.members = {}
  <1> SUFFICES ASSUME e.members # {} PROVE FALSE
    OBVIOUS
  <1>1. "exited" \in GroupObservations(e)
    BY DEF WaitGroupExited, OBSERVED_STOP, UNOBSERVED
  <1> DEFINE Probe(p, m, l, o) == ObserveGroup(p, m, l, {o})
             Leader == Observations["leader" \in e.members]
             Member == Observations[TRUE]
             Seen(p) == {Probe(p, m, l, o) : m \in ListedMembers(e, p), l \in Leader, o \in Member}
  <1>s. GroupObservations(e) = UNION {Seen(p) : p \in GroupPresent(e)}
    BY DEF GroupObservations
  <1> HIDE DEF Seen, Probe, Leader, Member
  <1>2. PICK p \in GroupPresent(e) : "exited" \in Seen(p)
    BY <1>1, <1>s
  <1>m. PICK m \in ListedMembers(e, p), l \in Leader, o \in Member : "exited" = Probe(p, m, l, o)
    BY <1>2 DEF Seen
  <1>3. p \in {"yes", "unknown"}
    BY DEF GroupPresent
  <1>4. m \in {"unknown", "some"} \/ (m = "none" /\ p = "yes")
    BY DEF ListedMembers
  <1>5. o \in {"running", "unknown"}
    BY RunningNeverExited DEF Member
  <1>6. CASE m = "unknown"
    BY <1>m, <1>3, <1>6 DEF ObserveGroup, Probe
  <1>7. CASE m = "none" /\ p = "yes"
    BY <1>m, <1>7 DEF ObserveGroup, Probe
  <1>8. CASE m = "some"
    BY <1>m, <1>3, <1>5, <1>8 DEF ObserveGroup, Probe
  <1> QED BY <1>4, <1>6, <1>7, <1>8

(* A signal to a group hits a stranger only if it has the group's number.  *)
LEMMA SignalKeeps ==
    ASSUME NEW e, Rec(e, ExFields), e.cid \in BOOLEAN, e.stranger = "runs" => ~job.token \/ e.raced,
           NEW s \in SignalGroup(e)
    PROVE  Keeps(e, s.ex)
  <1>1. CASE s.ex = e
    BY <1>1, KillKeeps
  <1>2. CASE e.stranger = "runs" /\ s.ex = [e EXCEPT !.stranger = "hit"]
    BY <1>2 DEF Keeps, Rec, ExFields
  <1>3. CASE \E some \in SUBSET e.members : s.ex = Died(e, some)
    BY <1>3, KillKeeps
  <1> QED BY <1>1, <1>2, <1>3 DEF SignalGroup

(* Stopping an executor by its identity.                                   *)
LEMMA StopKeeps ==
    ASSUME NEW e, Rec(e, ExFields), e.cid \in BOOLEAN, NEW id, id = None \/ (id.kind = e.kind /\ id.token = job.token),
           job.token \in BOOLEAN, NEW r \in ObserveAndStop(e, id)
    PROVE  Keeps(e, r.ex) /\ (r.outcome = OBSERVED_STOP => ~UserCodeRuns(r.ex))
  <1> USE DEF OBSERVED_STOP, UNOBSERVED
  <1>0. Keeps(e, e)
    BY KillKeeps
  <1>1. CASE r = [ex |-> e, outcome |-> UNOBSERVED]
    BY <1>0, <1>1
  <1>2. CASE id # None /\ id.kind = "oci" /\ r \in StopOciContainer(e, id)
    <2> DEFINE stopped == {e, Halted(e, "exited")}
    <2>1. \/ r = [ex |-> e, outcome |-> UNOBSERVED]
          \/ \E s \in stopped : r = [ex |-> s, outcome |-> UNOBSERVED]
          \/ \E s \in stopped : r = [ex |-> Halted(s, "gone"), outcome |-> OBSERVED_STOP]
      BY <1>2 DEF StopOciContainer
    <2>2. CASE \E s \in stopped : r = [ex |-> s, outcome |-> UNOBSERVED]
      BY <1>0, <2>2, KillKeeps
    <2>3. CASE \E s \in stopped : r = [ex |-> Halted(s, "gone"), outcome |-> OBSERVED_STOP]
      <3>1. PICK s \in stopped : r = [ex |-> Halted(s, "gone"), outcome |-> OBSERVED_STOP]
        BY <2>3
      <3>2. Keeps(e, s)
        BY <1>0, KillKeeps
      <3>3. Rec(s, ExFields) /\ s.cid \in BOOLEAN /\ s.kind = "oci"
        BY <1>2, <3>2 DEF Keeps
      <3>4. Keeps(s, Halted(s, "gone")) /\ Halted(s, "gone").box = "gone"
        BY <3>3, KillKeeps
      <3>5. Keeps(e, r.ex) /\ r.ex.box = "gone" /\ r.ex.kind = "oci"
        BY <3>1, <3>2, <3>3, <3>4, KeepsChain DEF Keeps
      <3> QED BY <3>5 DEF UserCodeRuns
    <2> QED BY <1>1, <2>1, <2>2, <2>3
  <1>3. CASE id # None /\ id.kind # "oci" /\ r \in StopPosixGroup(e, id)
    <2>1. CASE TRUE \in MaySignal(e, id) /\ r # [ex |-> e, outcome |-> UNOBSERVED]
      <3>1. PICK s \in SignalGroup(e) : \E o \in WaitGroupExited(s.ex) : r = [ex |-> s.ex, outcome |-> o]
        BY <1>3, <2>1 DEF StopPosixGroup
      <3>2. e.stranger = "runs" => ~job.token
        BY <1>3, <2>1 DEF MaySignal
      <3>3. Keeps(e, s.ex)
        BY <3>1, <3>2, SignalKeeps
      <3>4. r.ex = s.ex /\ (r.outcome = OBSERVED_STOP => s.ex.members = {})
        BY <3>1, ObservedExitIsReal
      <3> QED BY <1>3, <3>3, <3>4 DEF UserCodeRuns, Keeps
    <2> QED BY <1>1, <1>3, <2>1 DEF StopPosixGroup
  <1> QED BY <1>1, <1>2, <1>3 DEF ObserveAndStop

(* What is true of an executor stays true.                                 *)
LEMMA KeepsFacts ==
    ASSUME job' = job, Keeps(ex, ex')
    PROVE  /\ \A x : Good(x) => Good(x)'
           /\ Gone => Gone'
           /\ \A id : IsId(id) => IsId(id)'
           /\ ~UserCodeRuns(ex) => ~UserCodeRuns(ex)'
           /\ ExecutorOK(ex) => ExecutorOK(ex)'
  BY DEF Keeps, Good, Gone, IsId, UserCodeRuns, ExecutorOK, Kind

-----------------------------------------------------------------------------
(* Launching.  A nonempty set of naturals has a least element.             *)
LEMMA LeastNatural ==
    ASSUME NEW T \in SUBSET Nat, T # {}
    PROVE  \E x \in T : \A y \in T : x <= y
  <1> DEFINE R == OpToRel(<, Nat)
  <1>1. IsWellFoundedOn(R, Nat)
    BY NatLessThanWellFounded
  <1>2. \A x, y \in Nat : y < x => <<y, x>> \in R
    BY DEF OpToRel
  <1> HIDE DEF R
  <1>3. PICK x \in T : \A y \in T : ~ (<<y, x>> \in R)
    BY <1>1, WFMin
  <1>4. \A y \in T : ~ (y < x)
    BY <1>2, <1>3
  <1>5. \A y \in T : x <= y
    BY <1>4
  <1> QED BY <1>5

LeaseRuntimes == {"python-sandbox", "oci-container", "gpu-oci", "macos-mps"}
CheckSet ==
    {RequireExecutionDigest, BrickRequest, BrickRequestSize, MaterializeBrick, ParseOciLaunchPolicy, DiscoverOciBackend,
     RequirePinnedImage, ResolveSecretEnv, PrepareOciInputRoot, ParseGpuLaunchPolicy, AuthorizedGpuCommand, GpuHostDirs,
     PrepareGpuLaunch, PrepareGpuOutputRoot, ProbeGpuOutput, ParseMpsLaunchPolicy, MpsPlan, ParseEnvironment,
     RequireWorkspace, MpsTrees, ProbeDevice}

(* A check that fails raises or fails the lease.                           *)
LEMMA ChecksShaped ==
    ASSUME NEW runtime \in LeaseRuntimes
    PROVE  Checks(runtime) \in Seq(CheckSet) /\ \A c \in CheckSet : c.how # "started"
  <1> DEFINE Later == CASE runtime = "python-sandbox" -> <<BrickRequest, BrickRequestSize, MaterializeBrick>>
                        [] runtime = "oci-container" ->
                              <<BrickRequest, BrickRequestSize, ParseOciLaunchPolicy, DiscoverOciBackend, RequirePinnedImage,
                                ResolveSecretEnv, MaterializeBrick, PrepareOciInputRoot>>
                        [] runtime = "gpu-oci" ->
                              <<ParseGpuLaunchPolicy, AuthorizedGpuCommand, GpuHostDirs, PrepareGpuLaunch, DiscoverOciBackend,
                                RequirePinnedImage, PrepareGpuOutputRoot, ProbeGpuOutput>>
                        [] runtime = "macos-mps" ->
                              <<ParseMpsLaunchPolicy, MpsPlan, ParseEnvironment, RequireWorkspace, MpsTrees, ProbeDevice>>
  <1>0. \A F : Check(F, "raised").how = "raised" /\ Check(F, "failed").how = "failed"
    BY DEF Check
  <1>1. \A c \in CheckSet : c.how # "started"
    BY <1>0 DEF CheckSet, BrickRequest, BrickRequestSize, MaterializeBrick, RequireExecutionDigest, ParseOciLaunchPolicy,
        DiscoverOciBackend, RequirePinnedImage, ResolveSecretEnv, PrepareOciInputRoot, GpuHostDirs, PrepareGpuLaunch,
        PrepareGpuOutputRoot, ProbeGpuOutput, ParseGpuLaunchPolicy, AuthorizedGpuCommand, ParseMpsLaunchPolicy, MpsPlan,
        ParseEnvironment, RequireWorkspace, MpsTrees, ProbeDevice
  <1>4. Later \in Seq(CheckSet)
    <2>1. CASE runtime = "python-sandbox"
      BY <2>1 DEF CheckSet
    <2>2. CASE runtime = "oci-container"
      BY <2>2 DEF CheckSet
    <2>3. CASE runtime = "gpu-oci"
      BY <2>3 DEF CheckSet
    <2>4. CASE runtime = "macos-mps"
      BY <2>4 DEF CheckSet
    <2> QED BY <2>1, <2>2, <2>3, <2>4 DEF LeaseRuntimes
  <1>5. Checks(runtime) = <<RequireExecutionDigest>> \o Later
    BY DEF Checks
  <1>6. RequireExecutionDigest \in CheckSet
    BY DEF CheckSet
  <1> HIDE DEF Later
  <1> QED BY <1>1, <1>4, <1>5, <1>6

(* So an executor that starts has a job that differs in nothing.           *)
LEMMA StartedAgrees ==
    ASSUME NEW runtime \in LeaseRuntimes, NEW differs \in SUBSET Facets(runtime), Granted(differs),
           NEW more, differs \subseteq more, LaunchOutcome(runtime, more) = "started"
    PROVE  differs = {}
  <1> DEFINE cs == Checks(runtime)
             failing == {i \in 1..Len(cs) : cs[i].facets \cap more # {}}
  <1>1. cs \in Seq(CheckSet) /\ Len(cs) \in Nat
    BY ChecksShaped
  <1>2. \A i \in 1..Len(cs) : cs[i].how # "started"
    BY <1>1, ChecksShaped
  <1>3. failing = {}
    <2> SUFFICES ASSUME failing # {} PROVE FALSE
      OBVIOUS
    <2> DEFINE first == CHOOSE i \in failing : \A j \in failing : i <= j
    <2>1. failing \in SUBSET Nat
      BY <1>1
    <2>2. first \in failing
      BY <2>1, LeastNatural
    <2>3. cs[first].how = "started"
      BY DEF LaunchOutcome
    <2> HIDE DEF first
    <2> QED BY <1>2, <2>2, <2>3
  <1>4. \A i \in 1..Len(cs) : cs[i].facets \cap differs = {}
    BY <1>3
  <1> HIDE DEF cs, failing
  <1>5. \A f \in differs : f \in GrantFacets \/ \E i \in 1..Len(cs) : f \in cs[i].facets
    BY DEF Facets, cs
  <1>6. differs \cap GrantFacets = {}
    BY DEF Granted
  <1> QED BY <1>4, <1>5, <1>6

-----------------------------------------------------------------------------
(* Results.  Of numbered checkpoints one has the highest number.           *)
LEMMA LatestIsOne ==
    ASSUME NEW S, S # {}, NEW n \in Nat, \A k \in S : k.index \in 0..n
    PROVE  Latest(S) \in S
  <1> DEFINE T == {n - k.index : k \in S}
  <1>1. T \in SUBSET Nat /\ T # {}
    OBVIOUS
  <1>2. PICK m \in T : \A x \in T : m <= x
    BY <1>1, LeastNatural
  <1>3. PICK k \in S : m = n - k.index
    BY <1>2
  <1>4. \A j \in S : j.index <= k.index
    BY <1>2, <1>3
  <1> QED BY <1>4 DEF Latest

(* What the exit of an executor says of success, and never of a            *)
(* cancellation.                                                           *)
LEMMA BoundedGood ==
    ASSUME NEW e, e.code \in {None, "signal", "bad", "overflow", "ok"}
    PROVE  LET r == RunBounded(e)
           IN  /\ r.disposition = "succeeded" \/ r.reason = "worker.brick.invalid-report" => e.code = "ok"
               /\ r.reason # "cancel-observed"
  BY DEF RunBounded, ParseReport, Failed, Unknown, Succeeded, Result

(* A GPU report that did not raise scores a checkpoint of this run.        *)
LEMMA ScoredIsNew ==
    ASSUME NEW n \in Nat, \A k \in host.out.checkpoints : k.index \in 0..n, NEW baseline, BaselineKept(baseline), NEW source,
           CudaTrainingReport(host.out, baseline, source).status # "raised"
    PROVE  CudaTrainingReport(host.out, baseline, source).checkpoint.by = "run"
  <1> DEFINE out == host.out
             scored == ThisRunCheckpoints(out, baseline)
             from == HostCheckpoint(out, source)
             report == CudaTrainingReport(out, baseline, source)
             new == [status |-> "ok", checkpoint |-> Latest(scored), updated |-> ParametersUpdated(scored, from)]
  <1>1. \A code : Raised(code).status = "raised"
    BY DEF Raised
  <1>2. scored \subseteq out.checkpoints /\ \A k \in scored : k.by = "run"
    BY DEF ThisRunCheckpoints, CheckpointDirs, BaselineKept
  <1>3. report = new /\ scored # {}
    <2> HIDE DEF scored, from, new
    <2>1. \/ CheckpointDirs(out) = {} /\ report = Raised("gpu-checkpoint-missing")
          \/ CheckpointDirs(out) # {} /\ scored = {} /\ report = Raised("gpu-checkpoint-stale")
          \/ scored # {} /\ \/ report = Raised("gpu-checkpoint-missing") \/ report = Raised("gpu-loss-invalid")
                            \/ report = Raised("gpu-parameters-unchanged") \/ report = new
      <3>1. CheckpointDirs(out) = {} => scored = {}
        BY DEF scored, ThisRunCheckpoints
      <3> QED BY <3>1 DEF CudaTrainingReport, scored, from, new
    <2> QED BY <1>1, <2>1
  <1>4. Latest(scored) \in scored
    BY <1>2, <1>3, LatestIsOne
  <1>5. report.checkpoint = Latest(scored)
    BY <1>3
  <1> QED BY <1>2, <1>4, <1>5

(* The result a process has once its executor ended.                       *)
LEMMA FinishedGood ==
    ASSUME NEW n \in Nat, \A k \in host.out.checkpoints : k.index \in 0..n, NEW baseline, BaselineKept(baseline),
           ExecutorOK(ex), Finished(ex, baseline) # None
    PROVE  LET r == Finished(ex, baseline)
           IN  /\ r.disposition = "succeeded" =>
                     ex.code = "ok" /\ (job.runtime = "gpu-oci" => r.report.checkpoint.by = "run")
               /\ r.reason # "cancel-observed"
  <1>1. ex.code \in {None, "signal", "bad", "overflow", "ok"}
    BY DEF ExecutorOK
  <1>2. CASE job.runtime = "gpu-oci"
    <2> DEFINE r == RunBounded(ex)
               report == CudaTrainingReport(host.out, baseline, job.source)
               full == [status |-> "ok", checkpoint |-> report.checkpoint, updated |-> report.updated,
                        restore |-> RestoreStatus(host.out, job.resume, baseline, job.source, report)]
    <2>1. Finished(ex, baseline) = RunGpuTraining(ex, baseline)
      BY <1>2 DEF Finished
    <2>2. /\ r.disposition = "succeeded" \/ r.reason = "worker.brick.invalid-report" => ex.code = "ok"
          /\ r.reason # "cancel-observed"
      BY <1>1, BoundedGood
    <2>3. CASE r.disposition = "succeeded" \/ r.reason = "worker.brick.invalid-report"
      <3>1. report.status # "raised" /\ RunGpuTraining(ex, baseline) = Succeeded(full)
        BY <2>1, <2>3 DEF RunGpuTraining
      <3>2. report.checkpoint.by = "run"
        BY <3>1, ScoredIsNew
      <3>3. full.checkpoint = report.checkpoint
        OBVIOUS
      <3> HIDE DEF report, full
      <3>4. Succeeded(full).report = full /\ Succeeded(full).reason = "ok"
        BY DEF Succeeded, Result
      <3> QED BY <2>1, <2>2, <2>3, <3>1, <3>2, <3>3, <3>4
    <2>4. CASE ~(r.disposition = "succeeded" \/ r.reason = "worker.brick.invalid-report")
      <3>1. RunGpuTraining(ex, baseline) = r
        BY <2>4 DEF RunGpuTraining
      <3> HIDE DEF r
      <3> QED BY <2>1, <2>2, <2>4, <3>1
    <2> QED BY <2>3, <2>4
  <1>3. CASE job.runtime = "macos-mps"
    <2>1. Finished(ex, baseline) = ExecuteMpsTraining(ex)
      BY <1>3 DEF Finished
    <2>2. \/ ExecuteMpsTraining(ex) = Unknown("worker.process.lost") \/ ExecuteMpsTraining(ex) = Failed("worker.brick.failed")
          \/ ex.code = "ok" /\ ExecuteMpsTraining(ex) = Succeeded(MpsTrainingReport(host.out))
      <3> DEFINE bad == "raised" \in {MpsTrainingReport(host.out).status, ListTree(host.out).status}
                 report == MpsTrainingReport(host.out)
      <3>1. ExecuteMpsTraining(ex) =
              CASE ex.code \in {None, "signal"} -> Unknown("worker.process.lost")
                [] ex.code = "bad" -> Failed("worker.brick.failed")
                [] OTHER -> IF bad THEN None ELSE Succeeded(report)
        BY DEF ExecuteMpsTraining
      <3> HIDE DEF bad, report
      <3>2. CASE ex.code \in {None, "signal", "bad"}
        BY <3>1, <3>2
      <3>3. CASE ex.code \notin {None, "signal", "bad"}
        <4>1. ExecuteMpsTraining(ex) = IF bad THEN None ELSE Succeeded(report)
          BY <3>1, <3>3
        <4>2. ex.code = "ok"
          BY <1>1, <1>3, <3>3 DEF ExecutorOK
        <4> QED BY <2>1, <4>1, <4>2 DEF report
      <3> QED BY <3>2, <3>3
    <2>3. \A x : Succeeded(x).reason = "ok"
      BY DEF Succeeded, Result
    <2>4. /\ Unknown("worker.process.lost").disposition = "unknown" /\ Unknown("worker.process.lost").reason = "worker.process.lost"
          /\ Failed("worker.brick.failed").disposition = "failed" /\ Failed("worker.brick.failed").reason = "worker.brick.failed"
      BY DEF Unknown, Failed, Result
    <2> QED BY <1>3, <2>1, <2>2, <2>3, <2>4
  <1>4. CASE job.runtime \notin {"gpu-oci", "macos-mps"}
    <2>1. Finished(ex, baseline) = RunBounded(ex)
      BY <1>4 DEF Finished
    <2> QED BY <1>1, <1>4, <2>1, BoundedGood
  <1> QED BY <1>2, <1>3, <1>4

-----------------------------------------------------------------------------
(* Steps of a process.  A process that does nothing claims nothing.        *)
LEMMA IdleShape ==
    Rec(IdleClient, ClientFields) /\ IdleClient.pc = "idle" /\ IdleClient.id = None
  BY DEF IdleClient, Rec, ClientFields

(* Going somewhere keeps what is known.                                    *)
LEMMA GoShape ==
    ASSUME ClientsShaped, NEW c \in Clients, NEW pc
    PROVE  LET g == Go(c, pc)
           IN  /\ Rec(g, ClientFields) /\ g.pc = pc /\ g.id = cl[c].id /\ g.baseline = cl[c].baseline
               /\ g.result = cl[c].result /\ g.reason = cl[c].reason
  BY DEF Go, ClientsShaped, Rec, ClientFields

(* Having a result.                                                        *)
LEMMA WithShape ==
    ASSUME ClientsShaped, NEW c \in Clients, NEW result
    PROVE  LET g == With(c, result)
           IN  Rec(g, ClientFields) /\ g.pc = "settle" /\ g.id = cl[c].id /\ g.result = result
  BY DEF With, Go, ClientsShaped, Rec, ClientFields

(* Trying again changes nothing but the count.                             *)
LEMMA AgainShape ==
    ASSUME ClientsShaped, NEW c \in Clients
    PROVE  LET g == [cl[c] EXCEPT !.tries = @ - 1]
           IN  /\ Rec(g, ClientFields) /\ g.pc = cl[c].pc /\ g.id = cl[c].id /\ g.baseline = cl[c].baseline
               /\ g.result = cl[c].result /\ g.reason = cl[c].reason
  BY DEF ClientsShaped, Rec, ClientFields

(* A step is one process's.                                                *)
LEMMA Stepped ==
    ASSUME ClientsShaped, NEW c \in Clients, NEW new, Rec(new, ClientFields), Step(c, new)
    PROVE  ClientsShaped' /\ cl'[c] = new /\ \A q \in Clients \ {c} : cl'[q] = cl[q]
  <1>1. cl' = [q \in Clients |-> IF q = c THEN new ELSE cl[q]]
    BY DEF ClientsShaped, Step
  <1>2. cl'[c] = new /\ \A q \in Clients \ {c} : cl'[q] = cl[q]
    BY <1>1
  <1>3. cl' = [q \in Clients |-> cl'[q]]
    BY <1>1
  <1> QED BY <1>2, <1>3 DEF ClientsShaped

(* Raising leaves it idle.                                                 *)
LEMMA RaiseSteps ==
    ASSUME ClientsShaped, NEW c \in Clients, Raise(c)
    PROVE  ClientsShaped' /\ cl'[c] = IdleClient /\ \A q \in Clients \ {c} : cl'[q] = cl[q]
  BY IdleShape, Stepped DEF Raise

(* Nothing else claimed, nothing of the executor, the lease or the         *)
(* checkpoints taken back.                                                 *)
Steady ==
    /\ job' = job /\ Keeps(ex, ex')
    /\ srv'.lease \in Unclaimed => srv.lease \in Unclaimed
    /\ \A b : BaselineKept(b) => BaselineKept(b)'

Alike(r, s) == r.pc = s.pc /\ r.id = s.id /\ r.baseline = s.baseline /\ r.result = s.result /\ r.reason = s.reason

(* What a process knows stays true while others work.                      *)
LEMMA ClientFrame ==
    ASSUME Steady, NEW q \in Clients, ClientOK(q), Alike(cl'[q], cl[q]) \/ cl'[q] = IdleClient
    PROVE  ClientOK(q)'
  <1>1. CASE Alike(cl'[q], cl[q])
    <2>0. job' = job /\ ex'.starts = ex.starts
      BY DEF Steady, Keeps
    <2>1. /\ \A x : Good(x) => Good(x)'
          /\ Gone => Gone'
          /\ \A id : IsId(id) => IsId(id)'
      BY KeepsFacts DEF Steady
    <2>2. \A b : BaselineKept(b) => BaselineKept(b)'
      BY DEF Steady
    <2>3. srv'.lease \in Unclaimed => srv.lease \in Unclaimed
      BY DEF Steady
    <2>4. ex'.stranger = "runs" /\ cl[q].pc \in Signalling => ex'.raced \/ ex.stranger = "runs"
      BY DEF Steady, Keeps
    <2>5. ex.stranger = "runs" /\ ex.raced => ex'.raced
      BY DEF Steady, Keeps
    <2>6. /\ cl'[q].pc = cl[q].pc /\ cl'[q].id = cl[q].id /\ Kind' = Kind
          /\ ex'.stranger = "runs" /\ cl[q].pc \in {"term", "termed", "kill"} =>
                ex'.raced \/ (cl[q].pc \in Signalling /\ ex.stranger = "runs")
      BY <1>1, <2>0, <2>4 DEF Alike, Kind, Signalling
    <2> HIDE DEF Signalling
    <2>7. cl'[q].pc \in {"term", "termed", "kill", "killed"} =>
             /\ cl'[q].id # None /\ Kind' = "posix"
             /\ ex'.stranger = "runs" => ~job'.token \/ ex'.raced \/ cl'[q].pc = "killed"
      BY <2>0, <2>5, <2>6 DEF ClientOK
    <2> QED BY <1>1, <2>0, <2>1, <2>2, <2>3, <2>7 DEF ClientOK, Alike
  <1>2. CASE cl'[q] = IdleClient
    BY <1>2, IdleShape DEF ClientOK, Executing, Reporting
  <1> QED BY <1>1, <1>2

(* A step of a process of a lease.                                         *)
LEMMA LeaseStep ==
    ASSUME ClientInv, Steady, NEW c \in Clients, job.runtime # "native-process", ServerOK(srv)', HostOK(host)',
           \A q \in Clients \ {c} : cl'[q] = cl[q], ClientOK(c)',
           cl'[c].pc \in Executing => cl[c].pc \in Executing \/ srv.lease \in Unclaimed
    PROVE  ClientInv'
  <1>1. \A q \in Clients : ClientOK(q)'
    BY ClientFrame DEF ClientInv, Alike
  <1>2. job' = job
    BY DEF Steady
  <1>3. \A q \in Clients : NativeOK(q)'
    <2>1. ASSUME NEW q \in Clients PROVE cl'[q].pc \notin {"helper", "native"}
      <3>1. ClientOK(q)'
        BY <1>1
      <3> QED BY <1>2, <3>1 DEF ClientOK
    <2> QED BY <2>1 DEF NativeOK
  <1>4. OneClaim'
    <2>1. \A q \in Clients \ {c} : cl'[q].pc \in Executing => cl[q].pc \in Executing /\ srv.lease \notin Unclaimed
      BY DEF ClientInv, ClientOK
    <2> QED BY <2>1 DEF ClientInv, OneClaim
  <1>5. ExecutorOK(ex)'
    BY KeepsFacts DEF Steady, ClientInv
  <1> QED BY <1>1, <1>3, <1>4, <1>5 DEF ClientInv

(* A step that sets no process to work.                                    *)
LEMMA Undisturbed ==
    ASSUME ClientInv, Steady, ServerOK(srv)', HostOK(host)', host'.receipt = host.receipt,
           \A q \in Clients : cl'[q] = cl[q] \/ cl'[q] = IdleClient
    PROVE  ClientInv'
  <1>1. \A q \in Clients : ClientOK(q)'
    BY ClientFrame DEF ClientInv, Alike
  <1>2. \A q \in Clients : NativeOK(q)'
    BY IdleShape DEF ClientInv, NativeOK, Steady, Keeps
  <1>3. OneClaim'
    BY IdleShape DEF ClientInv, OneClaim, Executing
  <1>4. ExecutorOK(ex)'
    BY KeepsFacts DEF Steady, ClientInv
  <1> QED BY <1>1, <1>2, <1>3, <1>4 DEF ClientInv

(* What the controller and the disk hold stays true of the executor.       *)
LEMMA HeldFrame ==
    ASSUME job' = job, Keeps(ex, ex')
    PROVE  (\A s : ServerOK(s) => ServerOK(s)') /\ (\A h : HostOK(h) => HostOK(h)')
  <1>1. /\ \A x : Good(x) => Good(x)'
        /\ Gone => Gone'
        /\ \A id : IsId(id) => IsId(id)'
        /\ ~UserCodeRuns(ex) => ~UserCodeRuns(ex)'
    BY KeepsFacts
  <1>2. ex'.starts = ex.starts /\ ex'.members \subseteq ex.members /\ ("leader" \notin ex.members => ex'.code = ex.code)
    BY DEF Keeps
  <1>3. ASSUME NEW s, ServerOK(s) PROVE ServerOK(s)'
    BY <1>1, <1>2, <1>3 DEF ServerOK
  <1>4. ASSUME NEW h, HostOK(h) PROVE HostOK(h)'
    BY <1>1, <1>2, <1>4 DEF HostOK
  <1> QED BY <1>3, <1>4

(* The same of a step that leaves them alone.                              *)
LEMMA HeldSame ==
    ASSUME ClientInv, job' = job, Keeps(ex, ex')
    PROVE  (srv' = srv => ServerOK(srv)') /\ (host' = host => HostOK(host)')
  <1>1. /\ \A x : Good(x) => Good(x)'
        /\ Gone => Gone'
        /\ \A id : IsId(id) => IsId(id)'
        /\ ~UserCodeRuns(ex) => ~UserCodeRuns(ex)'
    BY KeepsFacts
  <1>2. ex'.starts = ex.starts /\ ex'.members \subseteq ex.members /\ ("leader" \notin ex.members => ex'.code = ex.code)
    BY DEF Keeps
  <1>3. ASSUME srv' = srv PROVE ServerOK(srv)'
    BY <1>1, <1>2, <1>3 DEF ClientInv, ServerOK
  <1>4. ASSUME host' = host PROVE HostOK(host)'
    BY <1>1, <1>2, <1>4 DEF ClientInv, HostOK
  <1> QED BY <1>3, <1>4

(* A step that leaves the executor and the checkpoints alone.              *)
LEMMA SteadyWhile ==
    ASSUME Shaped, job' = job, ex' = ex, host'.out = host.out, srv'.lease \in Unclaimed => srv.lease \in Unclaimed
    PROVE  Steady
  <1>1. Keeps(ex, ex')
    BY KillKeeps DEF Shaped
  <1> QED BY <1>1 DEF Steady, BaselineKept

(* What is known before a step.                                            *)
LEMMA Known ==
    ASSUME Shaped, ClientInv, NEW c \in Clients
    PROVE  /\ ClientsShaped /\ Rec(cl[c], ClientFields) /\ Rec(ex, ExFields) /\ Rec(srv, SrvFields) /\ Rec(host, HostFields)
           /\ Rec(host.out, OutFields) /\ ex.cid \in BOOLEAN /\ job.token \in BOOLEAN
           /\ ClientOK(c) /\ NativeOK(c) /\ ServerOK(srv) /\ HostOK(host) /\ ExecutorOK(ex)
           /\ job.runtime \in LeaseRuntimes \cup {"native-process"}
           /\ job.differs \subseteq IF job.runtime = "native-process" THEN NativeFacets ELSE Facets(job.runtime)
           /\ Len(job.writes) \in Nat /\ \A i \in 1..Len(job.writes) : job.writes[i].by = "run"
  <1>1. PICK w \in Workloads : job = w.job
    BY DEF Shaped
  <1>2. /\ job.token \in BOOLEAN /\ job.runtime \in LeaseRuntimes \cup {"native-process"}
        /\ job.differs \subseteq IF job.runtime = "native-process" THEN NativeFacets ELSE Facets(job.runtime)
        /\ Len(job.writes) \in Nat /\ \A i \in 1..Len(job.writes) : job.writes[i].by = "run"
    BY <1>1, WorkloadsAssumption DEF LeaseRuntimes
  <1> QED BY <1>2 DEF Shaped, ClientsShaped, ClientInv

-----------------------------------------------------------------------------
(* Calls.  A call is answered, sent again, or given up.                    *)
LEMMA Exchanged ==
    ASSUME ClientsShaped, NEW c \in Clients, NEW answer, NEW then, NEW lost, Rec(then, ClientFields), Rec(lost, ClientFields),
           Exchange(c, answer, then, lost)
    PROVE  /\ ClientsShaped' /\ srv' \in {srv, answer.srv} /\ \A q \in Clients \ {c} : cl'[q] = cl[q]
           /\ (srv' = answer.srv /\ cl'[c] = then) \/ Alike(cl'[c], cl[c]) \/ cl'[c] = lost
  <1> DEFINE again == [cl[c] EXCEPT !.tries = @ - 1]
  <1>1. Rec(again, ClientFields) /\ Alike(again, cl[c])
    BY AgainShape DEF Alike
  <1>2. \/ srv' = answer.srv /\ Step(c, then)
        \/ srv' \in {srv, answer.srv} /\ (Step(c, again) \/ Step(c, lost))
    BY DEF Exchange
  <1> HIDE DEF again
  <1> QED BY <1>1, <1>2, Stepped

(* The poll is the only one that may claim the lease.                      *)
LEMMA PollHolds ==
    ASSUME Shaped, ClientInv, NEW c \in Clients, Poll(c)
    PROVE  Shaped' /\ ClientInv'
  <1> DEFINE answer == PollAt(srv)
             claimed == [srv EXCEPT !.lease = "active"]
             polled == Polled(c, answer.status)
  <1>k. ClientsShaped /\ Rec(srv, SrvFields) /\ ClientOK(c) /\ ServerOK(srv)
    BY Known
  <1>0. cl[c].pc = "poll" /\ job.runtime # "native-process" /\ UNCHANGED <<job, host, ex>>
    BY <1>k DEF Poll, At, ClientOK
  <1>1. \/ answer.status = "fresh" /\ srv.live /\ srv.lease \in Unclaimed /\ answer.srv = claimed
        \/ answer.status # "fresh" /\ answer.srv = srv
    BY DEF PollAt, Answer, Unclaimed
  <1>2. /\ Rec(polled, ClientFields) /\ polled.id \in {None, cl[c].id} /\ polled.pc \in {"idle", "fetch", "resume"}
        /\ polled.pc = "fetch" => answer.status = "fresh"
    <2>1. CASE answer.status = "fresh"
      BY <1>k, <2>1, GoShape, IdleShape DEF Polled
    <2>2. CASE answer.status = "resumed"
      BY <1>k, <2>2, GoShape DEF Polled, Rec, ClientFields
    <2>3. CASE answer.status \notin {"fresh", "resumed"}
      BY <2>3, IdleShape DEF Polled
    <2> QED BY <2>1, <2>2, <2>3
  <1>3. Exchange(c, answer, polled, IdleClient)
    BY DEF Poll
  <1> HIDE DEF answer, polled
  <1>7. /\ ClientsShaped' /\ srv' \in {srv, answer.srv} /\ \A q \in Clients \ {c} : cl'[q] = cl[q]
        /\ (srv' = answer.srv /\ cl'[c] = polled) \/ Alike(cl'[c], cl[c]) \/ cl'[c] = IdleClient
    BY <1>k, <1>2, <1>3, Exchanged, IdleShape
  <1>4. /\ claimed.lease = "active" /\ claimed.live = srv.live /\ claimed.reason = srv.reason /\ Rec(claimed, SrvFields)
    BY <1>k DEF Rec, SrvFields
  <1> HIDE DEF claimed
  <1>5. srv' = srv \/ (srv' = claimed /\ srv.live /\ srv.lease \in Unclaimed)
    BY <1>1, <1>7
  <1>6. Rec(srv', SrvFields) /\ (srv'.lease \in Unclaimed => srv.lease \in Unclaimed)
    BY <1>k, <1>4, <1>5 DEF Unclaimed
  <1>8. Steady
    BY <1>0, <1>6, SteadyWhile
  <1>9. ServerOK(srv)' /\ HostOK(host)'
    <2>1. CASE srv' = srv
      BY <1>0, <1>8, <2>1, HeldSame DEF Steady
    <2>2. CASE srv' = claimed
      BY <1>0, <1>k, <1>4, <1>8, <2>2, HeldSame DEF ServerOK, Steady, Unclaimed, Gone, UserCodeRuns
    <2> QED BY <1>5, <2>1, <2>2
  <1>10. ClientOK(c)' /\ (cl'[c].pc \in Executing => srv.lease \in Unclaimed)
    <2>1. CASE Alike(cl'[c], cl[c]) \/ cl'[c] = IdleClient
      BY <1>0, <1>8, <1>k, <2>1, ClientFrame, IdleShape DEF Alike, Executing
    <2>2. CASE cl'[c] = polled /\ polled.pc # "fetch"
      BY <1>0, <1>2, <1>k, <2>2 DEF ClientOK, Executing, Reporting, IsId, Kind
    <2>3. CASE cl'[c] = polled /\ polled.pc = "fetch" /\ srv' = answer.srv
      <3>1. srv' = claimed /\ srv.live /\ srv.lease \in Unclaimed
        BY <1>1, <1>2, <2>3
      <3>2. ex.starts = 0 /\ Granted(job.differs)
        BY <1>0, <1>k, <3>1 DEF ServerOK
      <3> QED BY <1>0, <1>2, <1>4, <1>k, <2>3, <3>1, <3>2 DEF ClientOK, Executing, Reporting, IsId, Kind, Unclaimed
    <2> QED BY <1>7, <2>1, <2>2, <2>3
  <1>11. Shaped'
    BY <1>0, <1>6, <1>7 DEF Shaped
  <1> QED BY <1>0, <1>7, <1>8, <1>9, <1>10, <1>11, LeaseStep

(* An image is fetched.                                                    *)
LEMMA FetchHolds ==
    ASSUME Shaped, ClientInv, NEW c \in Clients, FetchImage(c)
    PROVE  Shaped' /\ ClientInv'
  <1>k. ClientsShaped /\ ClientOK(c) /\ ServerOK(srv)
    BY Known
  <1>0. cl[c].pc = "fetch" /\ job.runtime # "native-process" /\ UNCHANGED <<job, host, ex>>
    BY <1>k DEF FetchImage, At, ClientOK, Executing
  <1>1. GetAt(srv).srv = srv
    BY DEF GetAt, Answer
  <1>g. LET g == Go(c, "launch") IN Rec(g, ClientFields) /\ g.pc = "launch" /\ g.id = cl[c].id
    BY <1>k, GoShape
  <1>2. /\ ClientsShaped' /\ srv' = srv /\ \A q \in Clients \ {c} : cl'[q] = cl[q]
        /\ cl'[c] = Go(c, "launch") \/ Alike(cl'[c], cl[c]) \/ cl'[c] = IdleClient
    <2>1. CASE Step(c, Go(c, "launch")) /\ UNCHANGED <<srv, env>>
      BY <1>g, <1>k, <2>1, Stepped
    <2>2. CASE Exchange(c, GetAt(srv), IF GetAt(srv).status = "ok" THEN Go(c, "launch") ELSE IdleClient, IdleClient)
      BY <1>1, <1>g, <1>k, <2>2, Exchanged, IdleShape
    <2> QED BY <2>1, <2>2 DEF FetchImage
  <1>3. Steady
    BY <1>0, <1>2, SteadyWhile
  <1>4. ServerOK(srv)' /\ HostOK(host)'
    BY <1>0, <1>2, <1>3, HeldSame DEF Steady
  <1>5. ClientOK(c)'
    <2>1. CASE cl'[c] = Go(c, "launch")
      BY <1>0, <1>2, <1>g, <1>k, <2>1 DEF ClientOK, Executing, Reporting, IsId, Kind
    <2> QED BY <1>2, <1>3, <1>k, <2>1, ClientFrame
  <1>6. Shaped'
    BY <1>0, <1>2 DEF Shaped
  <1> QED BY <1>0, <1>2, <1>3, <1>4, <1>5, <1>6, LeaseStep DEF Executing

(* A report is uploaded.                                                   *)
LEMMA UploadHolds ==
    ASSUME Shaped, ClientInv, NEW c \in Clients, PutArtifact(c)
    PROVE  Shaped' /\ ClientInv'
  <1> DEFINE report == cl[c].result.report
             held == [srv EXCEPT !.cas = @ \cup {report}]
  <1>k. ClientsShaped /\ Rec(srv, SrvFields) /\ ClientOK(c) /\ ServerOK(srv)
    BY Known
  <1>0. cl[c].pc = "upload" /\ job.runtime # "native-process" /\ UNCHANGED <<job, host, ex>>
    BY <1>k DEF PutArtifact, At, ClientOK
  <1>1. PutAt(srv, report).srv = held
    BY DEF PutAt, Answer
  <1>2. /\ Rec(held, SrvFields) /\ held.lease = srv.lease /\ held.live = srv.live /\ held.reason = srv.reason
        /\ held.result = srv.result /\ held.artifact = srv.artifact /\ srv.cas \subseteq held.cas
    BY <1>k DEF Rec, SrvFields
  <1>g. LET g == Go(c, "pending") IN Rec(g, ClientFields) /\ g.pc = "pending" /\ g.id = cl[c].id /\ g.result = cl[c].result
    BY <1>k, GoShape
  <1>3. Exchange(c, PutAt(srv, report), Go(c, "pending"), IdleClient)
    BY DEF PutArtifact
  <1> HIDE DEF held, report
  <1>4. /\ ClientsShaped' /\ srv' \in {srv, held} /\ \A q \in Clients \ {c} : cl'[q] = cl[q]
        /\ cl'[c] = Go(c, "pending") \/ Alike(cl'[c], cl[c]) \/ cl'[c] = IdleClient
    BY <1>1, <1>3, <1>g, <1>k, Exchanged, IdleShape
  <1>5. Steady
    BY <1>0, <1>2, <1>4, SteadyWhile
  <1>6. ServerOK(srv)' /\ HostOK(host)'
    <2>1. CASE srv' = srv
      BY <1>0, <1>5, <2>1, HeldSame DEF Steady
    <2>2. CASE srv' = held
      BY <1>0, <1>2, <1>5, <1>k, <2>2, HeldSame DEF Steady, ServerOK, Good, Gone, UserCodeRuns
    <2> QED BY <1>4, <2>1, <2>2
  <1>7. ClientOK(c)' /\ cl'[c].pc \notin Executing
    <2>1. CASE cl'[c] = Go(c, "pending")
      BY <1>0, <1>4, <1>g, <1>k, <2>1 DEF ClientOK, Executing, Reporting, IsId, Kind, Good
    <2> QED BY <1>0, <1>4, <1>5, <1>k, <2>1, ClientFrame, IdleShape DEF Alike, Executing
  <1>8. Shaped'
    BY <1>0, <1>2, <1>4, <1>k DEF Shaped
  <1> QED BY <1>0, <1>4, <1>5, <1>6, <1>7, <1>8, LeaseStep

(* A completion is recorded once, with bytes the controller holds.         *)
LEMMA CompleteHolds ==
    ASSUME Shaped, ClientInv, NEW c \in Clients, Complete(c)
    PROVE  Shaped' /\ ClientInv'
  <1> DEFINE report == cl[c].result.report
             answer == CompleteAt(srv, report, report)
             done == [srv EXCEPT !.lease = "completed", !.result = report, !.artifact = report]
             then == IF answer.status = "ok" THEN Go(c, "drop") ELSE IdleClient
  <1>k. ClientsShaped /\ Rec(srv, SrvFields) /\ ClientOK(c) /\ ServerOK(srv)
    BY Known
  <1>0. cl[c].pc = "complete" /\ job.runtime # "native-process" /\ UNCHANGED <<job, host, ex>>
    BY <1>k DEF Complete, At, ClientOK
  <1>1. Good(report)
    BY <1>0, <1>k DEF ClientOK, Reporting
  <1>2. answer.srv = srv \/ (answer.srv = done /\ srv.lease = "active" /\ report \in srv.cas)
    BY DEF CompleteAt, Answer
  <1>3. /\ Rec(done, SrvFields) /\ done.lease = "completed" /\ done.live = srv.live /\ done.reason = srv.reason
        /\ done.result = report /\ done.artifact = report /\ done.cas = srv.cas
    BY <1>k DEF Rec, SrvFields
  <1>g. LET g == Go(c, "drop") IN Rec(g, ClientFields) /\ g.pc = "drop" /\ g.id = cl[c].id
    BY <1>k, GoShape
  <1>4. Exchange(c, answer, then, IdleClient)
    BY DEF Complete
  <1>t. Rec(then, ClientFields) /\ then \in {Go(c, "drop"), IdleClient}
    BY <1>g, IdleShape
  <1> HIDE DEF answer, done, report, then
  <1>5. /\ ClientsShaped' /\ srv' \in {srv, answer.srv} /\ \A q \in Clients \ {c} : cl'[q] = cl[q]
        /\ cl'[c] = Go(c, "drop") \/ Alike(cl'[c], cl[c]) \/ cl'[c] = IdleClient
    BY <1>4, <1>k, <1>t, Exchanged, IdleShape
  <1>6. srv' = srv \/ (srv' = done /\ srv.lease = "active" /\ report \in srv.cas)
    BY <1>2, <1>5
  <1>7. Steady
    BY <1>0, <1>3, <1>6, SteadyWhile DEF Unclaimed
  <1>8. ServerOK(srv)' /\ HostOK(host)'
    <2>1. CASE srv' = srv
      BY <1>0, <1>7, <2>1, HeldSame DEF Steady
    <2>2. CASE srv' = done /\ report \in srv.cas
      BY <1>0, <1>1, <1>3, <1>7, <1>k, <2>2, HeldSame DEF Steady, ServerOK, Good, Gone, UserCodeRuns, Unclaimed
    <2> QED BY <1>6, <2>1, <2>2
  <1>9. ClientOK(c)' /\ cl'[c].pc \notin Executing
    <2>1. CASE cl'[c] = Go(c, "drop")
      BY <1>0, <1>g, <1>k, <2>1 DEF ClientOK, Executing, Reporting, IsId, Kind
    <2> QED BY <1>0, <1>5, <1>7, <1>k, <2>1, ClientFrame, IdleShape DEF Alike, Executing
  <1>10. Shaped'
    BY <1>0, <1>3, <1>5, <1>6, <1>k DEF Shaped
  <1> QED BY <1>0, <1>5, <1>7, <1>8, <1>9, <1>10, LeaseStep

(* A failure is recorded with the reason the process has.                  *)
LEMMA FailHolds ==
    ASSUME Shaped, ClientInv, NEW c \in Clients, Fail(c)
    PROVE  Shaped' /\ ClientInv'
  <1> DEFINE reason == cl[c].reason
             answer == FailAt(srv, reason)
             failed == [srv EXCEPT !.lease = "failed", !.reason = reason]
  <1>k. ClientsShaped /\ Rec(srv, SrvFields) /\ ClientOK(c) /\ ServerOK(srv)
    BY Known
  <1>0. cl[c].pc = "fail" /\ job.runtime # "native-process" /\ UNCHANGED <<job, host, ex>>
    BY <1>k DEF Fail, At, ClientOK
  <1>1. reason = "cancel-observed" => Gone
    BY <1>0, <1>k DEF ClientOK
  <1>2. answer.srv = srv \/ answer.srv = failed
    BY DEF FailAt, Answer
  <1>3. Rec(failed, SrvFields) /\ failed.lease = "failed" /\ failed.live = srv.live /\ failed.reason = reason
    BY <1>k DEF Rec, SrvFields
  <1>g. LET g == Go(c, "drop") IN Rec(g, ClientFields) /\ g.pc = "drop" /\ g.id = cl[c].id
    BY <1>k, GoShape
  <1>4. Exchange(c, answer, Go(c, "drop"), Go(c, "drop"))
    BY DEF Fail
  <1> HIDE DEF answer, failed, reason
  <1>5. /\ ClientsShaped' /\ srv' \in {srv, answer.srv} /\ \A q \in Clients \ {c} : cl'[q] = cl[q]
        /\ cl'[c] = Go(c, "drop") \/ Alike(cl'[c], cl[c])
    BY <1>4, <1>g, <1>k, Exchanged
  <1>6. srv' = srv \/ srv' = failed
    BY <1>2, <1>5
  <1>7. Steady
    BY <1>0, <1>3, <1>6, SteadyWhile DEF Unclaimed
  <1>8. ServerOK(srv)' /\ HostOK(host)'
    <2>1. CASE srv' = srv
      BY <1>0, <1>7, <2>1, HeldSame DEF Steady
    <2>2. CASE srv' = failed
      BY <1>0, <1>1, <1>3, <1>7, <1>k, <2>2, HeldSame DEF Steady, ServerOK, Gone, UserCodeRuns, Unclaimed
    <2> QED BY <1>6, <2>1, <2>2
  <1>9. ClientOK(c)' /\ cl'[c].pc \notin Executing
    <2>1. CASE cl'[c] = Go(c, "drop")
      BY <1>0, <1>g, <1>k, <2>1 DEF ClientOK, Executing, Reporting, IsId, Kind
    <2> QED BY <1>0, <1>5, <1>7, <1>k, <2>1, ClientFrame DEF Alike, Executing
  <1>10. Shaped'
    BY <1>0, <1>3, <1>5, <1>6, <1>k DEF Shaped
  <1> QED BY <1>0, <1>5, <1>7, <1>8, <1>9, <1>10, LeaseStep

-----------------------------------------------------------------------------
(* Steps without a call.  A step of one process of a lease that leaves the *)
(* controller alone and takes back neither a checkpoint nor the executor.  *)
LEMMA LocalStep ==
    ASSUME Shaped, ClientInv, NEW c \in Clients, job.runtime # "native-process", UNCHANGED <<job, srv>>, Keeps(ex, ex'),
           host'.out = host.out, Rec(host', HostFields), HostOK(host)', NEW new, Rec(new, ClientFields), Step(c, new),
           ClientOK(c)', new.pc \in Executing => cl[c].pc \in Executing
    PROVE  Shaped' /\ ClientInv'
  <1>1. ClientsShaped' /\ cl'[c] = new /\ \A q \in Clients \ {c} : cl'[q] = cl[q]
    BY Stepped DEF Shaped
  <1>2. Steady
    BY DEF Steady, BaselineKept
  <1>3. ServerOK(srv)'
    BY HeldSame
  <1>4. Shaped'
    BY <1>1 DEF Shaped, Keeps
  <1> QED BY <1>1, <1>2, <1>3, <1>4, LeaseStep

(* A new run_once has claimed nothing yet.                                 *)
LEMMA BeginHolds ==
    ASSUME Shaped, ClientInv, NEW c \in Clients, Begin(c)
    PROVE  Shaped' /\ ClientInv'
  <1> DEFINE new == IF PreflightOK(job.runtime, job.dirs, job.differs) THEN Go(c, "poll") ELSE IdleClient
  <1>k. ClientsShaped /\ ClientOK(c) /\ HostOK(host) /\ Rec(host, HostFields) /\ Rec(ex, ExFields) /\ ex.cid \in BOOLEAN
    BY Known
  <1>0. job.runtime # "native-process" /\ UNCHANGED <<job, srv, host, ex>> /\ Step(c, new)
    BY DEF Begin
  <1>1. Rec(new, ClientFields) /\ new.pc \in {"poll", "idle"} /\ new.id \in {None, cl[c].id}
    BY <1>k, GoShape, IdleShape
  <1> HIDE DEF new
  <1>2. Keeps(ex, ex')
    BY <1>0, <1>k, KillKeeps
  <1>3. HostOK(host)'
    BY <1>0, <1>2, HeldSame
  <1>4. cl'[c] = new
    BY <1>0, <1>1, <1>k, Stepped
  <1>5. ClientOK(c)' /\ new.pc \notin Executing
    BY <1>0, <1>1, <1>4, <1>k DEF ClientOK, Executing, Reporting, IsId, Kind
  <1> QED BY <1>0, <1>1, <1>2, <1>3, <1>5, <1>k, LocalStep

(* An executor that is left alone is kept.                                 *)
LEMMA KeptWhole ==
    ASSUME Shaped, ex' = ex
    PROVE  Keeps(ex, ex')
  BY KillKeeps DEF Shaped

(* A cancel is seen.                                                       *)
LEMMA SeeCancelHolds ==
    ASSUME Shaped, ClientInv, NEW c \in Clients, SeeCancel(c)
    PROVE  Shaped' /\ ClientInv'
  <1> DEFINE new == Go(c, "cancel")
  <1>k. ClientsShaped /\ ClientOK(c) /\ HostOK(host) /\ Rec(host, HostFields)
    BY Known
  <1>0. cl[c].pc = "running" /\ job.runtime # "native-process" /\ UNCHANGED <<job, srv, host, ex>> /\ Step(c, new)
    BY <1>k DEF SeeCancel, At, ClientOK, Executing
  <1>1. Rec(new, ClientFields) /\ new.pc = "cancel" /\ new.id = cl[c].id
    BY <1>k, GoShape
  <1> HIDE DEF new
  <1>2. Keeps(ex, ex') /\ HostOK(host)'
    BY <1>0, KeptWhole, HeldSame
  <1>4. cl'[c] = new
    BY <1>0, <1>1, <1>k, Stepped
  <1>5. ClientOK(c)' /\ cl[c].pc \in Executing
    BY <1>0, <1>1, <1>4, <1>k DEF ClientOK, Executing, Reporting, IsId, Kind
  <1> QED BY <1>0, <1>1, <1>2, <1>5, <1>k, LocalStep

(* A lease claimed before is never executed again.                         *)
LEMMA ResumeHolds ==
    ASSUME Shaped, ClientInv, NEW c \in Clients, ResumeClaimed(c)
    PROVE  Shaped' /\ ClientInv'
  <1> DEFINE complete == [Go(c, "complete") EXCEPT !.result = Succeeded(host.pending)]
             stop == [Go(c, "stop") EXCEPT !.id = host.identity]
  <1>k. ClientsShaped /\ ClientOK(c) /\ HostOK(host) /\ Rec(host, HostFields)
    BY Known
  <1>0. cl[c].pc = "resume" /\ job.runtime # "native-process" /\ UNCHANGED <<job, srv, host, ex>>
    BY <1>k DEF ResumeClaimed, At, ClientOK
  <1>1. /\ Rec(complete, ClientFields) /\ complete.pc = "complete" /\ complete.id = cl[c].id
        /\ complete.result.report = host.pending
    BY <1>k, GoShape DEF Rec, ClientFields, Succeeded, Result
  <1>2. Rec(stop, ClientFields) /\ stop.pc = "stop" /\ stop.id = host.identity
    BY <1>k, GoShape DEF Rec, ClientFields
  <1>3. (host.pending # None /\ Step(c, complete)) \/ Step(c, stop) \/ Step(c, IdleClient)
    BY DEF ResumeClaimed, Raise
  <1> HIDE DEF complete, stop
  <1>4. Keeps(ex, ex') /\ HostOK(host)'
    BY <1>0, KeptWhole, HeldSame
  <1>5. CASE host.pending # None /\ Step(c, complete)
    <2>1. cl'[c] = complete
      BY <1>1, <1>5, <1>k, Stepped
    <2>2. Good(host.pending)
      BY <1>5, <1>k DEF HostOK
    <2>3. ClientOK(c)' /\ complete.pc \notin Executing
      BY <1>0, <1>1, <1>k, <2>1, <2>2 DEF ClientOK, Executing, Reporting, IsId, Kind, Good
    <2> QED BY <1>0, <1>1, <1>4, <1>5, <1>k, <2>3, LocalStep
  <1>6. CASE Step(c, stop)
    <2>1. cl'[c] = stop
      BY <1>2, <1>6, <1>k, Stepped
    <2>2. ClientOK(c)' /\ stop.pc \notin Executing
      BY <1>0, <1>2, <1>k, <2>1 DEF ClientOK, Executing, Reporting, IsId, Kind, HostOK
    <2> QED BY <1>0, <1>2, <1>4, <1>6, <1>k, <2>2, LocalStep
  <1>7. CASE Step(c, IdleClient)
    <2>1. cl'[c] = IdleClient
      BY <1>7, <1>k, Stepped, IdleShape
    <2>2. ClientOK(c)' /\ IdleClient.pc \notin Executing
      BY <2>1, IdleShape DEF ClientOK, Executing, Reporting
    <2> QED BY <1>0, <1>4, <1>7, <1>k, <2>2, IdleShape, LocalStep
  <1> QED BY <1>3, <1>5, <1>6, <1>7

(* Dropping a file of the lease, or both.                                  *)
LEMMA DropKeeps ==
    ASSUME Shaped, ClientInv, UNCHANGED <<job, ex>>, host' = DropIdentity(host) \/ host' = DropExecutionIdentity(host)
    PROVE  Rec(host', HostFields) /\ host'.out = host.out /\ HostOK(host)'
  <1>1. Rec(host, HostFields) /\ HostOK(host)
    BY DEF Shaped, ClientInv
  <1>2. /\ Rec(host', HostFields) /\ host'.out = host.out /\ host'.receipt = host.receipt
        /\ host'.identity = None /\ host'.pending \in {None, host.pending}
    BY <1>1 DEF DropIdentity, DropExecutionIdentity, Rec, HostFields
  <1> QED BY <1>1, <1>2 DEF HostOK, Good, UserCodeRuns

(* A result is reported, failed or forgotten.                              *)
LEMMA SettleHolds ==
    ASSUME Shaped, ClientInv, NEW c \in Clients, Settle(c)
    PROVE  Shaped' /\ ClientInv'
  <1> DEFINE r == cl[c].result
             fail == [Go(c, "fail") EXCEPT !.reason = r.reason]
             upload == Go(c, "upload")
  <1>k. ClientsShaped /\ ClientOK(c) /\ HostOK(host) /\ Rec(host, HostFields)
    BY Known
  <1>0. cl[c].pc = "settle" /\ job.runtime # "native-process" /\ UNCHANGED <<job, srv, ex>>
    BY <1>k DEF Settle, At, ClientOK
  <1>1. Rec(fail, ClientFields) /\ fail.pc = "fail" /\ fail.id = cl[c].id /\ fail.reason = r.reason
    BY <1>k, GoShape DEF Rec, ClientFields
  <1>2. Rec(upload, ClientFields) /\ upload.pc = "upload" /\ upload.id = cl[c].id /\ upload.result = r
    BY <1>k, GoShape
  <1>3. \/ host' = DropIdentity(host) /\ Step(c, IdleClient)
        \/ host' = host /\ Step(c, fail)
        \/ r.disposition = "succeeded" /\ host' = DropExecutionIdentity(host) /\ Step(c, upload)
    BY DEF Settle, Raise
  <1> HIDE DEF fail, upload
  <1>4. Keeps(ex, ex')
    BY <1>0, KeptWhole
  <1>5. Rec(host', HostFields) /\ host'.out = host.out /\ HostOK(host)'
    BY <1>0, <1>3, <1>4, <1>k, DropKeeps, HeldSame
  <1>6. CASE Step(c, IdleClient)
    <2>1. cl'[c] = IdleClient
      BY <1>6, <1>k, Stepped, IdleShape
    <2>2. ClientOK(c)' /\ IdleClient.pc \notin Executing
      BY <2>1, IdleShape DEF ClientOK, Executing, Reporting
    <2> QED BY <1>0, <1>4, <1>5, <1>6, <2>2, IdleShape, LocalStep
  <1>7. CASE Step(c, fail)
    <2>1. cl'[c] = fail
      BY <1>1, <1>7, <1>k, Stepped
    <2>2. ClientOK(c)' /\ fail.pc \notin Executing
      BY <1>0, <1>1, <1>k, <2>1 DEF ClientOK, Executing, Reporting, IsId, Kind, Gone, UserCodeRuns
    <2> QED BY <1>0, <1>1, <1>4, <1>5, <1>7, <2>2, LocalStep
  <1>8. CASE r.disposition = "succeeded" /\ Step(c, upload)
    <2>1. cl'[c] = upload
      BY <1>2, <1>8, <1>k, Stepped
    <2>2. Good(r.report)
      BY <1>0, <1>8, <1>k DEF ClientOK
    <2>3. ClientOK(c)' /\ upload.pc \notin Executing
      BY <1>0, <1>2, <1>k, <2>1, <2>2 DEF ClientOK, Executing, Reporting, IsId, Kind, Good
    <2> QED BY <1>0, <1>2, <1>4, <1>5, <1>8, <2>3, LocalStep
  <1> QED BY <1>3, <1>6, <1>7, <1>8

(* The pending completion is a good report.                                *)
LEMMA SavePendingHolds ==
    ASSUME Shaped, ClientInv, NEW c \in Clients, SavePending(c)
    PROVE  Shaped' /\ ClientInv'
  <1> DEFINE new == Go(c, "complete")
             report == cl[c].result.report
  <1>k. ClientsShaped /\ ClientOK(c) /\ HostOK(host) /\ Rec(host, HostFields)
    BY Known
  <1>0. /\ cl[c].pc = "pending" /\ job.runtime # "native-process" /\ UNCHANGED <<job, srv, ex>> /\ Step(c, new)
        /\ host' = [host EXCEPT !.pending = report]
    BY <1>k DEF SavePending, At, ClientOK
  <1>1. Rec(new, ClientFields) /\ new.pc = "complete" /\ new.id = cl[c].id /\ new.result = cl[c].result
    BY <1>k, GoShape
  <1>g. Good(report)
    BY <1>0, <1>k DEF ClientOK, Reporting
  <1>2. /\ Rec(host', HostFields) /\ host'.out = host.out /\ host'.receipt = host.receipt
        /\ host'.identity = host.identity /\ host'.pending = report
    BY <1>0, <1>k DEF Rec, HostFields
  <1> HIDE DEF new
  <1>3. Keeps(ex, ex')
    BY <1>0, KeptWhole
  <1>4. HostOK(host)'
    BY <1>0, <1>2, <1>g, <1>k DEF HostOK, Good, UserCodeRuns, IsId, Kind
  <1>5. cl'[c] = new
    BY <1>0, <1>1, <1>k, Stepped
  <1>6. ClientOK(c)' /\ new.pc \notin Executing
    BY <1>0, <1>1, <1>5, <1>g, <1>k DEF ClientOK, Executing, Reporting, IsId, Kind, Good
  <1> QED BY <1>0, <1>1, <1>2, <1>3, <1>4, <1>6, <1>k, LocalStep

(* The end of run_once.                                                    *)
LEMMA DropHolds ==
    ASSUME Shaped, ClientInv, NEW c \in Clients, Drop(c)
    PROVE  Shaped' /\ ClientInv'
  <1>k. ClientsShaped /\ ClientOK(c)
    BY Known
  <1>0. /\ cl[c].pc = "drop" /\ job.runtime # "native-process" /\ UNCHANGED <<job, srv, ex>> /\ Step(c, IdleClient)
        /\ host' = DropIdentity(host)
    BY <1>k DEF Drop, At, ClientOK, Raise
  <1>1. Keeps(ex, ex')
    BY <1>0, KeptWhole
  <1>2. Rec(host', HostFields) /\ host'.out = host.out /\ HostOK(host)'
    BY <1>0, DropKeeps
  <1>3. cl'[c] = IdleClient
    BY <1>0, <1>k, Stepped, IdleShape
  <1>4. ClientOK(c)' /\ IdleClient.pc \notin Executing
    BY <1>3, IdleShape DEF ClientOK, Executing, Reporting
  <1> QED BY <1>0, <1>1, <1>2, <1>4, IdleShape, LocalStep

-----------------------------------------------------------------------------
(* The executor's life.  What is recorded is its identity, never None.     *)
LEMMA RecordHolds ==
    ASSUME Shaped, ClientInv, NEW c \in Clients, RecordIdentity(c)
    PROVE  Shaped' /\ ClientInv'
  <1> DEFINE id == Identity(ex, job.token)
             known == [Go(c, "running") EXCEPT !.id = id]
             late == Go(c, "running")
  <1>k. /\ ClientsShaped /\ ClientOK(c) /\ HostOK(host) /\ ExecutorOK(ex) /\ Rec(host, HostFields)
        /\ ex.cid \in BOOLEAN /\ job.token \in BOOLEAN
    BY Known
  <1>0. cl[c].pc = "record" /\ job.runtime # "native-process" /\ UNCHANGED <<job, srv, ex>> /\ ex.starts = 1
    BY <1>k DEF RecordIdentity, At, ClientOK, Executing
  <1>1. id # None /\ IsId(id)
    <2>1. ex.kind = Kind /\ Kind \in {"posix", "oci"}
      BY <1>0, <1>k DEF ExecutorOK, Kind
    <2>2. id \in [kind : {"posix", "oci"}, token : BOOLEAN, cid : BOOLEAN]
      BY <1>k, <2>1 DEF Identity
    <2>3. id # None
      BY <2>2, NoneAssumption
    <2>4. IsId(id)
      BY <1>0, <2>1 DEF IsId, Identity
    <2> QED BY <2>3, <2>4
  <1>2. Rec(known, ClientFields) /\ known.pc = "running" /\ known.id = id /\ known.baseline = cl[c].baseline
    BY <1>k, GoShape DEF Rec, ClientFields
  <1>3. Rec(late, ClientFields) /\ late.pc = "running" /\ late.id = cl[c].id /\ late.baseline = cl[c].baseline
    BY <1>k, GoShape
  <1>4. \/ host' = [host EXCEPT !.identity = id] /\ Step(c, known)
        \/ job.late /\ host' = host /\ Step(c, late)
    BY DEF RecordIdentity
  <1> HIDE DEF id, known, late
  <1>5. Keeps(ex, ex')
    BY <1>0, KeptWhole
  <1>6. BaselineKept(cl[c].baseline) /\ cl[c].pc \in Executing
    BY <1>0, <1>k DEF ClientOK, Executing
  <1>7. CASE host' = [host EXCEPT !.identity = id] /\ Step(c, known)
    <2>1. /\ Rec(host', HostFields) /\ host'.out = host.out /\ host'.receipt = host.receipt
          /\ host'.identity = id /\ host'.pending = host.pending
      BY <1>7, <1>k DEF Rec, HostFields
    <2>2. HostOK(host)'
      BY <1>0, <1>1, <1>k, <2>1 DEF HostOK, Good, UserCodeRuns, IsId, Kind
    <2>3. cl'[c] = known
      BY <1>2, <1>7, <1>k, Stepped
    <2>4. ClientOK(c)'
      BY <1>0, <1>1, <1>2, <1>6, <1>k, <2>1, <2>3 DEF ClientOK, Executing, Reporting, IsId, Kind, BaselineKept
    <2> QED BY <1>0, <1>2, <1>5, <1>6, <1>7, <2>1, <2>2, <2>4, LocalStep
  <1>8. CASE job.late /\ host' = host /\ Step(c, late)
    <2>1. HostOK(host)'
      BY <1>0, <1>5, <1>8, HeldSame
    <2>2. cl'[c] = late
      BY <1>3, <1>8, <1>k, Stepped
    <2>3. ClientOK(c)'
      BY <1>0, <1>3, <1>6, <1>8, <1>k, <2>2 DEF ClientOK, Executing, Reporting, IsId, Kind, BaselineKept
    <2> QED BY <1>0, <1>3, <1>5, <1>6, <1>8, <1>k, <2>1, <2>3, LocalStep
  <1> QED BY <1>4, <1>7, <1>8

(* A process that has a result, of an executor that was at most taken      *)
(* away since.                                                             *)
LEMMA ResultHolds ==
    ASSUME Shaped, ClientInv, NEW c \in Clients, cl[c].pc \in Executing, UNCHANGED <<job, srv>>, Keeps(ex, ex'),
           host'.out = host.out, Rec(host', HostFields), HostOK(host)', NEW result, Step(c, With(c, result)),
           result.disposition = "succeeded" => Good(result.report), result.reason = "cancel-observed" => Gone'
    PROVE  Shaped' /\ ClientInv'
  <1> DEFINE new == With(c, result)
  <1>k. ClientsShaped /\ ClientOK(c)
    BY Known
  <1>1. job.runtime # "native-process"
    BY <1>k DEF ClientOK
  <1>2. Rec(new, ClientFields) /\ new.pc = "settle" /\ new.id = cl[c].id /\ new.result = result
    BY <1>k, WithShape
  <1>i. PICK id : id = cl[c].id
    OBVIOUS
  <1>3. (result.disposition = "succeeded" => Good(result.report)') /\ (id = None \/ IsId(id)')
    <2>1. (\A x : Good(x) => Good(x)') /\ (\A x : IsId(x) => IsId(x)')
      BY KeepsFacts
    <2> QED BY <1>i, <1>k, <2>1 DEF ClientOK
  <1>4. cl'[c] = new
    BY <1>2, <1>k, Stepped
  <1> HIDE DEF new
  <1>5. ClientOK(c)' /\ new.pc \notin Executing
    BY <1>1, <1>2, <1>3, <1>4, <1>i DEF ClientOK, Executing, Reporting
  <1> QED BY <1>1, <1>2, <1>5, LocalStep DEF new

(* An executor that ended is judged by its code and its output.            *)
LEMMA ReapHolds ==
    ASSUME Shaped, ClientInv, NEW c \in Clients, Reap(c)
    PROVE  Shaped' /\ ClientInv'
  <1>k. /\ ClientsShaped /\ ClientOK(c) /\ HostOK(host) /\ ExecutorOK(ex) /\ Rec(host, HostFields) /\ Rec(ex, ExFields)
        /\ ex.cid \in BOOLEAN
    BY Known
  <1>0. /\ cl[c].pc = "running" /\ UNCHANGED <<job, srv>> /\ "leader" \notin ex.members /\ ex' \in Cleanup(ex)
        /\ Settled(c, Finished(ex, cl[c].baseline))
        /\ host' = host \/ \E files : host' = [host EXCEPT !.collected = files]
    BY DEF Reap, At
  <1>1. job.runtime # "native-process" /\ ex.starts = 1 /\ BaselineKept(cl[c].baseline)
    BY <1>0, <1>k DEF ClientOK, Executing
  <1>2. Keeps(ex, ex')
    BY <1>0, <1>k, CleanupKeeps
  <1>3. /\ Rec(host', HostFields) /\ host'.out = host.out /\ host'.receipt = host.receipt
        /\ host'.identity = host.identity /\ host'.pending = host.pending
    BY <1>0, <1>k DEF Rec, HostFields
  <1>4. HostOK(host)'
    <2>1. PICK h : h = host
      OBVIOUS
    <2>2. HostOK(h)'
      BY <1>0, <1>2, <1>k, <2>1, HeldFrame
    <2> QED BY <1>3, <2>1, <2>2 DEF HostOK
  <1>5. PICK n \in Nat : \A k \in host.out.checkpoints : k.index \in 0..n
    BY <1>k DEF HostOK
  <1>6. PICK r : r = Finished(ex, cl[c].baseline)
    OBVIOUS
  <1>7. CASE r = None
    <2>1. Step(c, IdleClient)
      BY <1>0, <1>6, <1>7 DEF Settled, Raise
    <2>2. cl'[c] = IdleClient
      BY <1>k, <2>1, Stepped, IdleShape
    <2>3. ClientOK(c)' /\ IdleClient.pc \notin Executing
      BY <2>2, IdleShape DEF ClientOK, Executing, Reporting
    <2> QED BY <1>0, <1>1, <1>2, <1>3, <1>4, <2>1, <2>3, IdleShape, LocalStep
  <1>8. CASE r # None
    <2>1. Step(c, With(c, r))
      BY <1>0, <1>6, <1>8 DEF Settled
    <2>2. /\ r.disposition = "succeeded" => ex.code = "ok" /\ (job.runtime = "gpu-oci" => r.report.checkpoint.by = "run")
          /\ r.reason # "cancel-observed"
      BY <1>1, <1>5, <1>6, <1>8, <1>k, FinishedGood
    <2>3. r.disposition = "succeeded" => Good(r.report)
      BY <1>0, <1>1, <2>2 DEF Good
    <2>4. cl[c].pc \in Executing
      BY <1>0 DEF Executing
    <2> QED BY <1>0, <1>2, <1>3, <1>4, <2>1, <2>2, <2>3, <2>4, ResultHolds
  <1> QED BY <1>7, <1>8

(* The wall time is over.                                                  *)
LEMMA TimeOutHolds ==
    ASSUME Shaped, ClientInv, NEW c \in Clients, TimeOut(c)
    PROVE  Shaped' /\ ClientInv'
  <1> DEFINE r == Unknown("worker.process.timeout")
  <1>k. ClientsShaped /\ ClientOK(c) /\ Rec(host, HostFields) /\ Rec(ex, ExFields) /\ ex.cid \in BOOLEAN
    BY Known
  <1>0. cl[c].pc \in Executing /\ UNCHANGED <<job, srv, host>> /\ ex' \in Cleanup(Killed(ex)) /\ Step(c, With(c, r))
    BY DEF TimeOut, At, Executing
  <1>1. Keeps(ex, Killed(ex))
    BY <1>k, KillKeeps
  <1>2. Keeps(Killed(ex), ex')
    BY <1>0, <1>1, CleanupKeeps DEF Keeps
  <1>3. Keeps(ex, ex')
    BY <1>1, <1>2, KeepsChain
  <1>4. HostOK(host)'
    BY <1>0, <1>3, HeldSame
  <1>5. r.disposition # "succeeded" /\ r.reason # "cancel-observed"
    BY DEF Unknown, Result
  <1> HIDE DEF r
  <1> QED BY <1>0, <1>3, <1>4, <1>5, <1>k, ResultHolds

(* A cancel is reported as observed only of an executor that has gone.     *)
LEMMA FinishCancelledHolds ==
    ASSUME Shaped, ClientInv, NEW c \in Clients, FinishCancelled(c)
    PROVE  Shaped' /\ ClientInv'
  <1>k. /\ ClientsShaped /\ ClientOK(c) /\ ExecutorOK(ex) /\ Rec(host, HostFields) /\ Rec(ex, ExFields) /\ ex.cid \in BOOLEAN
        /\ job.token \in BOOLEAN
    BY Known
  <1>0. cl[c].pc = "cancel" /\ UNCHANGED <<job, srv, host>>
    BY DEF FinishCancelled, At
  <1>1. PICK id : id = cl[c].id
    OBVIOUS
  <1>2. ex.starts = 1 /\ ex.kind = Kind /\ (id = None \/ IsId(id)) /\ (id # None \/ job.late)
    BY <1>0, <1>1, <1>k DEF ClientOK, ExecutorOK
  <1>3. PICK r : /\ (r \in Reaped(ex) /\ (id = None \/ Kind = "posix")) \/ r \in {StoppedBy(s) : s \in ObserveAndStop(ex, id)}
                 /\ ex' \in Cleanup(r.ex) /\ Step(c, With(c, r.result))
    <2>1. PICK r \in IF job.runtime = "macos-mps" THEN MpsFinishCancelled(ex, id) ELSE SandboxFinishCancelled(ex, id) :
             ex' \in Cleanup(r.ex) /\ Step(c, With(c, r.result))
      BY <1>1 DEF FinishCancelled
    <2>2. Kind \in {"posix", "oci"} /\ (id # None => id.kind = Kind)
      BY <1>2 DEF Kind, IsId
    <2>3. (r \in Reaped(ex) /\ (id = None \/ Kind = "posix")) \/ r \in {StoppedBy(s) : s \in ObserveAndStop(ex, id)}
      BY <2>1, <2>2 DEF MpsFinishCancelled, SandboxFinishCancelled
    <2> QED BY <2>1, <2>3
  <1>4. /\ Keeps(ex, r.ex) /\ (r.result.reason = "cancel-observed" => ~UserCodeRuns(r.ex) \/ job.late)
        /\ r.result.disposition # "succeeded"
    <2> USE DEF UNOBSERVED, OBSERVED_STOP, Failed, Unknown, Result
    <2>1. CASE r \in Reaped(ex) /\ (id = None \/ Kind = "posix")
      <3>1. r.ex = Killed(ex) /\ r.result.disposition # "succeeded"
        BY <2>1 DEF Reaped
      <3>2. Keeps(ex, Killed(ex)) /\ Killed(ex).members = {}
        BY <1>k, KillKeeps
      <3> QED BY <1>2, <2>1, <3>1, <3>2 DEF UserCodeRuns, Keeps
    <2>2. CASE r \in {StoppedBy(s) : s \in ObserveAndStop(ex, id)}
      <3>1. PICK s \in ObserveAndStop(ex, id) : r = StoppedBy(s)
        BY <2>2
      <3>2. Keeps(ex, s.ex) /\ (s.outcome = OBSERVED_STOP => ~UserCodeRuns(s.ex))
        BY <1>2, <1>k, <3>1, StopKeeps DEF IsId
      <3>3. r.ex = s.ex /\ (r.result.reason = "cancel-observed" => s.outcome = OBSERVED_STOP) /\ r.result.disposition # "succeeded"
        BY <3>1 DEF StoppedBy
      <3> QED BY <3>2, <3>3
    <2> QED BY <1>3, <2>1, <2>2
  <1>5. Keeps(r.ex, ex')
    BY <1>3, <1>4, CleanupKeeps DEF Keeps
  <1>6. Keeps(ex, ex')
    BY <1>4, <1>5, KeepsChain
  <1>7. r.result.reason = "cancel-observed" => Gone'
    BY <1>0, <1>2, <1>4, <1>5, <1>6 DEF Gone, UserCodeRuns, Keeps
  <1>8. HostOK(host)' /\ cl[c].pc \in Executing
    BY <1>0, <1>6, HeldSame DEF Executing
  <1> QED BY <1>0, <1>3, <1>4, <1>6, <1>7, <1>8, <1>k, ResultHolds

(* The end of a stop: the lease fails only if the executor has gone.       *)
LEMMA StoppedHolds ==
    ASSUME Shaped, ClientInv, NEW c \in Clients, job.runtime # "native-process", UNCHANGED <<job, srv, host>>, Keeps(ex, ex'),
           NEW outcome, Stopped(c, outcome),
           outcome = OBSERVED_STOP => cl[c].id # None /\ ~UserCodeRuns(ex)'
    PROVE  Shaped' /\ ClientInv'
  <1> DEFINE fail == [Go(c, "fail") EXCEPT !.reason = "cancel-observed"]
  <1>k. ClientsShaped /\ ClientOK(c) /\ Rec(host, HostFields)
    BY Known
  <1>0. job' = job /\ srv' = srv /\ host' = host
    OBVIOUS
  <1>i. PICK id : id = cl[c].id
    OBVIOUS
  <1>1. id = None \/ (IsId(id) /\ IsId(id)')
    BY <1>0, <1>i, <1>k, KeepsFacts DEF ClientOK
  <1>2. HostOK(host)'
    BY HeldSame
  <1>3. Rec(fail, ClientFields) /\ fail.pc = "fail" /\ fail.id = id
    BY <1>i, <1>k, GoShape DEF Rec, ClientFields
  <1>4. (outcome = OBSERVED_STOP /\ Step(c, fail)) \/ Step(c, IdleClient)
    BY DEF Stopped, Raise
  <1> HIDE DEF fail
  <1>5. CASE outcome = OBSERVED_STOP /\ Step(c, fail)
    <2>1. cl'[c] = fail
      BY <1>3, <1>5, <1>k, Stepped
    <2>2. Gone'
      BY <1>0, <1>1, <1>5, <1>i DEF Gone, IsId
    <2>3. ClientOK(c)' /\ fail.pc \notin Executing
      BY <1>0, <1>1, <1>3, <2>1, <2>2 DEF ClientOK, Executing, Reporting
    <2> QED BY <1>0, <1>2, <1>3, <1>5, <1>k, <2>3, LocalStep
  <1>6. CASE Step(c, IdleClient)
    <2>1. cl'[c] = IdleClient
      BY <1>6, <1>k, Stepped, IdleShape
    <2>2. ClientOK(c)' /\ IdleClient.pc \notin Executing
      BY <2>1, IdleShape DEF ClientOK, Executing, Reporting
    <2> QED BY <1>0, <1>2, <1>6, <1>k, <2>2, IdleShape, LocalStep
  <1> QED BY <1>4, <1>5, <1>6

(* The next step of a stop of a process group: what may still be signalled *)
(* was not a stranger's when it was compared, or is marked.                *)
LEMMA StopsOn ==
    ASSUME Shaped, ClientInv, NEW c \in Clients, job.runtime # "native-process", UNCHANGED <<job, srv, host>>, Keeps(ex, ex'),
           NEW pc \in {"term", "termed", "kill", "killed"}, Step(c, Go(c, pc)), cl[c].id # None, Kind = "posix",
           ex'.stranger = "runs" => ~job.token \/ ex'.raced \/ pc = "killed"
    PROVE  Shaped' /\ ClientInv'
  <1>k. ClientsShaped /\ ClientOK(c) /\ Rec(host, HostFields)
    BY Known
  <1>0. job' = job /\ srv' = srv /\ host' = host
    OBVIOUS
  <1>i. PICK id : id = cl[c].id
    OBVIOUS
  <1>1. IsId(id)'
    BY <1>0, <1>i, <1>k, KeepsFacts DEF ClientOK
  <1>2. HostOK(host)'
    BY HeldSame
  <1>3. LET g == Go(c, pc) IN Rec(g, ClientFields) /\ g.pc = pc /\ g.id = id
    BY <1>i, <1>k, GoShape
  <1>4. cl'[c] = Go(c, pc)
    BY <1>3, <1>k, Stepped
  <1>5. Kind' = "posix"
    BY <1>0 DEF Kind
  <1>6. ClientOK(c)' /\ Go(c, pc).pc \notin Executing
    BY <1>0, <1>1, <1>3, <1>4, <1>5, <1>i DEF ClientOK, Executing, Reporting
  <1> QED BY <1>0, <1>2, <1>3, <1>6, <1>k, LocalStep

(* A later process stops the executor an earlier one left.                 *)
LEMMA StopOriginalHolds ==
    ASSUME Shaped, ClientInv, NEW c \in Clients, StopOriginal(c)
    PROVE  Shaped' /\ ClientInv'
  <1>k. /\ ClientsShaped /\ ClientOK(c) /\ ExecutorOK(ex) /\ Rec(ex, ExFields) /\ ex.cid \in BOOLEAN /\ job.token \in BOOLEAN
    BY Known
  <1>0. cl[c].pc = "stop" /\ UNCHANGED <<job, srv, host>> /\ job.runtime # "native-process"
    BY <1>k DEF StopOriginal, At, ClientOK
  <1>1. PICK id : id = cl[c].id
    OBVIOUS
  <1>2. id = None \/ (IsId(id) /\ ex.starts = 1 /\ id.kind = ex.kind /\ id.kind = Kind /\ id.token = job.token)
    BY <1>1, <1>k DEF ClientOK, ExecutorOK, IsId
  <1>3. CASE id # None /\ id.kind = "posix" /\ ex' = ex
    <2>1. (TRUE \in MaySignal(ex, id) /\ Step(c, Go(c, "term"))) \/ Step(c, IdleClient)
      BY <1>1, <1>3 DEF StopOriginal, Raise, MaySignal
    <2>2. Keeps(ex, ex')
      BY <1>0, <1>3, KeptWhole
    <2>3. CASE TRUE \in MaySignal(ex, id) /\ Step(c, Go(c, "term"))
      <3>1. ex.stranger = "runs" => ~job.token
        BY <1>2, <1>3, <2>3 DEF MaySignal
      <3> QED BY <1>0, <1>1, <1>2, <1>3, <2>2, <2>3, <3>1, StopsOn
    <2>4. CASE Step(c, IdleClient)
      BY <1>0, <2>2, <2>4, StoppedHolds DEF Stopped, Raise, OBSERVED_STOP, UNOBSERVED
    <2> QED BY <2>1, <2>3, <2>4
  <1>4. CASE \E r \in ObserveAndStop(ex, id) : ex' = r.ex /\ Stopped(c, r.outcome)
    <2>1. PICK r \in ObserveAndStop(ex, id) : ex' = r.ex /\ Stopped(c, r.outcome)
      BY <1>4
    <2>2. Keeps(ex, r.ex) /\ (r.outcome = OBSERVED_STOP => ~UserCodeRuns(r.ex))
      BY <1>2, <1>k, <2>1, StopKeeps
    <2>3. Keeps(ex, ex') /\ (r.outcome = OBSERVED_STOP => ~UserCodeRuns(ex)')
      BY <2>1, <2>2 DEF UserCodeRuns
    <2>4. r.outcome = OBSERVED_STOP => id # None
      BY <2>1 DEF ObserveAndStop, OBSERVED_STOP, UNOBSERVED
    <2> QED BY <1>0, <1>1, <2>1, <2>3, <2>4, StoppedHolds
  <1>5. (id # None /\ id.kind = "posix" /\ ex' = ex) \/ \E r \in ObserveAndStop(ex, id) : ex' = r.ex /\ Stopped(c, r.outcome)
    BY <1>1 DEF StopOriginal
  <1> QED BY <1>3, <1>4, <1>5

(* SIGTERM, or SIGKILL.                                                    *)
LEMMA SignalOriginalHolds ==
    ASSUME Shaped, ClientInv, NEW c \in Clients, SignalOriginal(c)
    PROVE  Shaped' /\ ClientInv'
  <1>k. ClientOK(c) /\ Rec(ex, ExFields) /\ ex.cid \in BOOLEAN
    BY Known
  <1>0. cl[c].pc \in {"term", "kill"} /\ UNCHANGED <<job, srv, host>>
    BY DEF SignalOriginal, At
  <1>1. /\ cl[c].id # None /\ Kind = "posix" /\ job.runtime # "native-process"
        /\ ex.stranger = "runs" => ~job.token \/ ex.raced
    BY <1>0, <1>k DEF ClientOK
  <1>2. PICK s \in SignalGroup(ex), pc \in {"termed", "killed"} : ex' = s.ex /\ Step(c, Go(c, pc)) /\ (pc = "termed" => s.sent)
    BY DEF SignalOriginal
  <1>3. Keeps(ex, ex')
    BY <1>1, <1>2, <1>k, SignalKeeps
  <1>4. ex'.stranger = "runs" => ~job.token \/ ex'.raced
    BY <1>1, <1>3, <1>0 DEF Keeps, Signalling
  <1> QED BY <1>0, <1>1, <1>2, <1>3, <1>4, StopsOn

(* What the group looks like after it.                                     *)
LEMMA AwaitOriginalHolds ==
    ASSUME Shaped, ClientInv, NEW c \in Clients, AwaitOriginal(c)
    PROVE  Shaped' /\ ClientInv'
  <1>k. ClientOK(c) /\ ExecutorOK(ex)
    BY Known
  <1>0. cl[c].pc \in {"termed", "killed"} /\ UNCHANGED <<job, srv, host, ex>>
    BY DEF AwaitOriginal, At
  <1>1. /\ cl[c].id # None /\ Kind = "posix" /\ job.runtime # "native-process" /\ ex.kind = "posix"
        /\ cl[c].pc = "termed" => (ex.stranger = "runs" => ~job.token \/ ex.raced)
    BY <1>0, <1>k DEF ClientOK, ExecutorOK, IsId
  <1>2. PICK outcome \in WaitGroupExited(ex) : (cl[c].pc = "termed" /\ Step(c, Go(c, "kill"))) \/ Stopped(c, outcome)
    BY DEF AwaitOriginal, At
  <1>3. Keeps(ex, ex')
    BY <1>0, KeptWhole
  <1>4. CASE cl[c].pc = "termed" /\ Step(c, Go(c, "kill"))
    BY <1>0, <1>1, <1>3, <1>4, StopsOn
  <1>5. CASE Stopped(c, outcome)
    <2>1. outcome = OBSERVED_STOP => ~UserCodeRuns(ex)'
      BY <1>0, <1>1, <1>2, ObservedExitIsReal DEF UserCodeRuns
    <2> QED BY <1>0, <1>1, <1>3, <1>5, <2>1, StoppedHolds
  <1> QED BY <1>2, <1>4, <1>5

(* A start: the process that has the claim is the only one there was, so   *)
(* no report, identity or cancellation of an executor exists yet.          *)
LEMMA StartHolds ==
    ASSUME Shaped, ClientInv, NEW c \in Clients, cl[c].pc = "launch", Outcome = "started", UNCHANGED <<job, srv, host>>,
           NEW members, ex' = Spawned(ex, Kind, members),
           Step(c, [Go(c, "record") EXCEPT !.baseline = SnapshotCheckpoints(host.out)])
    PROVE  Shaped' /\ ClientInv'
  <1> DEFINE baseline == SnapshotCheckpoints(host.out)
             new == [Go(c, "record") EXCEPT !.baseline = baseline]
  <1>k. /\ ClientsShaped /\ ClientOK(c) /\ ServerOK(srv) /\ HostOK(host) /\ ExecutorOK(ex) /\ Rec(ex, ExFields)
        /\ job.runtime \in LeaseRuntimes \cup {"native-process"}
        /\ job.differs \subseteq IF job.runtime = "native-process" THEN NativeFacets ELSE Facets(job.runtime)
    BY Known
  <1>1. job.runtime # "native-process" /\ Granted(job.differs) /\ ex.starts = 0 /\ srv.lease \notin Unclaimed
    BY <1>k DEF ClientOK, Executing
  <1>2. job.differs = {}
    <2> DEFINE more == job.differs \cup (IF job.dirs THEN {} ELSE {"dirs"})
    <2>1. LaunchOutcome(job.runtime, more) = "started"
      BY DEF Outcome
    <2>2. job.differs \subseteq more /\ job.runtime \in LeaseRuntimes /\ job.differs \in SUBSET Facets(job.runtime)
      BY <1>1, <1>k
    <2> HIDE DEF more
    <2> QED BY <1>1, <2>1, <2>2, StartedAgrees
  <1>3. /\ Rec(ex', ExFields) /\ ex'.starts = 1 /\ ex'.kind = Kind /\ ex'.code = None /\ ex'.stranger = "no"
        /\ ex'.cid \in BOOLEAN /\ ex'.wrote \in Nat
    BY <1>1, SpawnShape
  <1>4. Rec(new, ClientFields) /\ new.pc = "record" /\ new.id = cl[c].id /\ new.baseline = baseline
    BY <1>k, GoShape DEF Rec, ClientFields
  <1>5. BaselineKept(baseline)
    BY DEF BaselineKept, SnapshotCheckpoints, CheckpointDirs
  <1> HIDE DEF new, baseline
  <1>6. ClientsShaped' /\ cl'[c] = new /\ \A q \in Clients \ {c} : cl'[q] = cl[q]
    BY <1>4, <1>k, Stepped DEF new, baseline
  <1>7. ClientOK(c)'
    <2>1. new.id = None
      BY <1>1, <1>4, <1>k DEF ClientOK, IsId
    <2>2. BaselineKept(new.baseline)
      BY <1>4, <1>5
    <2> QED BY <1>1, <1>3, <1>4, <1>6, <2>1, <2>2 DEF ClientOK, Executing, Reporting, BaselineKept
  <1>8. ASSUME NEW q \in Clients \ {c} PROVE ClientOK(q)' /\ cl'[q].pc \notin Executing
    <2>1. cl[q].pc \notin Executing
      BY DEF ClientInv, OneClaim, Executing
    <2>2. ClientOK(q) /\ cl'[q] = cl[q]
      BY <1>6 DEF ClientInv
    <2>3. ~Gone /\ (\A x : ~Good(x)) /\ (\A id : ~IsId(id))
      BY <1>1 DEF Gone, Good, IsId
    <2> QED BY <2>1, <2>2, <2>3 DEF ClientOK, Executing
  <1>9. \A q \in Clients : NativeOK(q)'
    <2>1. \A q \in Clients : ClientOK(q)'
      BY <1>7, <1>8
    <2>2. \A q \in Clients : cl'[q].pc \notin {"helper", "native"}
      BY <1>1, <2>1 DEF ClientOK
    <2> QED BY <2>2 DEF NativeOK
  <1>10. OneClaim'
    BY <1>8 DEF OneClaim
  <1>11. ServerOK(srv)'
    BY <1>1, <1>k DEF ServerOK, Good, Gone
  <1>12. HostOK(host)'
    BY <1>1, <1>k DEF HostOK, Good, IsId
  <1>13. ExecutorOK(ex)'
    BY <1>2, <1>3, NoneAssumption DEF ExecutorOK, Kind
  <1>14. Shaped'
    BY <1>3, <1>6 DEF Shaped
  <1> QED BY <1>7, <1>8, <1>9, <1>10, <1>11, <1>12, <1>13, <1>14 DEF ClientInv

(* A launch that raises, fails the lease, loses the process or starts it.  *)
LEMMA LaunchHolds ==
    ASSUME Shaped, ClientInv, NEW c \in Clients, Launch(c)
    PROVE  Shaped' /\ ClientInv'
  <1>k. ClientsShaped /\ ClientOK(c) /\ Rec(host, HostFields)
    BY Known
  <1>0. cl[c].pc = "launch" /\ UNCHANGED <<job, srv, host>> /\ job.runtime # "native-process"
    BY <1>k DEF Launch, At, ClientOK, Executing
  <1>1. CASE ex' = ex /\ Step(c, IdleClient)
    <2>1. cl'[c] = IdleClient
      BY <1>1, <1>k, Stepped, IdleShape
    <2>2. ClientOK(c)' /\ IdleClient.pc \notin Executing
      BY <2>1, IdleShape DEF ClientOK, Executing, Reporting
    <2> QED BY <1>0, <1>1, <1>k, <2>2, IdleShape, KeptWhole, HeldSame, LocalStep
  <1>2. CASE ex' = ex /\ \E r \in {Failed("refused"), Unknown("worker.process.lost")} : Step(c, With(c, r))
    <2>1. PICK r \in {Failed("refused"), Unknown("worker.process.lost")} : Step(c, With(c, r))
      BY <1>2
    <2>2. r.disposition # "succeeded" /\ r.reason # "cancel-observed"
      BY <2>1 DEF Failed, Unknown, Result
    <2>3. Keeps(ex, ex') /\ HostOK(host)' /\ cl[c].pc \in Executing
      BY <1>0, <1>2, KeptWhole, HeldSame DEF Executing
    <2> QED BY <1>0, <1>k, <2>1, <2>2, <2>3, ResultHolds
  <1>3. CASE /\ Outcome = "started" /\ \E members : ex' = Spawned(ex, Kind, members)
             /\ Step(c, [Go(c, "record") EXCEPT !.baseline = SnapshotCheckpoints(host.out)])
    BY <1>0, <1>3, StartHolds
  <1> QED BY <1>1, <1>2, <1>3 DEF Launch, Raise

-----------------------------------------------------------------------------
(* The native run command.  Its receipt says what became of the process.   *)
LEMMA ReceiptHolds ==
    ASSUME Shaped, ClientInv, NEW c \in Clients, cl[c].pc \in {"helper", "native"}, UNCHANGED <<job, srv>>, Keeps(ex, ex'),
           NEW result, Receipt(c, result), result.reason = "cancel-observed" => ~UserCodeRuns(ex)',
           result.disposition = "succeeded" => ex.starts = 1 /\ ex.code = "ok" /\ "leader" \notin ex.members
    PROVE  Shaped' /\ ClientInv'
  <1>k. ClientsShaped /\ ClientOK(c) /\ NativeOK(c) /\ HostOK(host) /\ Rec(host, HostFields)
    BY Known
  <1>0. host' = [host EXCEPT !.receipt = result] /\ job.runtime = "native-process"
    BY <1>k DEF Receipt, ClientOK
  <1>1. ClientsShaped' /\ cl'[c] = IdleClient /\ \A q \in Clients \ {c} : cl'[q] = cl[q]
    BY <1>k, RaiseSteps DEF Receipt
  <1>2. /\ Rec(host', HostFields) /\ host'.out = host.out /\ host'.receipt = result
        /\ host'.identity = host.identity /\ host'.pending = host.pending
    BY <1>0, <1>k DEF Rec, HostFields
  <1>3. \A q \in Clients : cl'[q].pc = "idle"
    BY <1>1, <1>k, IdleShape DEF NativeOK
  <1>4. Steady
    BY <1>2 DEF Steady, BaselineKept
  <1>5. \A q \in Clients : ClientOK(q)'
    BY <1>1, <1>4, ClientFrame DEF ClientInv, Alike
  <1>6. (\A q \in Clients : NativeOK(q)') /\ OneClaim'
    BY <1>3 DEF NativeOK, OneClaim, Executing
  <1>7. ServerOK(srv)' /\ ExecutorOK(ex)'
    BY HeldSame, KeepsFacts DEF ClientInv
  <1>8. HostOK(host)'
    <2>1. PICK h : h = host
      OBVIOUS
    <2>2. HostOK(h)'
      BY <1>k, <2>1, HeldFrame
    <2>3. result.disposition = "succeeded" => ex'.starts = 1 /\ ex'.code = "ok" /\ "leader" \notin ex'.members
      BY DEF Keeps
    <2> QED BY <1>0, <1>2, <2>1, <2>2, <2>3 DEF HostOK
  <1>9. Shaped'
    BY <1>1, <1>2 DEF Shaped, Keeps
  <1> QED BY <1>5, <1>6, <1>7, <1>8, <1>9 DEF ClientInv

(* A native run starts from nothing and for an authorized request only.    *)
LEMMA NativeBeginHolds ==
    ASSUME Shaped, ClientInv, NEW c \in Clients, ExecuteNativeProcess(c)
    PROVE  Shaped' /\ ClientInv'
  <1> DEFINE new == IF MayExecute(job.differs) THEN Go(c, "helper") ELSE IdleClient
  <1>k. /\ ClientsShaped /\ ClientOK(c) /\ HostOK(host) /\ Rec(host, HostFields)
        /\ job.differs \subseteq IF job.runtime = "native-process" THEN NativeFacets ELSE Facets(job.runtime)
    BY Known
  <1>0. /\ job.runtime = "native-process" /\ UNCHANGED <<job, srv, ex>> /\ \A d \in Clients : cl[d].pc = "idle"
        /\ host' = [host EXCEPT !.receipt = None] /\ Step(c, new)
    BY DEF ExecuteNativeProcess, At
  <1>1. Rec(new, ClientFields) /\ new.id \in {None, cl[c].id} /\ new.pc \in {"idle", "helper"} /\ (new.pc = "helper" => job.differs = {})
    <2>1. MayExecute(job.differs) => job.differs = {}
      BY <1>0, <1>k DEF MayExecute
    <2> QED BY <1>k, <2>1, GoShape, IdleShape
  <1> HIDE DEF new
  <1>2. ClientsShaped' /\ cl'[c] = new /\ \A q \in Clients \ {c} : cl'[q] = cl[q]
    BY <1>0, <1>1, <1>k, Stepped
  <1>3. /\ Rec(host', HostFields) /\ host'.out = host.out /\ host'.receipt = None
        /\ host'.identity = host.identity /\ host'.pending = host.pending
    BY <1>0, <1>k DEF Rec, HostFields
  <1>4. Keeps(ex, ex')
    BY <1>0, KeptWhole
  <1>5. Steady
    BY <1>0, <1>3, <1>4 DEF Steady, BaselineKept
  <1>6. ClientOK(c)'
    BY <1>0, <1>1, <1>2, <1>k DEF ClientOK, Executing, Reporting, IsId, Kind
  <1>7. \A q \in Clients : ClientOK(q)'
    BY <1>2, <1>5, <1>6, ClientFrame DEF ClientInv, Alike
  <1>8. \A q \in Clients : NativeOK(q)'
    BY <1>0, <1>1, <1>2, <1>3 DEF NativeOK
  <1>9. OneClaim'
    BY <1>0, <1>1, <1>2 DEF OneClaim, Executing
  <1>10. ServerOK(srv)' /\ ExecutorOK(ex)'
    BY <1>0, <1>4, HeldSame, KeepsFacts DEF ClientInv
  <1>11. HostOK(host)'
    BY <1>0, <1>3, <1>k DEF HostOK, Good, IsId, Kind
  <1>12. Shaped'
    BY <1>0, <1>2, <1>3 DEF Shaped
  <1> QED BY <1>7, <1>8, <1>9, <1>10, <1>11, <1>12 DEF ClientInv

(* The helper is started, anew.                                            *)
LEMMA HelperStarts ==
    ASSUME Shaped, ClientInv, NEW c \in Clients, cl[c].pc = "helper", UNCHANGED <<job, srv, host>>,
           NEW members, ex' = Spawned(NoExecutor, "posix", members), Step(c, Go(c, "native"))
    PROVE  Shaped' /\ ClientInv'
  <1>k. ClientsShaped /\ ClientOK(c) /\ NativeOK(c) /\ ServerOK(srv) /\ HostOK(host) /\ ExecutorOK(ex)
    BY Known
  <1>0. job.runtime = "native-process" /\ Kind = "posix" /\ job.differs = {} /\ host.receipt = None
    BY <1>k DEF ClientOK, NativeOK, Kind
  <1>1. /\ Rec(ex', ExFields) /\ ex'.starts = 1 /\ ex'.kind = "posix" /\ ex'.code = None /\ ex'.stranger = "no"
        /\ ex'.cid \in BOOLEAN /\ ex'.wrote \in Nat
    <2>1. NoExecutor.starts = 0
      BY DEF NoExecutor
    <2> QED BY <2>1, SpawnShape
  <1>2. LET g == Go(c, "native") IN Rec(g, ClientFields) /\ g.pc = "native" /\ g.id = cl[c].id
    BY <1>k, GoShape
  <1>3. ClientsShaped' /\ cl'[c] = Go(c, "native") /\ \A q \in Clients \ {c} : cl'[q] = cl[q]
    BY <1>2, <1>k, Stepped
  <1>4. \A q \in Clients \ {c} : cl'[q].pc = "idle"
    BY <1>3, <1>k DEF NativeOK
  <1>5. \A id : IsId(id) => IsId(id)'
    BY <1>1 DEF IsId, Kind
  <1>6. ASSUME NEW q \in Clients PROVE ClientOK(q)'
    <2>1. PICK id : id = cl[q].id
      OBVIOUS
    <2>2. id = None \/ IsId(id)'
      BY <1>5, <2>1 DEF ClientInv, ClientOK
    <2>3. cl'[q].id = id /\ cl'[q].pc \in {"idle", "native"}
      BY <1>2, <1>3, <1>4, <2>1
    <2> QED BY <1>0, <1>1, <2>2, <2>3 DEF ClientOK, Executing, Reporting
  <1>7. \A q \in Clients : NativeOK(q)'
    BY <1>0, <1>1, <1>2, <1>3, <1>4 DEF NativeOK
  <1>8. OneClaim'
    BY <1>2, <1>3, <1>4 DEF OneClaim, Executing
  <1>9. ServerOK(srv)'
    BY <1>0, <1>k, NoneAssumption DEF ServerOK
  <1>10. HostOK(host)'
    <2>1. PICK id : id = host.identity
      OBVIOUS
    <2>2. id = None \/ IsId(id)'
      BY <1>5, <1>k, <2>1 DEF HostOK
    <2> QED BY <1>0, <1>k, <2>1, <2>2 DEF HostOK
  <1>11. ExecutorOK(ex)'
    BY <1>0, <1>1, NoneAssumption DEF ExecutorOK, Kind
  <1>12. Shaped'
    BY <1>1, <1>3 DEF Shaped
  <1> QED BY <1>6, <1>7, <1>8, <1>9, <1>10, <1>11, <1>12 DEF ClientInv

(* The helper is started, or lost.                                         *)
LEMMA RunHelperHolds ==
    ASSUME Shaped, ClientInv, NEW c \in Clients, RunHelper(c)
    PROVE  Shaped' /\ ClientInv'
  <1>0. cl[c].pc = "helper" /\ UNCHANGED <<job, srv>>
    BY DEF RunHelper, At
  <1>1. CASE (\E members : ex' = Spawned(NoExecutor, "posix", members)) /\ Step(c, Go(c, "native")) /\ host' = host
    BY <1>0, <1>1, HelperStarts
  <1>2. CASE Receipt(c, ProcessLost) /\ ex' = ex
    <2>1. ProcessLost.disposition # "succeeded" /\ ProcessLost.reason # "cancel-observed"
      BY DEF ProcessLost, NativeResult
    <2> QED BY <1>0, <1>2, <2>1, KeptWhole, ReceiptHolds
  <1> QED BY <1>1, <1>2 DEF RunHelper

(* A native run that is cancelled, ends, or is lost.                       *)
LEMMA NativeEndHolds ==
    ASSUME Shaped, ClientInv, NEW c \in Clients, NativeCancelled(c) \/ NativeExited(c) \/ NativeUnobserved(c)
    PROVE  Shaped' /\ ClientInv'
  <1>k. /\ ClientsShaped /\ ClientOK(c) /\ NativeOK(c) /\ ExecutorOK(ex) /\ Rec(ex, ExFields) /\ ex.cid \in BOOLEAN
    BY Known
  <1>0. cl[c].pc = "native" /\ UNCHANGED <<job, srv>>
    BY DEF NativeCancelled, NativeExited, NativeUnobserved, At
  <1>1. ex.starts = 1 /\ ex.kind = "posix"
    BY <1>0, <1>k DEF ClientOK, NativeOK, ExecutorOK, Kind
  <1>2. CASE NativeCancelled(c)
    <2>1. PICK r \in FinishNativeCancelled(ex) : ex' = r.ex /\ Receipt(c, r.result)
      BY <1>2 DEF NativeCancelled
    <2>2. PICK x \in ReapProcessGroup(ex), dead \in BOOLEAN :
             /\ dead \in CancelGroupConfirmedDead(x)
             /\ r = [ex |-> x, result |-> IF dead THEN NativeResult("failed", "cancel-observed")
                                                  ELSE NativeResult("unknown", UNOBSERVED)]
      BY <2>1 DEF FinishNativeCancelled, CancelGroupConfirmedDead
    <2>3. r.result.disposition # "succeeded" /\ (r.result.reason = "cancel-observed" => x.members = {}) /\ r.ex = x
      BY <2>2 DEF CancelGroupConfirmedDead, NativeResult, UNOBSERVED
    <2>4. Keeps(ex, ex')
      BY <1>k, <2>1, <2>2, <2>3, ReapKeeps
    <2>5. r.result.reason = "cancel-observed" => ~UserCodeRuns(ex)'
      BY <1>1, <2>1, <2>3, <2>4 DEF UserCodeRuns, Keeps
    <2> QED BY <1>0, <2>1, <2>3, <2>4, <2>5, ReceiptHolds
  <1>3. CASE NativeExited(c)
    <2>1. "leader" \notin ex.members /\ ex' \in ReapProcessGroup(ex)
      BY <1>3 DEF NativeExited
    <2>2. PICK r : r = RunNativeBounded(ex, job.emits)
      OBVIOUS
    <2>3. Receipt(c, r)
      BY <1>3, <2>2 DEF NativeExited
    <2>4. (r.disposition = "succeeded" => ex.code = "ok") /\ r.reason # "cancel-observed"
      BY <1>k, <2>2 DEF RunNativeBounded, ParseNativeReport, NativeResult, ProcessLost, ExecutorOK
    <2>5. Keeps(ex, ex')
      BY <1>k, <2>1, ReapKeeps
    <2> QED BY <1>0, <1>1, <2>1, <2>3, <2>4, <2>5, ReceiptHolds
  <1>4. CASE NativeUnobserved(c)
    <2>1. PICK r \in {ProcessLost, ProcessTimeout} : Receipt(c, r)
      BY <1>4 DEF NativeUnobserved
    <2>2. r.disposition # "succeeded" /\ r.reason # "cancel-observed"
      BY <2>1 DEF ProcessLost, ProcessTimeout, NativeResult
    <2>3. Keeps(ex, ex')
      BY <1>4, <1>k, ReapKeeps DEF NativeUnobserved
    <2> QED BY <1>0, <2>1, <2>2, <2>3, ReceiptHolds
  <1> QED BY <1>2, <1>3, <1>4

-----------------------------------------------------------------------------
(* The executor on its own, and what disturbs it.                          *)
LEMMA ExecutorHolds ==
    ASSUME Shaped, ClientInv, BoxCreated \/ LeaderExits \/ OrphanEnds \/ PidRecycled
    PROVE  Shaped' /\ ClientInv'
  <1>0. UNCHANGED <<job, srv, host, cl>>
    BY DEF BoxCreated, LeaderExits, OrphanEnds, PidRecycled
  <1>k. Rec(ex, ExFields) /\ ex.cid \in BOOLEAN
    BY DEF Shaped
  <1>1. Keeps(ex, ex')
    <2>1. CASE BoxCreated
      BY <1>k, <2>1 DEF BoxCreated, Keeps, Rec, ExFields
    <2>2. CASE LeaderExits
      <3>1. ExitCode \in {"bad", "signal", "overflow", "ok"} /\ (ExitCode = "overflow" => job.runtime # "macos-mps")
        BY DEF ExitCode
      <3>2. PICK box : /\ ex' = [ex EXCEPT !.members = @ \ {"leader"}, !.code = ExitCode, !.box = box]
                       /\ box \in {"exited", ex.box}
        BY <2>2 DEF LeaderExits
      <3>3. "leader" \in ex.members
        BY <2>2 DEF LeaderExits
      <3> QED BY <1>k, <3>1, <3>2, <3>3 DEF Keeps, Rec, ExFields
    <2>3. CASE OrphanEnds
      BY <1>k, <2>3 DEF OrphanEnds, Keeps, Rec, ExFields
    <2>4. CASE PidRecycled
      <3> DEFINE raced == \E c \in Clients : cl[c].pc \in Signalling
      <3>1. ex' = [ex EXCEPT !.stranger = "runs", !.raced = raced] /\ ex.stranger = "no"
        BY <2>4 DEF PidRecycled
      <3>2. raced \/ \A c \in Clients : cl[c].pc \notin Signalling
        OBVIOUS
      <3> HIDE DEF raced
      <3>3. ex'.raced = raced
        BY <1>k, <3>1 DEF Rec, ExFields
      <3> QED BY <1>k, <3>1, <3>2, <3>3 DEF Keeps, Rec, ExFields
    <2> QED BY <2>1, <2>2, <2>3, <2>4
  <1>2. Steady
    BY <1>0, <1>1 DEF Steady, BaselineKept
  <1>3. ServerOK(srv)' /\ HostOK(host)'
    BY <1>0, <1>1, HeldSame
  <1>4. ClientInv'
    BY <1>0, <1>2, <1>3, Undisturbed
  <1> QED BY <1>0, <1>1, <1>4 DEF Shaped, ClientsShaped, Keeps

(* Training writes checkpoints of its own run, with numbers it was given.  *)
LEMMA TrainHolds ==
    ASSUME Shaped, ClientInv, Train
    PROVE  Shaped' /\ ClientInv'
  <1> DEFINE k == job.writes[ex.wrote + 1]
             kept == {j \in host.out.checkpoints : j.index # k.index}
  <1>0. UNCHANGED <<job, srv, cl>> /\ ex.wrote < Len(job.writes)
    BY DEF Train
  <1>k. /\ Rec(ex, ExFields) /\ ex.cid \in BOOLEAN /\ ex.wrote \in Nat /\ Rec(host, HostFields) /\ Rec(host.out, OutFields)
        /\ HostOK(host)
    BY DEF Shaped, ClientInv
  <1>w. Len(job.writes) \in Nat /\ \A i \in 1..Len(job.writes) : job.writes[i].by = "run"
    <2>1. PICK w \in Workloads : job = w.job
      BY DEF Shaped
    <2> QED BY <2>1, WorkloadsAssumption
  <1>1. ex.wrote + 1 \in 1..Len(job.writes)
    BY <1>0, <1>k, <1>w
  <1>2. Keeps(ex, ex')
    <2>1. ex' = [ex EXCEPT !.wrote = ex.wrote + 1] /\ ex.wrote + 1 \in Nat
      BY <1>k DEF Train
    <2> QED BY <1>k, <2>1, SMTT(30) DEF Keeps, Rec, ExFields
  <1>3. PICK loads, markers :
           host' = [host EXCEPT !.out = [EmitLoaded(host.out, loads) EXCEPT !.checkpoints = kept \cup {k}, !.markers = markers]]
    <2> DEFINE seen == EmitLoaded(host.out, job.loads)
               resumed == seen.markers \/ job.resume # "none"
               out == [seen EXCEPT !.checkpoints = {j \in seen.checkpoints : j.index # k.index} \cup {k}, !.markers = resumed]
    <2>1. host' = [host EXCEPT !.out = out]
      BY Zenon DEF Train
    <2>2. seen.checkpoints = host.out.checkpoints
      BY <1>k DEF EmitLoaded, Rec, OutFields
    <2> HIDE DEF resumed, k
    <2>3. out = [seen EXCEPT !.checkpoints = kept \cup {k}, !.markers = resumed]
      BY <2>2
    <2> HIDE DEF out
    <2> QED BY <2>1, <2>3
  <1> HIDE DEF k, kept
  <1>4. /\ Rec(host', HostFields) /\ Rec(host'.out, OutFields) /\ host'.out.checkpoints = kept \cup {k}
        /\ host'.receipt = host.receipt /\ host'.identity = host.identity /\ host'.pending = host.pending
    BY <1>3, <1>k DEF EmitLoaded, Rec, OutFields, HostFields
  <1>5. k.by = "run" /\ kept \subseteq host.out.checkpoints
    BY <1>1, <1>w DEF k, kept
  <1>6. Steady
    BY <1>0, <1>2, <1>4, <1>5 DEF Steady, BaselineKept
  <1>7. HostOK(host)'
    <2>1. PICK h : h = host
      OBVIOUS
    <2>2. HostOK(h)'
      BY <1>0, <1>2, <1>k, <2>1, HeldFrame
    <2>3. PICK n \in Nat : /\ \A j \in host.out.checkpoints : j.index \in 0..n
                           /\ \A i \in 1..Len(job.writes) : job.writes[i].index \in 0..n
      BY <1>k DEF HostOK
    <2>4. k.index \in 0..n
      BY <1>1, <2>3 DEF k
    <2>5. \A j \in host'.out.checkpoints : j.index \in 0..n
      BY <1>4, <1>5, <2>3, <2>4
    <2> QED BY <1>0, <1>4, <2>1, <2>2, <2>3, <2>5 DEF HostOK
  <1>8. ServerOK(srv)'
    BY <1>0, <1>2, HeldSame
  <1>9. ClientInv'
    BY <1>0, <1>4, <1>6, <1>7, <1>8, Undisturbed
  <1> QED BY <1>0, <1>2, <1>4, <1>9 DEF Shaped, ClientsShaped, Keeps

(* A cancel request, a revocation, a controller or a process that stops.   *)
LEMMA DisturbHolds ==
    ASSUME Shaped, ClientInv, RequestCancel \/ Revoke \/ ControllerStops \/ \E c \in Clients : Crash(c)
    PROVE  Shaped' /\ ClientInv'
  <1>0. UNCHANGED <<job, host, ex>>
    BY DEF RequestCancel, Revoke, ControllerStops, Crash
  <1>k. ClientsShaped /\ Rec(srv, SrvFields) /\ ServerOK(srv)
    BY DEF Shaped, ClientInv
  <1>1. ClientsShaped' /\ \A q \in Clients : cl'[q] = cl[q] \/ cl'[q] = IdleClient
    <2>1. CASE cl' = cl
      BY <1>k, <2>1 DEF ClientsShaped
    <2>2. CASE \E c \in Clients : Raise(c)
      BY <1>k, <2>2, RaiseSteps
    <2> QED BY <2>1, <2>2 DEF RequestCancel, Revoke, ControllerStops, Crash
  <1>2. /\ Rec(srv', SrvFields) /\ srv'.result = srv.result /\ srv'.artifact = srv.artifact /\ srv'.cas = srv.cas
        /\ srv'.reason = srv.reason /\ (srv'.live = TRUE => srv.live = TRUE) /\ srv'.live \in {srv.live, FALSE}
        /\ \/ srv'.lease = srv.lease
           \/ srv.lease = "none" /\ srv'.lease = "offered" /\ job.runtime # "native-process"
    <2>1. CASE RequestCancel
      BY <1>k, <2>1 DEF RequestCancel, Rec, SrvFields
    <2>2. CASE Revoke
      BY <1>k, <2>2 DEF Revoke, Rec, SrvFields
    <2>3. CASE ControllerStops
      <3>1. PICK c \in Clients : cl[c].pc = "poll"
        BY <2>3 DEF ControllerStops, At
      <3>2. job.runtime # "native-process"
        BY <3>1 DEF ClientInv, ClientOK
      <3>3. srv.lease = "none" /\ srv' = [srv EXCEPT !.lease = "offered"]
        BY <2>3 DEF ControllerStops
      <3> QED BY <1>k, <3>2, <3>3 DEF Rec, SrvFields
    <2>4. CASE \E c \in Clients : Crash(c)
      BY <1>k, <2>4 DEF Crash
    <2> QED BY <2>1, <2>2, <2>3, <2>4
  <1>3. Steady
    BY <1>0, <1>2, SteadyWhile DEF Unclaimed
  <1>4. ServerOK(srv)' /\ HostOK(host)'
    <2>1. HostOK(host)'
      BY <1>0, <1>3, HeldSame DEF Steady
    <2>2. ServerOK(srv)'
      BY <1>0, <1>2, <1>k DEF ServerOK, Good, Gone, UserCodeRuns, Unclaimed
    <2> QED BY <2>1, <2>2
  <1>5. ClientInv'
    BY <1>0, <1>1, <1>3, <1>4, Undisturbed
  <1> QED BY <1>0, <1>1, <1>2, <1>5 DEF Shaped

-----------------------------------------------------------------------------
(* Nothing has started, and nothing is claimed.                            *)
LEMMA InitHolds ==
    Init => Shaped /\ ClientInv
  <1> SUFFICES ASSUME Init PROVE Shaped /\ ClientInv
    OBVIOUS
  <1>1. PICK w \in Workloads :
          /\ job = w.job
          /\ srv = [lease |-> "none", live |-> Granted(w.job.differs), cancel |-> FALSE, cas |-> {}, result |-> None,
                    artifact |-> None, reason |-> None]
          /\ host = [identity |-> None, pending |-> None, collected |-> {}, receipt |-> None,
                     out |-> [checkpoints |-> w.leftovers, loads |-> {}, markers |-> FALSE]]
          /\ ex = NoExecutor /\ cl = [c \in Clients |-> IdleClient]
    BY DEF Init
  <1>2. \A c \in Clients : cl[c] = IdleClient
    BY <1>1
  <1>3. /\ Rec(ex, ExFields) /\ ex.starts = 0 /\ ex.code = None /\ ex.stranger = "no" /\ ex.cid \in BOOLEAN /\ ex.wrote = 0
    BY <1>1 DEF NoExecutor, Rec, ExFields
  <1>4. Shaped
    <2>1. Rec(srv, SrvFields)
      BY <1>1 DEF Rec, SrvFields
    <2>2. Rec(host, HostFields) /\ Rec(host.out, OutFields)
      BY <1>1 DEF Rec, HostFields, OutFields
    <2>3. ClientsShaped
      BY <1>1, <1>2, IdleShape DEF ClientsShaped
    <2>4. \E x \in Workloads : job = x.job
      BY <1>1
    <2> QED BY <1>3, <2>1, <2>2, <2>3, <2>4 DEF Shaped
  <1>5. \A c \in Clients : ClientOK(c) /\ NativeOK(c)
    BY <1>2, IdleShape DEF ClientOK, NativeOK, Executing, Reporting
  <1>6. OneClaim
    BY <1>2, IdleShape DEF OneClaim, Executing
  <1>7. ServerOK(srv)
    BY <1>1, <1>3, NoneAssumption DEF ServerOK
  <1>8. HostOK(host)
    <2> DEFINE all == w.leftovers \cup {w.job.writes[i] : i \in 1..Len(w.job.writes)}
    <2>1. (\A k \in all : k.index \in Nat) /\ (all # {} => \E top \in all : \A k \in all : k.index <= top.index)
      BY WorkloadsAssumption
    <2>2. PICK n \in Nat : \A k \in all : k.index \in 0..n
      <3>1. CASE all = {}
        BY <3>1
      <3>2. CASE all # {}
        <4>1. PICK top \in all : \A k \in all : k.index <= top.index
          BY <2>1, <3>2
        <4> HIDE DEF all
        <4>2. \A k \in all : k.index \in 0..top.index
          BY <2>1, <4>1
        <4> QED BY <2>1, <4>1, <4>2
      <3> QED BY <3>1, <3>2
    <2>3. w.leftovers \subseteq all /\ \A i \in 1..Len(w.job.writes) : w.job.writes[i] \in all
      OBVIOUS
    <2> HIDE DEF all
    <2>4. host.identity = None /\ host.pending = None /\ host.receipt = None /\ host.out.checkpoints = w.leftovers
      BY <1>1
    <2> QED BY <1>1, <2>2, <2>3, <2>4 DEF HostOK
  <1>9. ExecutorOK(ex)
    BY <1>3, NoneAssumption DEF ExecutorOK
  <1> QED BY <1>4, <1>5, <1>6, <1>7, <1>8, <1>9 DEF ClientInv

(* Every step keeps the invariant.                                         *)
LEMMA NextHolds ==
    Shaped /\ ClientInv /\ [Next]_vars => Shaped' /\ ClientInv'
  <1> SUFFICES ASSUME Shaped, ClientInv, [Next]_vars PROVE Shaped' /\ ClientInv'
    OBVIOUS
  <1>1. CASE UNCHANGED vars
    <2>1. UNCHANGED <<job, srv, host, ex, cl>>
      BY <1>1 DEF vars
    <2>2. Keeps(ex, ex')
      BY <2>1, KeptWhole
    <2>3. Steady /\ ServerOK(srv)' /\ HostOK(host)'
      BY <2>1, <2>2, HeldSame DEF Steady, BaselineKept
    <2>4. ClientInv'
      BY <2>1, <2>3, Undisturbed
    <2> QED BY <2>1, <2>4 DEF Shaped, ClientsShaped
  <1>2. ASSUME NEW c \in Clients, RunOnce(c) PROVE Shaped' /\ ClientInv'
    BY <1>2, BeginHolds, PollHolds, FetchHolds, LaunchHolds, RecordHolds, ReapHolds, TimeOutHolds, SeeCancelHolds,
       FinishCancelledHolds, SettleHolds, UploadHolds, SavePendingHolds, CompleteHolds, FailHolds, DropHolds, ResumeHolds,
       StopOriginalHolds, SignalOriginalHolds, AwaitOriginalHolds DEF RunOnce
  <1>3. ASSUME NEW c \in Clients, NativeRun(c) PROVE Shaped' /\ ClientInv'
    BY <1>3, NativeBeginHolds, RunHelperHolds, NativeEndHolds DEF NativeRun
  <1>4. CASE Executor
    BY <1>4, ExecutorHolds, TrainHolds DEF Executor
  <1>5. CASE Disturb
    BY <1>5, ExecutorHolds, DisturbHolds DEF Disturb
  <1> QED BY <1>1, <1>2, <1>3, <1>4, <1>5 DEF Next

(* User code is started at most once for a lease, only as authorized, and  *)
(* a completed lease (client.py complete, http.py _complete), or a native  *)
(* receipt of success, is of that one execution, with a clean exit.        *)
THEOREM CompletionsAreExecuted ==
    Spec => []CompletedIsExecuted
  <1>1. Shaped /\ ClientInv => CompletedIsExecuted
    BY DEF ClientInv, ServerOK, HostOK, ExecutorOK, Good, CompletedIsExecuted
  <1> QED BY <1>1, InitHolds, NextHolds, PTL DEF Spec

(* A failure recorded as cancel-observed (client.py _resume_claimed,       *)
(* sandbox.py and mps.py _finish_cancelled), or a native receipt with it,  *)
(* is of an executor that runs no more, and a stop by an identity with a   *)
(* start token never signals a stranger that had the pid when it was       *)
(* compared.                                                               *)
THEOREM CancellationsAreObserved ==
    Spec => []CancelObservedStops
  <1>1. Shaped /\ ClientInv => CancelObservedStops
    BY DEF ClientInv, ServerOK, HostOK, ExecutorOK, Gone, CancelObservedStops
  <1> QED BY <1>1, InitHolds, NextHolds, PTL DEF Spec
=============================================================================
