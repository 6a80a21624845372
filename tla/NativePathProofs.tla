-------------------------- MODULE NativePathProofs --------------------------
(***************************************************************************)
(* Proofs about reviewed native work as a whole.                           *)
(***************************************************************************)
EXTENDS NativePath, RunReducerProofs, FiniteSetTheorems, TLAPS

-----------------------------------------------------------------------------
(* Shapes.  A record is a function of its field names.                     *)
Rec(r, F) == r = [f \in F |-> r[f]]

CtlFields == {"run", "facts", "lease", "reason", "revoked", "lapsed", "lock", "journal", "outcomes", "cas", "artifact"}
ProcFields ==
    {"op", "root", "lossy", "lease", "pc", "ok", "no", "lost", "then", "fresh", "claimed", "carried", "started",
     "cancelSeen", "authorityLost", "writing", "row", "j", "seen", "doc", "report"}
HostFields ==
    {"cache", "staged", "journal", "exported", "workspace", "lock", "prepare", "ray", "intent", "claim", "identity",
     "start", "result", "outcome", "cancelled", "differs"}
JournalFields == {"status", "attempts", "starts", "lease", "obs"}
ChildFields == {"state", "code", "loaded", "released"}
DocFields == {"start", "obs", "out"}
SeenFields == {"status", "runCancel", "requested", "revoked", "lease", "reason", "attempt", "obs"}

Seeing == {"lr.cancel", "lr.stop", "lr.fail", "lr.settle"}

IsProc(r) ==
    /\ Rec(r, ProcFields) /\ r.root \in Roots /\ r.row \in Nat \ {0} /\ r.claimed \in BOOLEAN /\ r.carried \in BOOLEAN
    /\ Rec(r.j, JournalFields) /\ Rec(r.doc, DocFields) /\ Rec(r.report, DocFields)
    /\ r.pc \in Seeing => Rec(r.seen, SeenFields)

IsHost(h) == Rec(h, HostFields) /\ Rec(h.journal, JournalFields)

Shaped ==
    /\ Rec(ctl, CtlFields) /\ Rec(proc, Procs) /\ Rec(host, Roots) /\ Rec(child, Procs)
    /\ \A p \in Procs : IsProc(proc[p]) /\ Rec(child[p], ChildFields)
    /\ \A r \in Roots : IsHost(host[r])

-----------------------------------------------------------------------------
(* Where a process is, and what it does when a call returns.               *)
Rest == {"done", "refused", "dead"}
Transferring == {"prepare", "stage", "transfer", "verify"}
Claiming == {"claim", "claim.queue", "claim.open", "claim.claim", "claim.consume"}
Starting == {"start", "start.journal", "start.fact", "start.check"}
Blocked == {"identity", "start.write", "start", "start.journal", "start.fact", "start.check", "barrier", "fetch", "release"}
Outputting == {"output", "output.put", "output.complete"}
Outcoming ==
    {"outcome", "outcome.unknown", "outcome.journal", "outcome.settle", "outcome.fail", "outcome.cancel",
     "outcome.attempt", "outcome.run"}
Locked ==
    {"claim.queue", "claim.open", "claim.claim", "claim.consume", "start.journal", "start.fact", "start.check",
     "output.put", "output.complete", "outcome.unknown", "outcome.journal", "outcome.settle", "outcome.fail",
     "outcome.cancel", "outcome.attempt", "outcome.run"}
Launching ==
    {"claimed", "spawn", "identity", "start.write", "barrier", "fetch", "release", "collect", "abort", "result",
     "outcome.write"}
Publishing == {"publish", "report", "output.no", "cancelled.write", "leave"}
LocalEarly == {"local.intent", "local.queue"}
LocalLaunch ==
    {"local.started", "local.spawn", "local.identity", "local.release", "local.collect", "local.settle",
     "local.attempt", "local.run"}
LocalLast == {"local.except", "local.late", "local.unknown"}
Reconciling ==
    {"lr", "lr.cancel", "lr.stop", "lr.fail", "lr.settle", "lr.attempt", "lr.run", "lr.started", "lr.unknown"}

FlowOK(r) ==
    /\ r.op \in Ops
    /\ r.pc = "write" => r.op = "write"
    /\ r.pc = "begin" => r.op \in {"ray", "driver", "execute", "reconcile", "local", "localreconcile"} /\ ~r.claimed
    /\ r.pc = "post" => r.op = "ray"
    /\ r.pc \in {"carry", "carry.claim", "carry.export"} => r.op = "carry"
    /\ r.pc \in Transferring =>
           \/ r.op = "prepare" /\ r.ok = "done" /\ r.no = "refused"
           \/ r.op = "carry" /\ r.pc # "prepare" /\ r.ok = "carry.claim" /\ r.no = "refused"
           \/ r.op = "execute" /\ r.no = "leave" /\ ((r.ok = "intent" /\ ~r.claimed) \/ (r.ok = "spawn" /\ r.claimed))
    /\ r.pc = "intent" => r.op = "execute" /\ ~r.claimed
    /\ r.pc \in Claiming =>
           /\ ~r.claimed
           /\ \/ r.op = "execute" /\ r.ok = "claimed" /\ r.no = "leave" /\ r.lost = "leave"
              \/ /\ r.op = "local" /\ r.pc \notin {"claim", "claim.queue"} /\ r.row > 1
                 /\ r.ok = "local.started" /\ r.no = "local.except" /\ r.lost = "local.except"
    /\ r.pc \in Starting => r.op = "execute" /\ r.claimed /\ r.ok = "barrier" /\ r.no = "abort" /\ r.lost = "abort"
    /\ r.pc \in Launching => r.op = "execute" /\ r.claimed
    /\ r.pc \in Outputting => r.op \in {"execute", "reconcile"} /\ r.ok = "report" /\ r.no = "output.no" /\ r.lost = "leave"
    /\ r.pc \in Outcoming =>
           /\ r.op \in {"execute", "reconcile"} /\ r.ok \in {"cancelled.write", "leave"}
           /\ r.no \in {"report", "leave"} /\ r.lost = "leave"
    /\ r.pc \in Publishing => r.op \in {"execute", "reconcile"}
    /\ r.pc \in {"observe", "replay"} => r.op = "reconcile"
    /\ r.pc \in LocalEarly => r.op = "local" /\ ~r.claimed
    /\ r.pc \in LocalLaunch => r.op = "local" /\ r.claimed
    /\ r.pc \in LocalLast => r.op = "local"
    /\ r.pc \in Reconciling =>
           \/ r.op = "local" /\ r.ok = "local.except" /\ r.no = "local.except"
           \/ r.op = "localreconcile" /\ r.ok = "done" /\ r.no = "done"
    /\ r.then \in {"leave", "publish"}
    /\ r.claimed => r.op \in {"execute", "local"}
    /\ r.row > 1 => r.op = "local"
    /\ r.op = "local" /\ r.claimed => r.row > 1
    /\ r.carried => r.op = "carry"
    /\ r.op = "carry" => r.lease # None

LockOK == ctl.lock = NoProc \/ (ctl.lock \in Procs /\ proc[ctl.lock].pc \in Locked)

Separate ==
    \A p, q \in Procs :
        proc[p].op \in {"driver", "execute"} /\ proc[q].op \in {"local", "localreconcile"} => proc[p].root # proc[q].root

-----------------------------------------------------------------------------
(* One launch.  The event ids decide between a remote and a local run, the *)
(* first row between two local ones, the lease between two remote ones.    *)
Contender(r) == r.claimed \/ (r.fresh /\ r.pc \in {"claim.claim", "claim.consume"})

LaunchOK(r) ==
    /\ r.pc = "claim.claim" => ctl.lease # "none"
    /\ r.pc = "claim.consume" => ctl.lease \notin {"none", "leased"}
    /\ r.claimed => ctl.lease \in ConsumedLease
    /\ r.op = "execute" /\ (r.claimed \/ r.pc \in {"claim.open", "claim.claim", "claim.consume"})
           => Recorded("remote", "run.queued")
    /\ r.row > 1 => Recorded("local", "run.queued")

OneContender == \A p, q \in Procs : Contender(proc[p]) /\ Contender(proc[q]) => p = q
OneLocal == \A p, q \in Procs : proc[p].row > 1 /\ proc[q].row > 1 => p = q
OneKind ==
    /\ ~(Recorded("remote", "run.queued") /\ Recorded("local", "run.queued"))
    /\ \A kind \in {"remote", "local"} : Recorded(kind, "run.queued") => ctl.run # None
LeaseOK == ctl.lease \in {"none", "leased", "claimed", "consumed", "completed", "failed"}

-----------------------------------------------------------------------------
(* The child follows its process.                                          *)
ChildOK(r, c) ==
    /\ c.state \in {"none", "blocked", "user", "lingering", "exited"}
    /\ ~r.claimed => c = NoChild
    /\ r.pc \in {"claimed", "spawn", "local.started", "local.spawn"} \cup Transferring => c = NoChild
    /\ r.pc \in Blocked => c.state = "blocked" /\ ~c.released
    /\ r.pc = "abort" => c.state # "none"
    /\ r.pc \in {"local.identity", "local.release"} => c.state \in {"blocked", "exited"} /\ ~c.released
    /\ r.pc \in {"collect", "local.collect"} => c.state \in {"user", "lingering", "exited"} /\ (c.released \/ c.code = 70)
    /\ r.pc = "local.settle" => c.state = "exited" /\ (c.released \/ c.code = 70)
    /\ c.released => c.loaded = AllGood
    /\ c.released \in BOOLEAN
    /\ c.state \in {"user", "lingering"} => c.released

-----------------------------------------------------------------------------
(* Files of the state root, the transfer journal and the facts that        *)
(* precede a release.                                                      *)
PreIntent(r) == r.op = "execute" /\ (r.pc = "intent" \/ (r.pc \in Transferring /\ r.ok = "intent"))
PastIntent(r) == r.op \in {"execute", "local"} /\ (r.claimed \/ r.pc \in Claiming \cup {"local.queue"})

FilesOK(p, r, h, c) ==
    /\ r.op \in {"execute", "reconcile"} /\ r.pc \notin Rest \cup {"begin"} => h.lock = p
    /\ PreIntent(r) => h.intent = NoProc
    /\ PastIntent(r) => h.intent = p
    /\ r.pc = "observe" => h.identity # NoProc
    /\ (PastIntent(r) \/ r.pc \in {"intent", "local.intent"}) => h.differs = {}
    /\ r.pc \in {"stage", "transfer", "verify"} =>
           h.prepare = p /\ (r.op # "carry" => h.differs \cap {"prefix", "identity", "material", "grant", "objects", "ceiling"} = {})
    /\ r.op = "execute" /\ (r.pc \in Transferring \cup {"spawn"} \cup Blocked \/ c.released) /\ r.claimed => h.claim = p
    /\ (r.pc \in (Blocked \ {"identity"}) \cup {"local.release"} \/ c.released) => h.identity = p
    /\ r.op = "execute" /\ (r.pc \in Blocked \ {"identity", "start.write"} \/ c.released) => h.start = p

RecordedOK(p, r, c) ==
    /\ r.pc \in Starting => r.doc.start = p
    /\ r.op = "execute" /\ (r.pc \in {"start.fact", "start.check", "barrier", "fetch", "release"} \/ c.released)
           => ctl.journal = p
    /\ r.op = "execute" /\ (r.pc \in {"start.check", "barrier", "fetch", "release"} \/ c.released)
           => Recorded("remote", "attempt.started")
    /\ r.op = "local" /\ (r.pc \in {"local.spawn", "local.identity", "local.release"} \/ c.released)
           => Recorded("local", "attempt.started")

CarryOK(r, h) ==
    /\ r.pc = "transfer" => r.j.starts = h.journal.starts /\ (h.journal.lease # None => r.j.lease = h.journal.lease)
    /\ r.carried => h.journal.starts # 0 /\ h.journal.lease = r.lease

RootOK(r, h) ==
    /\ h.journal.starts # 0 => h.journal.lease # None
    /\ h.differs \subseteq Facets
    /\ h.identity # NoProc =>
           /\ h.identity \in Procs /\ proc[h.identity].claimed /\ child[h.identity].state # "none"
           /\ proc[h.identity].root = r
    /\ h.start # NoProc => h.start \in Procs /\ proc[h.start].claimed /\ proc[h.start].op = "execute"

-----------------------------------------------------------------------------
(* Evidence.  What a document says of an exit stays true, and the lease is *)
(* settled only on such evidence.                                          *)
Exited(q) == q \in Procs /\ proc[q].claimed /\ child[q].state = "exited"

DocOK(d) ==
    /\ d.out \in {"unknown", "completed", "failed", "cancelled"}
    /\ d.obs = "exited" => Exited(d.start)
    /\ d.out # "unknown" => d.obs = "exited"
    /\ d.out = "completed" => child[d.start].released /\ child[d.start].code = 0

SettledAs(out) ==
    CASE out = "completed" -> ctl.lease = "completed"
      [] out = "failed" -> ctl.lease = "failed" /\ ctl.reason = "native-task-failed"
      [] out = "cancelled" -> ctl.lease = "failed" /\ ctl.reason = "cancel-observed"
      [] OTHER -> FALSE

EvidenceOK(r) ==
    /\ r.op \in {"driver", "execute", "reconcile"} => DocOK(r.doc) /\ DocOK(r.report)
    /\ r.pc \in Outputting \cup {"output.no"} => r.doc.out = "completed"
    /\ r.pc = "output.complete" => r.doc.start \in ctl.cas
    /\ r.pc \in {"outcome.journal", "outcome.settle"} => r.doc.out # "unknown"
    /\ r.pc = "outcome.fail" => r.doc.out = "failed"
    /\ r.pc = "outcome.cancel" => r.doc.out = "cancelled"
    /\ r.pc \in {"outcome.attempt", "outcome.run", "local.attempt", "local.run", "lr.attempt", "lr.run"}
           => SettledAs(r.doc.out)
    /\ r.pc \in Seeing =>
           /\ r.seen.obs = "exited" => \E q \in Procs : Exited(q)
           /\ r.seen.obs = "running" => host[r.root].identity # NoProc
           /\ r.seen.lease \in {"completed", "failed"} => ctl.lease = r.seen.lease /\ ctl.reason = r.seen.reason

KeptOK(h) == \A d \in {h.outcome, h.cancelled} : d # None => Rec(d, DocFields) /\ DocOK(d)

SettledOK ==
    /\ ctl.lease \in {"completed", "failed"} => \E q \in Procs : Exited(q)
    /\ ctl.lease = "completed" =>
           /\ ctl.artifact \in ctl.cas /\ ctl.artifact \in Procs
           /\ Exited(ctl.artifact) /\ child[ctl.artifact].released /\ child[ctl.artifact].code = 0
    /\ ctl.lease = "failed" => ctl.reason \in {"native-task-failed", "cancel-observed"}
    /\ ctl.lease = "failed" /\ ctl.reason = "cancel-observed" => CancelRequested

RunOK ==
    /\ ctl.run = None \/ (ctl.run \in Snapshot /\ SnapshotOK(ctl.run))
    /\ RunIs(TerminalRun) => SettledAs(ctl.run.status)

-----------------------------------------------------------------------------
OwnOK(p) ==
    /\ FlowOK(proc[p]) /\ LaunchOK(proc[p]) /\ ChildOK(proc[p], child[p])
    /\ FilesOK(p, proc[p], H(p), child[p]) /\ RecordedOK(p, proc[p], child[p])
    /\ CarryOK(proc[p], H(p)) /\ EvidenceOK(proc[p])

ControlOK == OneKind /\ LeaseOK /\ SettledOK /\ RunOK

NativeInv ==
    /\ Shaped /\ LockOK /\ Separate /\ OneContender /\ OneLocal /\ ControlOK
    /\ \A p \in Procs : OwnOK(p)
    /\ \A r \in Roots : RootOK(r, host[r]) /\ KeptOK(host[r])

-----------------------------------------------------------------------------
(* What a step of process p may do to the rest.                            *)
ProcMono(p) ==
    /\ Rec(proc', Procs) /\ IsProc(proc'[p])
    /\ \A q \in Procs \ {p} : proc'[q] = proc[q]
    /\ proc'[p].root = proc[p].root
    /\ proc'[p].op = proc[p].op \/ (proc[p].op = "driver" /\ proc'[p].op = "execute")
    /\ proc[p].claimed => proc'[p].claimed
    /\ Contender(proc'[p]) => Contender(proc[p]) \/ \A q \in Procs \ {p} : ~Contender(proc[q])
    /\ proc'[p].row > 1 => proc[p].row > 1 \/ \A q \in Procs \ {p} : ~(proc[q].row > 1)

LockMono(p) ==
    /\ ctl'.lock \in {ctl.lock, NoProc, p}
    /\ ctl'.lock = p => proc'[p].pc \in Locked

CtlMono ==
    /\ Rec(ctl', CtlFields) /\ ctl.facts \subseteq ctl'.facts /\ ctl.cas \subseteq ctl'.cas
    /\ ctl.journal # NoProc => ctl'.journal = ctl.journal
    /\ ctl.lease # "none" => ctl'.lease # "none"
    /\ ctl.lease \notin {"none", "leased"} => ctl'.lease \notin {"none", "leased"}
    /\ ctl.lease \in ConsumedLease => ctl'.lease \in ConsumedLease
    /\ ctl.lease \in {"completed", "failed"} =>
           ctl'.lease = ctl.lease /\ ctl'.reason = ctl.reason /\ ctl'.artifact = ctl.artifact

HostMono(p) ==
    /\ Rec(host', Roots)
    /\ \A r \in Roots :
           /\ IsHost(host'[r]) /\ host'[r].differs = host[r].differs
           /\ host'[r].lock = host[r].lock \/ host[r].lock \in {NoProc, p}
           /\ host'[r].prepare = host[r].prepare \/ host[r].prepare \in {NoProc, p}
           /\ \/ host'[r].intent = host[r].intent
              \/ /\ host[r].intent = NoProc /\ r = proc[p].root
                 /\ proc[p].op = "local" \/ (proc[p].op = "execute" /\ host[r].lock = p)
           /\ host'[r].claim = host[r].claim \/ proc[p].claimed
           /\ \/ host'[r].identity = host[r].identity
              \/ proc[p].claimed /\ host'[r].identity = p /\ r = proc[p].root /\ child[p].state # "none"
           /\ \/ host'[r].start = host[r].start
              \/ proc[p].claimed /\ proc[p].op = "execute" /\ host'[r].start = p
           /\ \/ host'[r].journal.starts = host[r].journal.starts /\ host'[r].journal.lease = host[r].journal.lease
              \/ /\ host[r].prepare \in {NoProc, p}
                 /\ host'[r].journal.starts # 0 => host'[r].journal.lease # None
                 /\ host[r].journal.starts # 0 =>
                        host'[r].journal.starts # 0 /\ host'[r].journal.lease = host[r].journal.lease
           /\ \A d \in {host'[r].outcome, host'[r].cancelled} :
                  \/ d \in {host[r].outcome, host[r].cancelled}
                  \/ d = proc[p].doc /\ proc[p].op \in {"execute", "reconcile"}

ChildMono(p) ==
    /\ Rec(child', Procs)
    /\ \A q \in Procs :
           /\ Rec(child'[q], ChildFields)
           /\ child[q].state = "exited" => child'[q] = child[q]
           /\ child[q].state # "none" => child'[q].state # "none"
           /\ \/ q = p \/ child'[q] = child[q]
              \/ /\ child[q].state # "none" /\ child'[q] = [child[q] EXCEPT !.state = "exited"]
                 /\ proc[q].pc \notin Blocked

StepOf(p) == ProcMono(p) /\ LockMono(p) /\ CtlMono /\ HostMono(p) /\ ChildMono(p)

-----------------------------------------------------------------------------
(* A step of one process leaves what is known of the others.               *)

(* An exit that was observed stays one.                                    *)
LEMMA ExitStays ==
    ASSUME Shaped, NEW p \in Procs, ProcMono(p), ChildMono(p), NEW q, Exited(q)
    PROVE  Exited(q)' /\ child'[q] = child[q]
  BY Zenon DEF Exited, ProcMono, ChildMono

(* So a document stays true.                                               *)
LEMMA DocStays ==
    ASSUME Shaped, NEW p \in Procs, ProcMono(p), ChildMono(p), NEW d, DocOK(d)
    PROVE  DocOK(d)'
  <1>1. d.obs = "exited" => Exited(d.start)' /\ child'[d.start] = child[d.start]
    BY ExitStays DEF DocOK
  <1> QED BY <1>1 DEF DocOK

LEMMA OtherLaunch ==
    ASSUME NativeInv, NEW p \in Procs, ProcMono(p), CtlMono, NEW q \in Procs \ {p}
    PROVE  FlowOK(proc[q])' /\ LaunchOK(proc[q])'
  <1>1. proc'[q] = proc[q] /\ FlowOK(proc[q]) /\ LaunchOK(proc[q])
    BY DEF ProcMono, NativeInv, OwnOK
  <1>2. LaunchOK(proc[q])'
    BY <1>1 DEF LaunchOK, CtlMono, Recorded, Fact
  <1> QED BY <1>1, <1>2 DEF FlowOK

LEMMA OtherChild ==
    ASSUME NativeInv, NEW p \in Procs, ProcMono(p), ChildMono(p), NEW q \in Procs \ {p}
    PROVE  ChildOK(proc[q], child[q])' /\ child'[q].released = child[q].released
  <1>1. proc'[q] = proc[q] /\ ChildOK(proc[q], child[q]) /\ Rec(child[q], ChildFields)
    BY DEF ProcMono, NativeInv, OwnOK, Shaped
  <1>2. CASE child'[q] = child[q]
    BY <1>1, <1>2 DEF ChildOK
  <1>3. CASE child[q].state # "none" /\ child'[q] = [child[q] EXCEPT !.state = "exited"] /\ proc[q].pc \notin Blocked
    <2>1. /\ child'[q].state = "exited" /\ child'[q].released = child[q].released
          /\ child'[q].code = child[q].code /\ child'[q].loaded = child[q].loaded
      BY <1>1, <1>3 DEF Rec, ChildFields
    <2>2. child[q] # NoChild
      BY <1>3 DEF NoChild
    <2> QED BY <1>1, <1>3, <2>1, <2>2 DEF ChildOK
  <1> QED BY <1>2, <1>3 DEF ChildMono

LEMMA OtherFiles ==
    ASSUME NativeInv, NEW p \in Procs, StepOf(p), NEW q \in Procs \ {p}
    PROVE  FilesOK(q, proc[q], H(q), child[q])'
  <1> DEFINE h == host[proc[q].root]
             k == host'[proc[q].root]
  <1>1. /\ proc'[q] = proc[q] /\ proc[q].root \in Roots /\ FilesOK(q, proc[q], h, child[q]) /\ q # p /\ q # NoProc
        /\ FlowOK(proc[q]) /\ FlowOK(proc[p]) /\ ChildOK(proc[q], child[q])
    BY ControlAssumption DEF StepOf, ProcMono, NativeInv, OwnOK, Shaped, IsProc, H
  <1>2. child'[q].released = child[q].released
    BY OtherChild DEF StepOf
  <1>3. k.lock = h.lock \/ h.lock \in {NoProc, p}
    BY <1>1 DEF StepOf, HostMono
  <1>4. k.prepare = h.prepare \/ h.prepare \in {NoProc, p}
    BY <1>1 DEF StepOf, HostMono
  <1>5. k.differs = h.differs
    BY <1>1 DEF StepOf, HostMono
  <1>6. proc[q].claimed => k.claim = h.claim /\ k.identity = h.identity /\ k.start = h.start
    <2>1. proc[q].claimed /\ proc[p].claimed => p = q
      BY DEF NativeInv, OneContender, Contender
    <2> QED BY <1>1, <2>1 DEF StepOf, HostMono
  <1>7. \/ k.intent = h.intent
        \/ /\ h.intent = NoProc /\ proc[q].root = proc[p].root
           /\ proc[p].op = "local" \/ (proc[p].op = "execute" /\ h.lock = p)
    BY Zenon, <1>1 DEF StepOf, HostMono
  <1>8. PreIntent(proc[q]) => h.lock = q /\ proc[q].op = "execute"
    BY Zenon, <1>1 DEF FilesOK, PreIntent, Transferring, Rest
  <1>9. PreIntent(proc[q]) => k.intent = h.intent
    <2>1. proc[q].op = "execute" /\ proc[p].op = "local" => proc[q].root # proc[p].root
      BY DEF NativeInv, Separate
    <2> QED BY <1>1, <1>7, <1>8, <2>1
  <1>10. PastIntent(proc[q]) => k.intent = h.intent
    BY <1>1, <1>7 DEF FilesOK
  <1>11. child[q].released => proc[q].claimed
    BY <1>1 DEF ChildOK, NoChild
  <1>12. /\ proc[q].pc \in Blocked => proc[q].claimed
         /\ proc[q].pc = "local.release" => proc[q].claimed
    BY <1>1 DEF FlowOK, Blocked, Starting, Launching, LocalLaunch
  <1>14. h.identity # NoProc => k.identity # NoProc
    BY <1>1, ControlAssumption DEF StepOf, HostMono
  <1> HIDE DEF h, k
  <1>13. FilesOK(q, proc[q], k, child'[q])
    BY <1>1, <1>2, <1>3, <1>4, <1>5, <1>6, <1>9, <1>10, <1>11, <1>12, <1>14 DEF FilesOK
  <1> QED BY <1>1, <1>13 DEF H, k, FilesOK, PreIntent, PastIntent

LEMMA OtherRecorded ==
    ASSUME NativeInv, NEW p \in Procs, StepOf(p), NEW q \in Procs \ {p}
    PROVE  RecordedOK(q, proc[q], child[q])'
  <1>1. proc'[q] = proc[q] /\ RecordedOK(q, proc[q], child[q]) /\ q # NoProc
    BY ControlAssumption DEF StepOf, ProcMono, NativeInv, OwnOK
  <1>2. child'[q].released = child[q].released
    BY OtherChild DEF StepOf
  <1> QED BY <1>1, <1>2 DEF RecordedOK, StepOf, CtlMono, Recorded, Fact

LEMMA OtherCarry ==
    ASSUME NativeInv, NEW p \in Procs, StepOf(p), NEW q \in Procs \ {p}
    PROVE  CarryOK(proc[q], H(q))'
  <1> DEFINE h == host[proc[q].root]
             k == host'[proc[q].root]
  <1>1. /\ proc'[q] = proc[q] /\ proc[q].root \in Roots /\ CarryOK(proc[q], h) /\ q # p /\ q # NoProc
        /\ proc[q].pc = "transfer" => h.prepare = q
    BY ControlAssumption DEF StepOf, ProcMono, NativeInv, OwnOK, Shaped, IsProc, H, FilesOK
  <1>2. \/ k.journal.starts = h.journal.starts /\ k.journal.lease = h.journal.lease
        \/ /\ h.prepare \in {NoProc, p}
           /\ h.journal.starts # 0 => k.journal.starts # 0 /\ k.journal.lease = h.journal.lease
    BY Zenon, <1>1 DEF StepOf, HostMono
  <1> HIDE DEF h, k
  <1>3. CarryOK(proc[q], k)
    BY <1>1, <1>2 DEF CarryOK
  <1> QED BY <1>1, <1>3 DEF H, k, CarryOK

LEMMA OtherEvidence ==
    ASSUME NativeInv, NEW p \in Procs, StepOf(p), NEW q \in Procs \ {p}
    PROVE  EvidenceOK(proc[q])'
  <1>1. proc'[q] = proc[q] /\ EvidenceOK(proc[q]) /\ Shaped /\ proc[q].root \in Roots
    BY DEF StepOf, ProcMono, NativeInv, OwnOK, Shaped, IsProc
  <1>2. proc[q].op \in {"driver", "execute", "reconcile"} => DocOK(proc[q].doc)' /\ DocOK(proc[q].report)'
    <2>1. \A d : DocOK(d) => DocOK(d)'
      BY <1>1, DocStays DEF StepOf
    <2> QED BY <1>1, <2>1 DEF EvidenceOK, DocOK, Exited
  <1>3. (\E x \in Procs : Exited(x)) => \E x \in Procs : Exited(x)'
    BY <1>1, ExitStays DEF StepOf
  <1>4. host[proc[q].root].identity # NoProc => host'[proc[q].root].identity # NoProc
    BY <1>1, ControlAssumption DEF StepOf, HostMono
  <1>5. \A out : SettledAs(out) => SettledAs(out)'
    BY DEF SettledAs, StepOf, CtlMono
  <1>6. proc[q].doc.start \in ctl.cas => proc[q].doc.start \in ctl'.cas
    BY DEF StepOf, CtlMono
  <1>7. ctl.lease \in {"completed", "failed"} => ctl'.lease = ctl.lease /\ ctl'.reason = ctl.reason
    BY DEF StepOf, CtlMono
  <1> QED BY <1>1, <1>2, <1>3, <1>4, <1>5, <1>6, <1>7 DEF EvidenceOK, SettledAs

(* A step that keeps what is known of its process and of the controller    *)
(* keeps the invariant.                                                    *)
LEMMA StepKeeps ==
    ASSUME NativeInv, NEW p \in Procs, StepOf(p), OwnOK(p)', ControlOK'
    PROVE  NativeInv'
  <1>1. Shaped'
    BY Zenon DEF NativeInv, Shaped, StepOf, ProcMono, CtlMono, HostMono, ChildMono
  <1>2. LockOK'
    BY DEF NativeInv, LockOK, StepOf, LockMono, ProcMono
  <1>3. Separate'
    BY DEF NativeInv, Separate, StepOf, ProcMono
  <1>4. OneContender'
    BY DEF NativeInv, OneContender, StepOf, ProcMono
  <1>5. OneLocal'
    BY DEF NativeInv, OneLocal, StepOf, ProcMono
  <1>6. \A q \in Procs : OwnOK(q)'
    BY OtherLaunch, OtherChild, OtherFiles, OtherRecorded, OtherCarry, OtherEvidence DEF StepOf, OwnOK
  <1>7. ASSUME NEW r \in Roots PROVE RootOK(r, host[r])'
    <2>1. /\ RootOK(r, host[r]) /\ IsHost(host'[r]) /\ host'[r].differs = host[r].differs /\ p # NoProc
      BY ControlAssumption DEF NativeInv, StepOf, HostMono
    <2>2. \A q \in Procs : /\ proc[q].claimed => proc'[q].claimed
                           /\ proc'[q].root = proc[q].root
                           /\ proc[q].op = "execute" => proc'[q].op = "execute"
                           /\ child[q].state # "none" => child'[q].state # "none"
      BY Zenon DEF StepOf, ProcMono, ChildMono
    <2>3. host'[r].journal.starts # 0 => host'[r].journal.lease # None
      BY <2>1 DEF StepOf, HostMono, RootOK
    <2>4. \/ host'[r].identity = host[r].identity
          \/ proc[p].claimed /\ host'[r].identity = p /\ r = proc[p].root /\ child[p].state # "none"
      BY DEF StepOf, HostMono
    <2>5. \/ host'[r].start = host[r].start
          \/ proc[p].claimed /\ proc[p].op = "execute" /\ host'[r].start = p
      BY DEF StepOf, HostMono
    <2> QED BY <2>1, <2>2, <2>3, <2>4, <2>5 DEF RootOK
  <1>8. ASSUME NEW r \in Roots PROVE KeptOK(host[r])'
    <2>1. \A d : DocOK(d) => DocOK(d)'
      BY DocStays DEF StepOf, NativeInv
    <2>2. /\ KeptOK(host[r]) /\ Rec(proc[p].doc, DocFields)
          /\ proc[p].op \in {"execute", "reconcile"} => DocOK(proc[p].doc)
      BY DEF NativeInv, Shaped, IsProc, OwnOK, EvidenceOK
    <2>3. \A d \in {host'[r].outcome, host'[r].cancelled} :
              \/ d \in {host[r].outcome, host[r].cancelled}
              \/ d = proc[p].doc /\ proc[p].op \in {"execute", "reconcile"}
      BY DEF StepOf, HostMono
    <2>4. \A d \in {host'[r].outcome, host'[r].cancelled} : d # None => Rec(d, DocFields) /\ DocOK(d)'
      BY <2>1, <2>2, <2>3 DEF KeptOK
    <2> QED BY Zenon, <2>4 DEF KeptOK, DocOK, Exited
  <1> QED BY <1>1, <1>2, <1>3, <1>4, <1>5, <1>6, <1>7, <1>8 DEF NativeInv

-----------------------------------------------------------------------------
(* Parts of a step that change nothing.                                    *)
LEMMA CtlSame ==
    ASSUME NativeInv, UNCHANGED ctl
    PROVE  CtlMono /\ (ctl'.lock = ctl.lock) /\ OneKind' /\ LeaseOK' /\ RunOK'
  BY DEF NativeInv, Shaped, ControlOK, CtlMono, OneKind, LeaseOK, RunOK, Recorded, Fact, RunIs, SettledAs

LEMMA HostSame ==
    ASSUME NativeInv, UNCHANGED host, NEW p \in Procs
    PROVE  HostMono(p)
  BY DEF NativeInv, Shaped, HostMono

LEMMA ChildSame ==
    ASSUME NativeInv, UNCHANGED child, NEW p \in Procs
    PROVE  ChildMono(p)
  BY DEF NativeInv, Shaped, ChildMono

(* A step that settles nothing leaves a settled lease settled.             *)
LEMMA SettledStays ==
    ASSUME NativeInv, NEW p \in Procs, ProcMono(p), ChildMono(p), CtlMono,
           ctl'.lease \in {"completed", "failed"} => ctl.lease \in {"completed", "failed"},
           CancelRequested => CancelRequested'
    PROVE  SettledOK'
  <1>1. SettledOK /\ Shaped
    BY DEF NativeInv, ControlOK
  <1>2. \A q : Exited(q) => Exited(q)' /\ child'[q] = child[q]
    BY <1>1, ExitStays
  <1>3. /\ ctl'.lease \in {"completed", "failed"} => ctl'.lease = ctl.lease /\ ctl'.reason = ctl.reason /\ ctl'.artifact = ctl.artifact
        /\ ctl.cas \subseteq ctl'.cas
    BY DEF CtlMono
  <1>4. ctl'.lease \in {"completed", "failed"} => \E q \in Procs : Exited(q)'
    BY <1>1, <1>2, <1>3 DEF SettledOK
  <1>5. PICK a : a = ctl.artifact
    OBVIOUS
  <1>6. ctl'.lease = "completed" =>
           /\ ctl'.artifact = a /\ a \in ctl'.cas /\ a \in Procs
           /\ Exited(a)' /\ child'[a].released /\ child'[a].code = 0
    <2>1. ctl.lease = "completed" => Exited(a) /\ a \in ctl.cas /\ child[a].released /\ child[a].code = 0
      BY <1>1, <1>5 DEF SettledOK
    <2> QED BY <1>2, <1>3, <1>5, <2>1 DEF Exited
  <1> QED BY <1>1, <1>3, <1>4, <1>6 DEF SettledOK, Exited
-----------------------------------------------------------------------------
(* The Run.                                                                *)
DraftTypes ==
    {"run.queued", "run.started", "attempt.queued", "attempt.started", "attempt.unknown", "run.cancel.requested",
     "attempt.cancel.requested", "attempt.succeeded", "run.completed", "attempt.failed", "run.failed",
     "attempt.cancelled", "run.cancelled"}

Cancelled(s) == s.cancelRequested \/ (s.attempts # << >> /\ Latest(s).cancelRequested)

(* The drafts are events of one attempt.                                   *)
LEMMA DraftType ==
    ASSUME NEW type \in DraftTypes
    PROVE  LET e == LifecycleDraft(type)
           IN  /\ e \in Event /\ EnvelopeOK(e) /\ e.type = type /\ e.ordinal = 1
  <1>1. NativeAttempt \in AttemptIds /\ NativeRevision \in Revisions /\ 1 \in Ordinals
    BY ControlAssumption, ConstantsAssumption DEF NativeAttempt, NativeRevision, Ordinals
  <1>2. type \in EventTypes /\ NativeAttempt # None
    BY <1>1, ConstantsAssumption DEF DraftTypes, EventTypes, LifecycleTypes, RunTypes, AttemptTypes
  <1>3. type \in AttemptTypes => type \notin RunTypes
    BY DEF AttemptTypes, RunTypes
  <1> QED BY <1>1, <1>2, <1>3 DEF LifecycleDraft, Event, EnvelopeOK

(* A cancellation request is never withdrawn.                              *)
LEMMA CancelStays ==
    ASSUME NEW s \in Snapshot, SnapshotOK(s), NEW e \in Event, NEW q \in Nat, Guard(s, e, q), e.ordinal = 1,
           Cancelled(s)
    PROVE  Cancelled(Result(s, e, q))
  <1> DEFINE t == Result(s, e, q)
             n == Len(s.attempts)
  <1>0. /\ n \in Nat /\ DOMAIN s.attempts = 1 .. n /\ \A i \in DOMAIN s.attempts : s.attempts[i] \in Attempt
    BY AttemptsType
  <1>1. CASE e.type \in {"other", "run.reviewed"}
    <2>1. e.type \notin AttemptTypes
      BY <1>1 DEF AttemptTypes
    <2>2. t.attempts = s.attempts
      BY <2>1, KeptFields
    <2>3. t.cancelRequested = s.cancelRequested
      BY <1>1, ObservedFields
    <2> QED BY <2>2, <2>3 DEF Cancelled, Latest
  <1>2. CASE e.type \in RunTypes \ {"run.queued", "run.reviewed"}
    <2>1. e.type \notin AttemptTypes
      BY <1>2 DEF AttemptTypes, RunTypes
    <2>2. t.attempts = s.attempts
      BY <2>1, KeptFields
    <2>3. t.cancelRequested = (IF e.type = "run.cancel.requested" THEN TRUE ELSE s.cancelRequested)
      BY Zenon, <1>2, RunEventFields
    <2> QED BY <2>2, <2>3 DEF Cancelled, Latest
  <1>3. CASE e.type = "run.queued"
    BY <1>3 DEF Guard, RunEventOK, RunTypes
  <1>4. CASE e.type = "attempt.queued"
    <2>1. AttemptQueuedOK(s, e)
      BY <1>4 DEF Guard
    <2>2. ~s.cancelRequested /\ (FirstAttemptOK(s, e) \/ RetryOK(s, e))
      BY <2>1 DEF AttemptQueuedOK
    <2>3. s.attempts # << >> /\ RetryOK(s, e)
      BY <2>2 DEF Cancelled, FirstAttemptOK
    <2>4. n # 0
      BY <2>3, <1>0
    <2>5. Latest(s).ordinal = n
      BY <2>4 DEF SnapshotOK, OrdinalsContiguous, Latest
    <2> QED BY <2>3, <2>4, <2>5 DEF RetryOK
  <1>5. CASE e.type \in AttemptTypes \ {"attempt.queued"}
    <2>1. /\ n \in Nat \ {0} /\ t.cancelRequested = s.cancelRequested
          /\ Len(t.attempts) = n /\ t.attempts[n] = MovedAttempt(s.attempts[n], e, q)
      BY <1>5, AttemptEventFields
    <2>2. s.attempts[n] \in Attempt
      BY <1>0, <2>1
    <2>3. s.attempts[n].cancelRequested => MovedAttempt(s.attempts[n], e, q).cancelRequested
      BY <2>2 DEF MovedAttempt, Attempt
    <2> HIDE DEF t, n
    <2>4. t.attempts # << >> /\ Latest(s) = s.attempts[n] /\ Latest(t) = t.attempts[n]
      BY <2>1 DEF Latest, n
    <2> QED BY <2>1, <2>3, <2>4 DEF Cancelled, t
  <1> QED BY <1>1, <1>2, <1>3, <1>4, <1>5 DEF Event, EventTypes, LifecycleTypes, RunTypes, AttemptTypes

(* What an accepted event makes of the Run.                                *)
LEMMA NextRunFacts ==
    ASSUME RunOK, NEW type \in DraftTypes, NextRun(type) # Rejected
    PROVE  /\ NextRun(type) \in Snapshot /\ SnapshotOK(NextRun(type)) /\ NextRun(type) # None
           /\ type = "run.queued" <=> ctl.run = None
           /\ ~RunIs(TerminalRun)
           /\ NextRun(type).status \in TerminalRun =>
                  \/ type = "run.completed" /\ NextRun(type).status = "completed"
                  \/ type = "run.failed" /\ NextRun(type).status = "failed"
                  \/ type = "run.cancelled" /\ NextRun(type).status = "cancelled"
           /\ CancelRequested => Cancelled(NextRun(type))
  <1> DEFINE e == LifecycleDraft(type)
             s == ctl.run
             q == IF s = None THEN 1 ELSE s.lastSequence + 1
  <1>1. e \in Event /\ EnvelopeOK(e) /\ e.type = type /\ e.ordinal = 1
    BY DraftType
  <1>2. s = None \/ (s \in Snapshot /\ SnapshotOK(s))
    BY DEF RunOK
  <1>3. q \in Nat
    BY <1>2 DEF Snapshot
  <1>4. NextRun(type) = Apply(s, e, q)
    BY DEF NextRun
  <1> HIDE DEF e, q
  <1>5. CASE s = None
    <2>1. type = "run.queued" /\ NextRun(type) = FirstSnapshot(e, q)
      BY <1>1, <1>4, <1>5 DEF Apply, DraftTypes
    <2>2. FirstSnapshot(e, q) \in Snapshot /\ SnapshotOK(FirstSnapshot(e, q)) /\ FirstSnapshot(e, q).status = "queued"
      BY <1>1, <1>3, FirstSnapshotType, FirstSnapshotOK DEF FirstSnapshot
    <2> QED BY <1>5, <2>1, <2>2, SentinelAssumption DEF RunIs, CancelRequested, TerminalRun
  <1>6. CASE s # None
    <2>1. s \in Snapshot /\ SnapshotOK(s)
      BY <1>2, <1>6
    <2>2. /\ NextRun(type) = Result(s, e, q) /\ Guard(s, e, q) /\ SnapshotOK(Result(s, e, q))
      BY <1>1, <1>3, <1>4, <1>6, <2>1, ApplyCases
    <2>3. Result(s, e, q) \in Snapshot
      BY <1>1, <1>3, <2>1, ResultType
    <2>4. type # "run.queued"
      BY <1>1, <2>2 DEF Guard, RunEventOK, RunTypes
    <2>5. s.status \notin TerminalRun
      BY <1>1, <2>2 DEF Guard, LifecycleTypes, RunTypes, AttemptTypes, DraftTypes
    <2>6. Result(s, e, q).status \in TerminalRun =>
                  \/ type = "run.completed" /\ Result(s, e, q).status = "completed"
                  \/ type = "run.failed" /\ Result(s, e, q).status = "failed"
                  \/ type = "run.cancelled" /\ Result(s, e, q).status = "cancelled"
      <3>1. CASE type \in RunTypes \ {"run.queued", "run.reviewed"}
        <4>1. Result(s, e, q).status = CASE e.type = "run.started"   -> "running"
                        [] e.type = "run.completed" -> "completed"
                        [] e.type = "run.failed"    -> "failed"
                        [] e.type = "run.cancelled" -> "cancelled"
                        [] OTHER                    -> s.status
          BY Zenon, <1>1, <1>3, <2>1, <3>1, RunEventFields
        <4> QED BY <1>1, <2>5, <4>1 DEF TerminalRun
      <3>2. CASE type = "attempt.queued"
        BY <1>1, <1>3, <2>1, <3>2, AttemptQueuedFields DEF TerminalRun
      <3>3. CASE type \in AttemptTypes \ {"attempt.queued"}
        <4>1. Result(s, e, q).status = RunTo(type, s.status)
          BY <1>1, <1>3, <2>1, <2>2, <3>3, AttemptEventFields
        <4> QED BY <2>5, <4>1 DEF RunTo, TerminalRun
      <3> QED BY <2>4, <3>1, <3>2, <3>3 DEF DraftTypes, RunTypes, AttemptTypes
    <2>7. Cancelled(s) => Cancelled(Result(s, e, q))
      BY <1>1, <1>3, <2>1, <2>2, CancelStays
    <2> QED BY <1>6, <2>2, <2>3, <2>4, <2>5, <2>6, <2>7, SentinelAssumption DEF RunIs, CancelRequested, Cancelled
  <1> QED BY <1>5, <1>6
-----------------------------------------------------------------------------
(* What a step may do to the controller without settling the lease.        *)
CtlStep ==
    /\ CtlMono /\ OneKind' /\ LeaseOK' /\ RunOK' /\ (CancelRequested => CancelRequested')
    /\ ctl'.lease \in {"completed", "failed"} => ctl.lease \in {"completed", "failed"}

CtlKeeps(c) ==
    /\ Rec(c, CtlFields) /\ c.run = ctl.run /\ c.facts = ctl.facts /\ c.lease = ctl.lease /\ c.reason = ctl.reason
    /\ c.artifact = ctl.artifact /\ ctl.cas \subseteq c.cas /\ (ctl.journal # NoProc => c.journal = ctl.journal)

CtlAppends(c, kind, type) ==
    /\ Rec(c, CtlFields) /\ NextRun(type) # Rejected /\ c.run = NextRun(type)
    /\ c.facts \in {ctl.facts, ctl.facts \cup {Fact(kind, type)}}
    /\ c.lease = ctl.lease /\ c.reason = ctl.reason /\ c.artifact = ctl.artifact /\ c.cas = ctl.cas
    /\ c.journal = ctl.journal

LeaseUp == {<<"none", "leased">>, <<"leased", "claimed">>, <<"claimed", "consumed">>}

CtlLeases(c) ==
    /\ Rec(c, CtlFields) /\ <<ctl.lease, c.lease>> \in LeaseUp
    /\ c.run = ctl.run /\ c.facts = ctl.facts /\ c.reason = ctl.reason
    /\ c.artifact = ctl.artifact /\ c.cas = ctl.cas /\ c.journal = ctl.journal

LEMMA KeepsStep ==
    ASSUME NativeInv, CtlKeeps(ctl')
    PROVE  CtlStep
  BY DEF NativeInv, ControlOK, CtlStep, CtlKeeps, CtlMono, OneKind, LeaseOK, RunOK, Recorded, Fact, RunIs, SettledAs,
      CancelRequested

LEMMA LeasesStep ==
    ASSUME NativeInv, CtlLeases(ctl')
    PROVE  CtlStep
  <1>1. /\ Rec(ctl', CtlFields) /\ ctl'.run = ctl.run /\ ctl'.facts = ctl.facts /\ ctl'.reason = ctl.reason
        /\ ctl'.artifact = ctl.artifact /\ ctl'.cas = ctl.cas /\ ctl'.journal = ctl.journal
        /\ \/ ctl.lease = "none" /\ ctl'.lease = "leased"
           \/ ctl.lease = "leased" /\ ctl'.lease = "claimed"
           \/ ctl.lease = "claimed" /\ ctl'.lease = "consumed"
    BY DEF CtlLeases, LeaseUp
  <1>2. CtlMono
    BY <1>1 DEF CtlMono, ConsumedLease
  <1>3. LeaseOK' /\ OneKind' /\ (CancelRequested => CancelRequested')
    BY <1>1 DEF NativeInv, ControlOK, LeaseOK, OneKind, Recorded, Fact, CancelRequested
  <1>4. ~RunIs(TerminalRun)
    BY <1>1 DEF NativeInv, ControlOK, RunOK, SettledAs
  <1>5. RunOK'
    BY <1>1, <1>4 DEF NativeInv, ControlOK, RunOK, RunIs
  <1> QED BY <1>1, <1>2, <1>3, <1>5 DEF CtlStep

(* An event that ends the Run cites the settled lease.                     *)
Backed(type) ==
    /\ type = "run.completed" => SettledAs("completed")
    /\ type = "run.failed" => SettledAs("failed")
    /\ type = "run.cancelled" => SettledAs("cancelled")

LEMMA AppendsStep ==
    ASSUME NativeInv, NEW kind \in {"remote", "local"}, NEW type \in DraftTypes, Backed(type),
           CtlAppends(ctl', kind, type)
    PROVE  CtlStep
  <1>1. /\ Rec(ctl', CtlFields) /\ ctl'.run = NextRun(type)
        /\ ctl'.facts \in {ctl.facts, ctl.facts \cup {Fact(kind, type)}}
        /\ ctl'.lease = ctl.lease /\ ctl'.reason = ctl.reason /\ ctl'.artifact = ctl.artifact /\ ctl'.cas = ctl.cas
        /\ ctl'.journal = ctl.journal
    BY DEF CtlAppends
  <1>2. /\ NextRun(type) \in Snapshot /\ SnapshotOK(NextRun(type)) /\ NextRun(type) # None
        /\ type = "run.queued" <=> ctl.run = None
        /\ NextRun(type).status \in TerminalRun =>
                  \/ type = "run.completed" /\ NextRun(type).status = "completed"
                  \/ type = "run.failed" /\ NextRun(type).status = "failed"
                  \/ type = "run.cancelled" /\ NextRun(type).status = "cancelled"
        /\ CancelRequested => Cancelled(NextRun(type))
    BY NextRunFacts DEF CtlAppends, NativeInv, ControlOK
  <1> DEFINE n == NextRun(type)
  <1> HIDE DEF n
  <1>3. CtlMono /\ LeaseOK'
    BY <1>1 DEF CtlMono, NativeInv, ControlOK, LeaseOK
  <1>4. OneKind'
    <2>1. \A k \in {"remote", "local"} : ctl.run = None => ~Recorded(k, "run.queued")
      BY DEF NativeInv, ControlOK, OneKind
    <2>2. \A k : Recorded(k, "run.queued")' => Recorded(k, "run.queued") \/ (k = kind /\ type = "run.queued")
      BY <1>1 DEF Recorded, Fact
    <2>3. ctl'.run # None
      BY <1>1, <1>2
    <2> QED BY <1>2, <2>2, <2>3 DEF NativeInv, ControlOK, OneKind
  <1>5. CancelRequested => CancelRequested'
    BY <1>1, <1>2 DEF CancelRequested, Cancelled
  <1>6. \A out : SettledAs(out) => SettledAs(out)'
    BY <1>1 DEF SettledAs
  <1>7. RunOK'
    <2>1. RunIs(TerminalRun)' => SettledAs(n.status)
      BY <1>1, <1>2 DEF n, RunIs, Backed
    <2>2. ctl'.run = n
      BY <1>1 DEF n
    <2> QED BY <1>1, <1>2, <2>1, <2>2 DEF RunOK, n, SettledAs
  <1> QED BY <1>1, <1>3, <1>4, <1>5, <1>7 DEF CtlStep

(* The pieces of a step together.                                          *)
LEMMA StepOK ==
    ASSUME NativeInv, NEW p \in Procs, ProcMono(p), LockMono(p), CtlStep, HostMono(p), ChildMono(p), OwnOK(p)'
    PROVE  NativeInv'
  BY StepKeeps, SettledStays DEF StepOf, CtlStep, ControlOK
-----------------------------------------------------------------------------
(* Moves of one process.                                                   *)
Moved(p, S) ==
    /\ Rec(proc', Procs) /\ Rec(proc'[p], ProcFields)
    /\ \A q \in Procs \ {p} : proc'[q] = proc[q]
    /\ \A f \in ProcFields \ S : proc'[p][f] = proc[p][f]

Free == {"pc", "ok", "no", "lost", "then", "started", "cancelSeen", "authorityLost", "writing", "doc", "report"}

LEMMA MoveMono ==
    ASSUME NativeInv, NEW p \in Procs, Moved(p, Free), proc'[p].pc \notin Seeing,
           proc'[p].pc \in {"claim.claim", "claim.consume"} => proc[p].pc \in {"claim.claim", "claim.consume"},
           Rec(proc'[p].doc, DocFields), Rec(proc'[p].report, DocFields)
    PROVE  ProcMono(p)
  <1>1. /\ Rec(proc', Procs) /\ Rec(proc'[p], ProcFields)
        /\ \A q \in Procs \ {p} : proc'[q] = proc[q]
        /\ proc'[p].root = proc[p].root /\ proc'[p].op = proc[p].op /\ proc'[p].claimed = proc[p].claimed
        /\ proc'[p].carried = proc[p].carried /\ proc'[p].row = proc[p].row /\ proc'[p].j = proc[p].j
        /\ proc'[p].fresh = proc[p].fresh
    BY DEF Moved, Free, ProcFields
  <1>2. IsProc(proc[p])
    BY DEF NativeInv, Shaped
  <1>3. IsProc(proc'[p])
    BY <1>1, <1>2 DEF IsProc
  <1> QED BY <1>1, <1>3 DEF ProcMono, Contender

LEMMA GotoMoves ==
    ASSUME NativeInv, NEW p \in Procs, NEW x, Goto(p, x)
    PROVE  Moved(p, {"pc"}) /\ proc'[p].pc = x /\ proc'[p] = [proc[p] EXCEPT !.pc = x]
  <1>1. Rec(proc, Procs) /\ Rec(proc[p], ProcFields)
    BY DEF NativeInv, Shaped, IsProc
  <1>2. proc'[p] = [proc[p] EXCEPT !.pc = x] /\ Rec(proc', Procs) /\ \A q \in Procs \ {p} : proc'[q] = proc[q]
    BY <1>1 DEF Goto, Rec
  <1>3. Rec(proc'[p], ProcFields)
    BY <1>1, <1>2 DEF Rec, ProcFields
  <1>4. \A f \in ProcFields \ {"pc"} : proc'[p][f] = proc[p][f]
    BY <1>1, <1>2 DEF Rec
  <1>5. proc'[p].pc = x
    BY <1>1, <1>2 DEF Rec, ProcFields
  <1> QED BY <1>2, <1>3, <1>4, <1>5 DEF Moved

LEMMA GotoMono ==
    ASSUME NativeInv, NEW p \in Procs, NEW x, Goto(p, x), x \notin Seeing,
           x \in {"claim.claim", "claim.consume"} => proc[p].pc \in {"claim.claim", "claim.consume"}
    PROVE  ProcMono(p)
  <1>1. Moved(p, {"pc"}) /\ proc'[p].pc = x
    BY Zenon, GotoMoves
  <1>2. Moved(p, Free) /\ proc'[p].doc = proc[p].doc /\ proc'[p].report = proc[p].report
    BY <1>1 DEF Moved, Free, ProcFields
  <1>3. IsProc(proc[p])
    BY DEF NativeInv, Shaped
  <1> QED BY <1>1, <1>2, <1>3, MoveMono DEF IsProc

LEMMA UnlockedFacts ==
    ASSUME NEW p \in Procs, NEW c, Rec(c, CtlFields)
    PROVE  LET u == Unlocked(p, c)
           IN  /\ Rec(u, CtlFields) /\ \A f \in CtlFields \ {"lock"} : u[f] = c[f]
               /\ u.lock \in {c.lock, NoProc} /\ u.lock # p
  BY ControlAssumption DEF Unlocked, Rec, CtlFields

LEMMA RefuseCtl ==
    ASSUME NativeInv, NEW p \in Procs, ctl' = Unlocked(p, ctl)
    PROVE  CtlStep /\ LockMono(p) /\ ctl'.lease = ctl.lease
  <1>1. Rec(ctl, CtlFields)
    BY DEF NativeInv, Shaped
  <1>2. CtlKeeps(ctl') /\ ctl'.lock \in {ctl.lock, NoProc} /\ ctl'.lock # p
    BY <1>1, UnlockedFacts DEF CtlKeeps, CtlFields
  <1> QED BY <1>2, KeepsStep DEF LockMono, CtlKeeps

LEMMA SameCtl ==
    ASSUME NativeInv, NEW p \in Procs, UNCHANGED ctl, proc[p].pc \notin Locked \/ proc'[p].pc \in Locked
    PROVE  CtlStep /\ LockMono(p)
  <1>1. CtlKeeps(ctl')
    BY DEF NativeInv, Shaped, CtlKeeps
  <1>2. LockMono(p)
    BY ControlAssumption DEF NativeInv, LockOK, LockMono
  <1> QED BY <1>1, <1>2, KeepsStep

-----------------------------------------------------------------------------
(* The fields a step seldom changes.                                       *)
Still(p) ==
    /\ proc'[p].op = proc[p].op /\ proc'[p].root = proc[p].root /\ proc'[p].lease = proc[p].lease
    /\ proc'[p].claimed = proc[p].claimed /\ proc'[p].carried = proc[p].carried /\ proc'[p].row = proc[p].row
    /\ proc'[p].j = proc[p].j /\ proc'[p].seen = proc[p].seen /\ proc'[p].fresh = proc[p].fresh
    /\ proc'[p].then = proc[p].then
CallStill(p) == proc'[p].ok = proc[p].ok /\ proc'[p].no = proc[p].no /\ proc'[p].lost = proc[p].lost
DocsStill(p) == proc'[p].doc = proc[p].doc /\ proc'[p].report = proc[p].report
DocsOK(p) == proc[p].op \in {"driver", "execute", "reconcile"} => DocOK(proc[p].doc) /\ DocOK(proc[p].report)

(* A glide moves the counter of one process, its files and its child stay. *)
Glides(p, x) ==
    /\ Still(p) /\ CallStill(p) /\ DocsStill(p) /\ proc'[p].pc = x
    /\ H(p)' = H(p) /\ child' = child /\ OwnOK(p) /\ DocsOK(p)'
    /\ ProcMono(p) /\ HostMono(p) /\ ChildMono(p)

LEMMA DocsStay ==
    ASSUME NativeInv, NEW p \in Procs, ProcMono(p), ChildMono(p), DocsStill(p), Still(p)
    PROVE  DocsOK(p)'
  <1>1. \A d : DocOK(d) => DocOK(d)'
     BY DocStays DEF NativeInv
  <1>2. proc[p].op \in {"driver", "execute", "reconcile"} => DocOK(proc[p].doc) /\ DocOK(proc[p].report)
     BY DEF NativeInv, OwnOK, EvidenceOK
  <1> QED BY <1>1, <1>2 DEF DocsOK, DocOK, Exited, DocsStill, Still

LEMMA GotoStill ==
    ASSUME NativeInv, NEW p \in Procs, NEW x, Goto(p, x)
    PROVE  Still(p) /\ CallStill(p) /\ DocsStill(p) /\ proc'[p].pc = x
  <1>1. Moved(p, {"pc"}) /\ proc'[p].pc = x
    BY Zenon, GotoMoves
  <1> QED BY <1>1 DEF Moved, ProcFields, Still, CallStill, DocsStill

LEMMA GotoGlides ==
    ASSUME NativeInv, NEW p \in Procs, NEW x, Goto(p, x), UNCHANGED <<host, child>>, x \notin Seeing,
           x \in {"claim.claim", "claim.consume"} => proc[p].pc \in {"claim.claim", "claim.consume"}
    PROVE  Glides(p, x)
  <1>1. Still(p) /\ CallStill(p) /\ DocsStill(p) /\ proc'[p].pc = x
    BY GotoStill
  <1>2. ProcMono(p) /\ HostMono(p) /\ ChildMono(p)
    BY GotoMono, HostSame, ChildSame
  <1>3. DocsOK(p)'
    BY <1>1, <1>2, DocsStay
  <1>4. H(p)' = H(p)
    BY <1>1 DEF Still, H
  <1>5. OwnOK(p)
    BY DEF NativeInv
  <1> QED BY <1>1, <1>2, <1>3, <1>4, <1>5 DEF Glides

LEMMA Lands ==
    ASSUME NativeInv, NEW p \in Procs, NEW x, Glides(p, x), CtlStep, LockMono(p), OwnOK(p)'
    PROVE  NativeInv'
  BY StepOK DEF Glides

(* A fact recorded once: what the append leaves of the controller.         *)
LEMMA AppendedStep ==
    ASSUME NativeInv, NEW kind \in {"remote", "local"}, NEW type \in DraftTypes, Backed(type),
           CanAppend(kind, type), ctl'.lock \in {ctl.lock, NoProc},
           ctl' = Appended(kind, type) \/ \E p \in Procs : ctl' = Unlocked(p, Appended(kind, type))
    PROVE  CtlStep /\ Recorded(kind, type)' /\ ctl'.lease = ctl.lease /\ ctl'.reason = ctl.reason
  <1>1. Rec(ctl, CtlFields)
    BY DEF NativeInv, Shaped
  <1> DEFINE c == Appended(kind, type)
  <1>2. Rec(c, CtlFields) /\ (CtlKeeps(c) \/ CtlAppends(c, kind, type)) /\ Fact(kind, type) \in c.facts
    <2>1. CASE Recorded(kind, type)
      BY <1>1, <2>1 DEF Appended, CtlKeeps, Recorded
    <2>2. CASE ~Recorded(kind, type)
      <3>1. c = [ctl EXCEPT !.run = NextRun(type), !.facts = @ \cup {Fact(kind, type)}] /\ NextRun(type) # Rejected
        BY <2>2 DEF Appended, CanAppend
      <3> DEFINE n == NextRun(type)
                 f == Fact(kind, type)
      <3> HIDE DEF n, f
      <3>2. /\ c = [ctl EXCEPT !.run = n, !.facts = ctl.facts \cup {f}]
        BY Zenon, <3>1 DEF n, f, Rec, CtlFields
      <3> HIDE DEF c
      <3>3. /\ Rec(c, CtlFields) /\ c.run = n /\ c.facts = ctl.facts \cup {f} /\ c.lease = ctl.lease
            /\ c.reason = ctl.reason /\ c.artifact = ctl.artifact /\ c.cas = ctl.cas /\ c.journal = ctl.journal
        BY Zenon, <1>1, <3>2 DEF Rec, CtlFields
      <3> QED BY <3>1, <3>3 DEF CtlAppends, n, f
    <2> QED BY <2>1, <2>2
  <1> HIDE DEF c
  <1>3. Rec(ctl', CtlFields) /\ \A f \in CtlFields \ {"lock"} : ctl'[f] = c[f]
    BY <1>2, UnlockedFacts DEF c
  <1>4. /\ ctl'.run = c.run /\ ctl'.facts = c.facts /\ ctl'.lease = c.lease /\ ctl'.reason = c.reason
        /\ ctl'.artifact = c.artifact /\ ctl'.cas = c.cas /\ ctl'.journal = c.journal
    BY <1>3 DEF CtlFields
  <1>5. CtlKeeps(ctl') \/ CtlAppends(ctl', kind, type)
    BY <1>2, <1>3, <1>4 DEF CtlKeeps, CtlAppends
  <1>6. CtlStep
    BY <1>5, KeepsStep, AppendsStep
  <1>7. Recorded(kind, type)'
    BY <1>2, <1>4 DEF Recorded, Fact
  <1>8. ctl'.lease = ctl.lease /\ ctl'.reason = ctl.reason
    BY <1>5 DEF CtlKeeps, CtlAppends
  <1> QED BY <1>6, <1>7, <1>8

LEMMA AppendedLock ==
    ASSUME NativeInv, NEW kind, NEW type
    PROVE  Appended(kind, type).lock = ctl.lock
  <1>1. Rec(ctl, CtlFields)
    BY DEF NativeInv, Shaped
  <1> QED BY <1>1 DEF Appended, Rec, CtlFields

LEMMA AppendGlides ==
    ASSUME NativeInv, NEW p \in Procs, NEW kind \in {"remote", "local"}, NEW type \in DraftTypes, Backed(type),
           CanAppend(kind, type), ctl' = Appended(kind, type), NEW x, Goto(p, x), UNCHANGED <<host, child>>,
           x \notin Seeing \cup {"claim.claim", "claim.consume"}, proc[p].pc \notin Locked \/ x \in Locked
    PROVE  /\ Glides(p, x) /\ CtlStep /\ LockMono(p) /\ Recorded(kind, type)'
           /\ ctl'.lease = ctl.lease /\ ctl'.reason = ctl.reason
  <1>1. Glides(p, x)
    BY GotoGlides
  <1>2. ctl'.lock = ctl.lock
    BY AppendedLock
  <1>3. CtlStep /\ Recorded(kind, type)' /\ ctl'.lease = ctl.lease /\ ctl'.reason = ctl.reason
    BY <1>2, AppendedStep
  <1>4. LockMono(p)
    BY <1>1, <1>2, ControlAssumption DEF LockMono, Glides, NativeInv, LockOK
  <1> QED BY <1>1, <1>3, <1>4
-----------------------------------------------------------------------------
(* Handlers.                                                               *)
USE DEF Rest, Transferring, Claiming, Starting, Outputting, Outcoming, Launching, Publishing, LocalEarly,
        LocalLaunch, LocalLast, Reconciling, Blocked, Seeing, Locked

Calling == Claiming \cup Starting \cup Outputting \cup Outcoming

(* A call that is refused or unanswered.                                   *)
LEMMA Refused ==
    ASSUME NativeInv, NEW p \in Procs, proc[p].pc \in Calling, CtlStep, LockMono(p), UNCHANGED <<host, child>>,
           Goto(p, proc[p].no) \/ Goto(p, proc[p].lost)
    PROVE  NativeInv'
  <1>1. FlowOK(proc[p])
    BY DEF NativeInv, OwnOK
  <1>2. /\ proc[p].no \notin Seeing /\ proc[p].no \notin {"claim.claim", "claim.consume"}
        /\ proc[p].lost \notin Seeing /\ proc[p].lost \notin {"claim.claim", "claim.consume"}
    BY <1>1 DEF FlowOK, Calling
  <1>3. PICK x \in {proc[p].no, proc[p].lost} : Goto(p, x)
    OBVIOUS
  <1>4. Glides(p, x)
    BY <1>2, <1>3, GotoGlides
  <1>5. OwnOK(p)'
    BY <1>4, ControlAssumption
    DEF Calling, Glides, OwnOK, FlowOK, LaunchOK, ChildOK, FilesOK, RecordedOK, CarryOK, EvidenceOK, DocsOK,
        PreIntent, PastIntent, Recorded, Fact, CtlStep, CtlMono, Still, CallStill, DocsStill, SettledAs
  <1> QED BY <1>4, <1>5, Lands

(* The lock is taken where it is free.                                     *)
LEMMA EnterCtl ==
    ASSUME NativeInv, NEW p \in Procs, ctl' = [ctl EXCEPT !.lock = p], proc'[p].pc \in Locked
    PROVE  CtlStep /\ LockMono(p)
  <1>1. CtlKeeps(ctl') /\ ctl'.lock = p
    BY Zenon DEF CtlKeeps, NativeInv, Shaped, Rec, CtlFields
  <1> QED BY <1>1, KeepsStep DEF LockMono

LEMMA EnterRefused ==
    ASSUME NativeInv, NEW p \in Procs, proc[p].pc \in Calling \ Locked, Goto(p, proc[p].no), UNCHANGED <<ctl, host, child>>
    PROVE  NativeInv'
  BY SameCtl, Refused

LEMMA RefuseKeeps ==
    ASSUME NativeInv, NEW p \in Procs, proc[p].pc \in Calling, Refuse(p), UNCHANGED <<host, child>>
    PROVE  NativeInv'
  BY RefuseCtl, Refused DEF Refuse

LEMMA ClaimKeeps ==
    ASSUME NativeInv, NEW p \in Procs, Claim(p), UNCHANGED <<host, child>>
    PROVE  NativeInv'
  <1>1. proc[p].pc = "claim"
    BY DEF Claim, Enter, At
  <1>2. CASE ctl' = [ctl EXCEPT !.lock = p] /\ Goto(p, "claim.queue")
    <2>1. Glides(p, "claim.queue")
      BY <1>2, GotoGlides
    <2>2. CtlStep /\ LockMono(p)
      BY <1>2, <2>1, EnterCtl DEF Glides
    <2>3. OwnOK(p)'
      BY <1>1, <2>1, <2>2, ControlAssumption
      DEF Glides, OwnOK, FlowOK, LaunchOK, ChildOK, FilesOK, RecordedOK, CarryOK, EvidenceOK, DocsOK, PreIntent,
          PastIntent, Recorded, Fact, CtlStep, CtlMono, Still, CallStill, DocsStill, SettledAs
    <2> QED BY <2>1, <2>2, <2>3, Lands
  <1>3. CASE Goto(p, proc[p].no) /\ UNCHANGED ctl
    BY <1>1, <1>3, EnterRefused DEF Calling
  <1> QED BY <1>2, <1>3 DEF Claim, Enter

LEMMA RowTypes ==
    ASSUME NEW kind, MissingRows(kind) # {}
    PROVE  NextRow(kind) \in {"run.queued", "run.started", "attempt.queued"}
  <1>1. DOMAIN QueueRows = {1, 2, 3}
    BY DEF QueueRows
  <1>2. \E i \in MissingRows(kind) : \A j \in MissingRows(kind) : i <= j
    <2>1. MissingRows(kind) \subseteq {1, 2, 3}
      BY <1>1 DEF MissingRows
    <2>2. CASE 1 \in MissingRows(kind)
      BY <2>1, <2>2
    <2>3. CASE 1 \notin MissingRows(kind) /\ 2 \in MissingRows(kind)
      BY <2>1, <2>3
    <2>4. CASE MissingRows(kind) = {3}
      BY <2>4
    <2> QED BY <2>1, <2>2, <2>3, <2>4
  <1>3. PICK i \in {1, 2, 3} : NextRow(kind) = QueueRows[i]
    BY <1>1, <1>2 DEF NextRow, MissingRows
  <1> QED BY <1>3 DEF QueueRows

LEMMA ClaimQueueKeeps ==
    ASSUME NativeInv, NEW p \in Procs, ClaimQueue(p), UNCHANGED <<host, child>>
    PROVE  NativeInv'
  <1>1. proc[p].pc = "claim.queue"
    BY DEF ClaimQueue, At
  <1>2. CASE MissingRows("remote") # {} /\ Step(p, "remote", NextRow("remote"), "claim.queue")
    <2>1. PICK t \in {"run.queued", "run.started", "attempt.queued"} : t = NextRow("remote")
      BY <1>2, RowTypes
    <2>2. CASE CanAppend("remote", t) /\ ctl' = Appended("remote", t) /\ Goto(p, "claim.queue")
      <3>1. Glides(p, "claim.queue")
        BY <2>2, GotoGlides
      <3>2. ctl'.lock = ctl.lock
        BY <2>2, AppendedLock
      <3>3. CtlStep
        BY <2>2, <3>2, AppendedStep DEF Backed, DraftTypes
      <3>4. LockMono(p)
        BY <3>1, <3>2 DEF LockMono, Glides
      <3>5. OwnOK(p)'
        BY <1>1, <3>1, <3>3, ControlAssumption
        DEF Glides, OwnOK, FlowOK, LaunchOK, ChildOK, FilesOK, RecordedOK, CarryOK, EvidenceOK, DocsOK, PreIntent,
            PastIntent, Recorded, Fact, CtlStep, CtlMono, Still, CallStill, DocsStill, SettledAs
      <3> QED BY <3>1, <3>3, <3>4, <3>5, Lands
    <2>3. CASE Refuse(p)
      BY <1>1, <2>3, RefuseKeeps DEF Calling
    <2> QED BY <1>2, <2>1, <2>2, <2>3 DEF Step
  <1>3. CASE MissingRows("remote") = {} /\ Goto(p, "claim.open") /\ UNCHANGED ctl
    <2>1. Glides(p, "claim.open")
      BY <1>3, GotoGlides
    <2>2. CtlStep /\ LockMono(p)
      BY <1>3, <2>1, SameCtl DEF Glides
    <2>3. Recorded("remote", "run.queued")'
      BY <1>3 DEF MissingRows, QueueRows, Recorded, Fact
    <2>4. OwnOK(p)'
      BY <1>1, <2>1, <2>2, <2>3, ControlAssumption
      DEF Glides, OwnOK, FlowOK, LaunchOK, ChildOK, FilesOK, RecordedOK, CarryOK, EvidenceOK, DocsOK, PreIntent,
          PastIntent, Recorded, Fact, CtlStep, CtlMono, Still, CallStill, DocsStill, SettledAs
    <2> QED BY <2>1, <2>2, <2>4, Lands
  <1> QED BY <1>2, <1>3 DEF ClaimQueue

(* Two fresh claims: the lease of the first is not none, two local         *)
(* commands share no first row, and a remote and a local run no event.     *)
LEMMA FreshIsAlone ==
    ASSUME NativeInv, NEW p \in Procs, proc[p].pc = "claim.open", ctl.lease = "none" \/ ~ResumedClaim(p)
    PROVE  \A q \in Procs \ {p} : ~Contender(proc[q])
  <1>1. SUFFICES ASSUME NEW q \in Procs \ {p}, Contender(proc[q])
                 PROVE  FALSE
    OBVIOUS
  <1>2. /\ FlowOK(proc[p]) /\ FlowOK(proc[q]) /\ LaunchOK(proc[p]) /\ LaunchOK(proc[q])
    BY DEF NativeInv, OwnOK
  <1>3. ctl.lease \in {"none", "leased"}
    BY DEF ResumedClaim
  <1>4. ~proc[q].claimed /\ proc[q].pc = "claim.claim" /\ ctl.lease = "leased"
    BY <1>1, <1>2, <1>3 DEF Contender, LaunchOK, ConsumedLease
  <1>5. proc[p].op = "local" /\ proc[p].row > 1 /\ Recorded("local", "run.queued")
    BY <1>2, <1>4 DEF ResumedClaim, FlowOK, LaunchOK
  <1>6. CASE proc[q].op = "execute"
    BY <1>2, <1>4, <1>5, <1>6 DEF LaunchOK, NativeInv, ControlOK, OneKind
  <1>7. CASE proc[q].op = "local"
    BY <1>2, <1>4, <1>5, <1>7 DEF FlowOK, NativeInv, OneLocal
  <1> QED BY <1>2, <1>4, <1>6, <1>7 DEF FlowOK

LEMMA PollKeeps ==
    ASSUME NativeInv, NEW p \in Procs, Poll(p), UNCHANGED <<host, child>>
    PROVE  NativeInv'
  <1>1. proc[p].pc = "claim.open" /\ Rec(ctl, CtlFields) /\ Rec(proc, Procs) /\ IsProc(proc[p]) /\ OwnOK(p) /\ LeaseOK
    BY DEF Poll, At, NativeInv, Shaped, ControlOK
  <1>2. CASE Refuse(p)
    BY <1>1, <1>2, RefuseKeeps DEF Calling
  <1>3. CASE /\ ctl' = IF ctl.lease = "none" THEN [ctl EXCEPT !.lease = "leased"] ELSE ctl
             /\ proc' = [proc EXCEPT ![p].pc = "claim.claim", ![p].fresh = ctl.lease = "none" \/ ~ResumedClaim(p)]
    <2>1. PICK b : b = (ctl.lease = "none" \/ ~ResumedClaim(p))
      OBVIOUS
    <2>2. proc' = [proc EXCEPT ![p].pc = "claim.claim", ![p].fresh = b]
      BY <1>3, <2>1
    <2>3. /\ Rec(proc', Procs) /\ \A q \in Procs \ {p} : proc'[q] = proc[q]
          /\ proc'[p] = [proc[p] EXCEPT !.pc = "claim.claim", !.fresh = b]
      BY <1>1, <2>2 DEF Rec
    <2>4. /\ Rec(proc'[p], ProcFields) /\ proc'[p].pc = "claim.claim" /\ proc'[p].fresh = b
          /\ \A f \in ProcFields \ {"pc", "fresh"} : proc'[p][f] = proc[p][f]
      BY Zenon, <1>1, <2>3 DEF IsProc, Rec, ProcFields
    <2>5. /\ CallStill(p) /\ DocsStill(p)
          /\ proc'[p].op = proc[p].op /\ proc'[p].root = proc[p].root /\ proc'[p].lease = proc[p].lease
          /\ proc'[p].claimed = proc[p].claimed /\ proc'[p].carried = proc[p].carried /\ proc'[p].row = proc[p].row
          /\ proc'[p].j = proc[p].j /\ proc'[p].seen = proc[p].seen /\ proc'[p].then = proc[p].then
      BY <2>4 DEF ProcFields, CallStill, DocsStill
    <2>6. Contender(proc'[p]) => b \/ Contender(proc[p])
      BY <2>4, <2>5 DEF Contender
    <2>7. b => \A q \in Procs \ {p} : ~Contender(proc[q])
      BY Zenon, <1>1, <2>1, FreshIsAlone
    <2>8. ProcMono(p)
      BY <1>1, <2>3, <2>4, <2>5, <2>6, <2>7 DEF ProcMono, IsProc, DocsStill
    <2>9. CtlStep /\ ctl'.lock = ctl.lock /\ ctl'.lease # "none"
      <3>1. CASE ctl.lease = "none"
        <4>1. CtlLeases(ctl') /\ ctl'.lock = ctl.lock /\ ctl'.lease = "leased"
          BY <1>1, <1>3, <3>1 DEF CtlLeases, LeaseUp, Rec, CtlFields
        <4> QED BY <4>1, LeasesStep
      <3>2. CASE ctl.lease # "none"
        <4>1. ctl' = ctl /\ CtlKeeps(ctl')
          BY <1>1, <1>3, <3>2 DEF CtlKeeps
        <4> QED BY <3>2, <4>1, KeepsStep
      <3> QED BY <3>1, <3>2
    <2>10. LockMono(p)
      BY <2>4, <2>9 DEF LockMono
    <2>11. HostMono(p) /\ ChildMono(p) /\ H(p)' = H(p)
      BY <2>5, HostSame, ChildSame DEF H
    <2>12. DocsOK(p)'
      <3>1. \A d : DocOK(d) => DocOK(d)'
        BY <2>8, <2>11, DocStays DEF NativeInv
      <3> QED BY <1>1, <2>5, <3>1 DEF OwnOK, EvidenceOK, DocsOK, DocOK, Exited, DocsStill
    <2>13. OwnOK(p)'
      BY <1>1, <2>4, <2>5, <2>9, <2>11, <2>12, ControlAssumption
      DEF Glides, OwnOK, FlowOK, LaunchOK, ChildOK, FilesOK, RecordedOK, CarryOK, EvidenceOK, DocsOK, PreIntent,
          PastIntent, Recorded, Fact, CtlStep, CtlMono, Still, CallStill, DocsStill, SettledAs
    <2> QED BY <2>8, <2>9, <2>10, <2>11, <2>13, StepOK
  <1> QED BY <1>2, <1>3 DEF Poll

LEMMA PollClaimKeeps ==
    ASSUME NativeInv, NEW p \in Procs, PollClaim(p), UNCHANGED <<host, child>>
    PROVE  NativeInv'
  <1>1. /\ proc[p].pc = "claim.claim" /\ Rec(ctl, CtlFields) /\ LeaseOK /\ ctl.lease # "none"
        /\ Goto(p, "claim.consume") /\ ctl' = IF ctl.lease = "leased" THEN [ctl EXCEPT !.lease = "claimed"] ELSE ctl
    BY DEF PollClaim, At, NativeInv, Shaped, ControlOK, OwnOK, LaunchOK
  <1>2. Glides(p, "claim.consume")
    BY <1>1, GotoGlides
  <1>3. CtlStep /\ ctl'.lock = ctl.lock /\ ctl'.lease \notin {"none", "leased"}
    <2>1. CASE ctl.lease = "leased"
      <3>1. CtlLeases(ctl') /\ ctl'.lock = ctl.lock /\ ctl'.lease = "claimed"
        BY <1>1, <2>1 DEF CtlLeases, LeaseUp, Rec, CtlFields
      <3> QED BY <3>1, LeasesStep
    <2>2. CASE ctl.lease # "leased"
      <3>1. ctl' = ctl /\ CtlKeeps(ctl')
        BY <1>1, <2>2 DEF CtlKeeps
      <3> QED BY <1>1, <2>2, <3>1, KeepsStep
    <2> QED BY <2>1, <2>2
  <1>4. LockMono(p)
    BY <1>2, <1>3 DEF LockMono, Glides
  <1>5. OwnOK(p)'
    BY <1>1, <1>2, <1>3
    DEF Glides, OwnOK, FlowOK, LaunchOK, ChildOK, FilesOK, RecordedOK, CarryOK, EvidenceOK, DocsOK, PreIntent,
        PastIntent, Recorded, Fact, CtlStep, CtlMono, Still, CallStill, DocsStill, SettledAs
  <1> QED BY <1>2, <1>3, <1>4, <1>5, Lands

LEMMA PollConsumeKeeps ==
    ASSUME NativeInv, NEW p \in Procs, PollConsume(p), UNCHANGED <<host, child>>
    PROVE  NativeInv'
  <1> DEFINE c == IF ctl.lease = "claimed" THEN [ctl EXCEPT !.lease = "consumed"] ELSE ctl
  <1>1. /\ proc[p].pc = "claim.consume" /\ Rec(ctl, CtlFields) /\ LeaseOK /\ ctl.lease \notin {"none", "leased"}
        /\ ctl' = Unlocked(p, c) /\ Rec(proc, Procs) /\ IsProc(proc[p]) /\ OwnOK(p)
    BY DEF PollConsume, At, NativeInv, Shaped, ControlOK, OwnOK, LaunchOK
  <1>2. Rec(c, CtlFields) /\ c.lock = ctl.lock
    BY <1>1 DEF Rec, CtlFields
  <1>3. /\ Rec(ctl', CtlFields) /\ \A f \in CtlFields \ {"lock"} : ctl'[f] = c[f]
        /\ ctl'.lock \in {ctl.lock, NoProc} /\ ctl'.lock # p
    <2> HIDE DEF c
    <2> QED BY <1>1, <1>2, UnlockedFacts
  <1>4. CtlStep /\ ctl'.lease \in ConsumedLease
    <2>1. CASE ctl.lease = "claimed"
      <3>1. /\ c.lease = "consumed" /\ c.run = ctl.run /\ c.facts = ctl.facts /\ c.reason = ctl.reason
            /\ c.artifact = ctl.artifact /\ c.cas = ctl.cas /\ c.journal = ctl.journal
        BY <1>1, <2>1 DEF Rec, CtlFields
      <3> HIDE DEF c
      <3>2. CtlLeases(ctl') /\ ctl'.lease = "consumed"
        BY <1>3, <2>1, <3>1 DEF CtlLeases, LeaseUp, CtlFields
      <3> QED BY <3>2, LeasesStep DEF ConsumedLease
    <2>2. CASE ctl.lease # "claimed"
      <3>1. CtlKeeps(ctl')
        BY <1>3, <2>2 DEF CtlKeeps, CtlFields
      <3> QED BY <1>1, <2>2, <3>1, KeepsStep DEF ConsumedLease, LeaseOK, CtlKeeps
    <2> QED BY <2>1, <2>2
  <1>5. LockMono(p)
    BY <1>3 DEF LockMono
  <1>6. CASE proc[p].fresh /\ proc' = [proc EXCEPT ![p].pc = proc[p].ok, ![p].claimed = TRUE]
    <2>1. PICK x : x = proc[p].ok
      OBVIOUS
    <2>2. /\ Rec(proc', Procs) /\ \A q \in Procs \ {p} : proc'[q] = proc[q]
          /\ proc'[p] = [proc[p] EXCEPT !.pc = x, !.claimed = TRUE]
      BY Zenon, <1>1, <1>6, <2>1 DEF Rec
    <2>3. /\ Rec(proc'[p], ProcFields) /\ proc'[p].pc = x /\ proc'[p].claimed = TRUE
          /\ \A f \in ProcFields \ {"pc", "claimed"} : proc'[p][f] = proc[p][f]
      BY Zenon, <1>1, <2>2 DEF IsProc, Rec, ProcFields
    <2>4. /\ CallStill(p) /\ DocsStill(p)
          /\ proc'[p].op = proc[p].op /\ proc'[p].root = proc[p].root /\ proc'[p].lease = proc[p].lease
          /\ proc'[p].carried = proc[p].carried /\ proc'[p].row = proc[p].row
          /\ proc'[p].j = proc[p].j /\ proc'[p].seen = proc[p].seen /\ proc'[p].then = proc[p].then
      BY <2>3 DEF ProcFields, CallStill, DocsStill
    <2>5. Contender(proc[p]) /\ x \in {"claimed", "local.started"}
      BY <1>1, <1>6, <2>1 DEF Contender, OwnOK, FlowOK
    <2>6. ProcMono(p)
      BY <1>1, <2>2, <2>3, <2>4, <2>5 DEF ProcMono, IsProc, DocsStill
    <2>7. HostMono(p) /\ ChildMono(p) /\ H(p)' = H(p)
      BY <2>4, HostSame, ChildSame DEF H
    <2>8. DocsOK(p)'
      <3>1. \A d : DocOK(d) => DocOK(d)'
        BY <2>6, <2>7, DocStays DEF NativeInv
      <3> QED BY <1>1, <2>4, <3>1 DEF OwnOK, EvidenceOK, DocsOK, DocOK, Exited, DocsStill
    <2>9. OwnOK(p)'
      BY <1>1, <1>4, <2>1, <2>3, <2>4, <2>5, <2>7, <2>8
      DEF Glides, OwnOK, FlowOK, LaunchOK, ChildOK, FilesOK, RecordedOK, CarryOK, EvidenceOK, DocsOK, PreIntent,
          PastIntent, Recorded, Fact, CtlStep, CtlMono, Still, CallStill, DocsStill, SettledAs, NoChild
    <2> QED BY <1>4, <1>5, <2>6, <2>7, <2>9, StepOK
  <1>7. CASE Goto(p, proc[p].lost) \/ Goto(p, proc[p].no)
    BY <1>1, <1>4, <1>5, <1>7, Refused DEF Calling
  <1> QED BY <1>6, <1>7 DEF PollConsume

(* Settling the lease on an observed exit.                                 *)
CtlSettles(c) ==
    /\ Rec(c, CtlFields) /\ ctl.lease \in OpenLease /\ ctl.cas \subseteq c.cas
    /\ c.run = ctl.run /\ c.facts = ctl.facts /\ c.journal = ctl.journal

LEMMA SettleMono ==
    ASSUME NativeInv, CtlSettles(ctl'), ctl'.lease \in {"completed", "failed"}
    PROVE  CtlMono /\ OneKind' /\ LeaseOK' /\ RunOK' /\ (CancelRequested => CancelRequested')
  <1>1. ctl.lease \notin {"completed", "failed"}
    BY DEF CtlSettles, OpenLease
  <1>2. CtlMono
    BY <1>1 DEF CtlSettles, CtlMono, ConsumedLease
  <1>3. ~RunIs(TerminalRun)
    BY <1>1 DEF NativeInv, ControlOK, RunOK, SettledAs
  <1>4. RunOK'
    BY <1>3 DEF NativeInv, ControlOK, RunOK, RunIs, CtlSettles
  <1> QED BY <1>2, <1>4 DEF CtlSettles, NativeInv, ControlOK, OneKind, LeaseOK, Recorded, Fact, CancelRequested

LEMMA SettlesCompleted ==
    ASSUME NativeInv, NEW p \in Procs, ProcMono(p), ChildMono(p), CtlSettles(ctl'), NEW a, Exited(a),
           child[a].released, child[a].code = 0, a \in ctl'.cas, ctl'.lease = "completed", ctl'.artifact = a
    PROVE  CtlMono /\ ControlOK' /\ SettledAs("completed")'
  <1>1. CtlMono /\ OneKind' /\ LeaseOK' /\ RunOK'
    BY SettleMono
  <1>2. Exited(a)' /\ child'[a] = child[a] /\ a \in Procs
    BY ExitStays DEF NativeInv, Exited
  <1>3. SettledOK'
    BY <1>2 DEF SettledOK, Exited
  <1> QED BY <1>1, <1>3 DEF ControlOK, SettledAs

LEMMA SettlesFailed ==
    ASSUME NativeInv, NEW p \in Procs, ProcMono(p), ChildMono(p), CtlSettles(ctl'), \E a \in Procs : Exited(a),
           ctl'.lease = "failed", ctl'.reason \in {"native-task-failed", "cancel-observed"},
           ctl'.reason = "cancel-observed" => CancelRequested
    PROVE  CtlMono /\ ControlOK'
  <1>1. CtlMono /\ OneKind' /\ LeaseOK' /\ RunOK' /\ (CancelRequested => CancelRequested')
    BY SettleMono
  <1>2. \E a \in Procs : Exited(a)'
    BY ExitStays DEF NativeInv, Exited
  <1>3. SettledOK'
    BY <1>1, <1>2 DEF SettledOK
  <1> QED BY <1>1, <1>3 DEF ControlOK

(* The pieces of a step together, whether it settles the lease or not.     *)
LEMMA Settles ==
    ASSUME NativeInv, NEW p \in Procs, ProcMono(p), ChildMono(p), HostMono(p), CtlMono, CtlStep \/ ControlOK',
           LockMono(p), OwnOK(p)'
    PROVE  NativeInv'
  BY StepOK, StepKeeps DEF StepOf

(* A call that is answered.                                                *)
LEMMA Replied ==
    ASSUME NativeInv, NEW p \in Procs, CtlMono, CtlStep \/ ControlOK', LockMono(p), UNCHANGED <<host, child>>, NEW again,
           Goto(p, proc[p].ok) \/ Goto(p, proc[p].lost) \/ Goto(p, again),
           \/ proc[p].pc \in Outputting /\ again = "output"
           \/ proc[p].pc \in Outcoming /\ again = "outcome"
    PROVE  NativeInv'
  <1>1. FlowOK(proc[p])
    BY DEF NativeInv, OwnOK
  <1>2. PICK x \in {proc[p].ok, proc[p].lost, again} : Goto(p, x)
    OBVIOUS
  <1>3. x \in {"report", "leave", "cancelled.write", again}
    BY <1>1, <1>2 DEF FlowOK
  <1>4. Glides(p, x)
    BY <1>2, <1>3, GotoGlides
  <1>5. OwnOK(p)'
    BY <1>4, ControlAssumption
    DEF Glides, OwnOK, FlowOK, LaunchOK, ChildOK, FilesOK, RecordedOK, CarryOK, EvidenceOK, DocsOK, PreIntent,
        PastIntent, Recorded, Fact, CtlMono, Still, CallStill, DocsStill, SettledAs
  <1> QED BY <1>4, <1>5, Settles DEF Glides

LEMMA StartKeeps ==
    ASSUME NativeInv, NEW p \in Procs, Start(p), UNCHANGED <<host, child>>
    PROVE  NativeInv'
  <1>1. proc[p].pc = "start"
    BY DEF Start, Enter, At
  <1>2. CASE ctl' = [ctl EXCEPT !.lock = p] /\ Goto(p, "start.journal")
    <2>1. Glides(p, "start.journal")
      BY <1>2, GotoGlides
    <2>2. CtlStep /\ LockMono(p)
      BY <1>2, <2>1, EnterCtl DEF Glides
    <2>3. OwnOK(p)'
      BY <1>1, <2>1, <2>2
      DEF Glides, OwnOK, FlowOK, LaunchOK, ChildOK, FilesOK, RecordedOK, CarryOK, EvidenceOK, DocsOK, PreIntent,
          PastIntent, Recorded, Fact, CtlStep, CtlMono, Still, CallStill, DocsStill, SettledAs
    <2> QED BY <2>1, <2>2, <2>3, Lands
  <1>3. CASE Goto(p, proc[p].no) /\ UNCHANGED ctl
    BY <1>1, <1>3, EnterRefused DEF Calling
  <1> QED BY <1>2, <1>3 DEF Start, Enter

LEMMA StartJournalKeeps ==
    ASSUME NativeInv, NEW p \in Procs, StartJournal(p), UNCHANGED <<host, child>>
    PROVE  NativeInv'
  <1>1. /\ proc[p].pc = "start.journal" /\ proc[p].doc.start = p /\ Rec(ctl, CtlFields)
    BY DEF StartJournal, At, NativeInv, OwnOK, RecordedOK, Shaped
  <1>2. CASE ctl.journal \in {p, NoProc} /\ ctl' = [ctl EXCEPT !.journal = p] /\ Goto(p, "start.fact")
    <2>1. Glides(p, "start.fact")
      BY <1>2, GotoGlides
    <2>2. CtlKeeps(ctl') /\ ctl'.journal = p /\ ctl'.lock = ctl.lock
      BY Zenon, <1>1, <1>2 DEF CtlKeeps, Rec, CtlFields
    <2>3. CtlStep /\ LockMono(p)
      BY <2>1, <2>2, KeepsStep DEF LockMono, Glides
    <2>4. OwnOK(p)'
      BY <1>1, <2>1, <2>2, <2>3
      DEF Glides, OwnOK, FlowOK, LaunchOK, ChildOK, FilesOK, RecordedOK, CarryOK, EvidenceOK, DocsOK, PreIntent,
          PastIntent, Recorded, Fact, CtlStep, CtlMono, Still, CallStill, DocsStill, SettledAs
    <2> QED BY <2>1, <2>3, <2>4, Lands
  <1>3. CASE Refuse(p)
    BY <1>1, <1>3, RefuseKeeps DEF Calling
  <1> QED BY <1>1, <1>2, <1>3 DEF StartJournal

LEMMA StartFactKeeps ==
    ASSUME NativeInv, NEW p \in Procs, StartFact(p), UNCHANGED <<host, child>>
    PROVE  NativeInv'
  <1>1. proc[p].pc = "start.fact"
    BY DEF StartFact, At
  <1>2. CASE /\ CanAppend("remote", "attempt.started") /\ ctl' = Appended("remote", "attempt.started")
             /\ Goto(p, "start.check")
    <2>1. Glides(p, "start.check") /\ CtlStep /\ LockMono(p) /\ Recorded("remote", "attempt.started")'
      BY <1>2, AppendGlides DEF Backed, DraftTypes
    <2>2. OwnOK(p)'
      BY <1>1, <2>1, ControlAssumption
      DEF Glides, OwnOK, FlowOK, LaunchOK, ChildOK, FilesOK, RecordedOK, CarryOK, EvidenceOK, DocsOK, PreIntent,
          PastIntent, Recorded, Fact, CtlStep, CtlMono, Still, CallStill, DocsStill, SettledAs
    <2> QED BY <2>1, <2>2, Lands
  <1>3. CASE Refuse(p)
    BY <1>1, <1>3, RefuseKeeps DEF Calling
  <1> QED BY <1>2, <1>3 DEF StartFact, Step

LEMMA StartCheckKeeps ==
    ASSUME NativeInv, NEW p \in Procs, StartCheck(p), UNCHANGED <<host, child>>
    PROVE  NativeInv'
  <1>1. proc[p].pc = "start.check" /\ proc[p].ok = "barrier"
    BY DEF StartCheck, At, NativeInv, OwnOK, FlowOK
  <1>2. CASE Refuse(p)
    BY <1>1, <1>2, RefuseKeeps DEF Calling
  <1>3. CASE ctl' = Unlocked(p, ctl) /\ Goto(p, proc[p].lost)
    BY <1>1, <1>3, RefuseCtl, Refused DEF Calling
  <1>4. CASE ctl' = Unlocked(p, ctl) /\ (Goto(p, "barrier") \/ Goto(p, "start"))
    <2>1. PICK x \in {"barrier", "start"} : Goto(p, x)
      BY <1>4
    <2>2. Glides(p, x)
      BY <2>1, GotoGlides
    <2>3. CtlStep /\ LockMono(p)
      BY <1>4, RefuseCtl
    <2>4. OwnOK(p)'
      BY <1>1, <2>1, <2>2, <2>3, ControlAssumption
      DEF Glides, OwnOK, FlowOK, LaunchOK, ChildOK, FilesOK, RecordedOK, CarryOK, EvidenceOK, DocsOK, PreIntent,
          PastIntent, Recorded, Fact, CtlStep, CtlMono, Still, CallStill, DocsStill, SettledAs
    <2> QED BY <2>2, <2>3, <2>4, Lands
  <1> QED BY <1>1, <1>2, <1>3, <1>4 DEF StartCheck, Reply

LEMMA OutputKeeps ==
    ASSUME NativeInv, NEW p \in Procs, Output(p), UNCHANGED <<host, child>>
    PROVE  NativeInv'
  <1>1. proc[p].pc = "output"
    BY DEF Output, Enter, At
  <1>2. CASE ctl' = [ctl EXCEPT !.lock = p] /\ Goto(p, "output.put")
    <2>1. Glides(p, "output.put")
      BY <1>2, GotoGlides
    <2>2. CtlStep /\ LockMono(p)
      BY <1>2, <2>1, EnterCtl DEF Glides
    <2>3. OwnOK(p)'
      BY <1>1, <2>1, <2>2, ControlAssumption
      DEF Glides, OwnOK, FlowOK, LaunchOK, ChildOK, FilesOK, RecordedOK, CarryOK, EvidenceOK, DocsOK, PreIntent,
          PastIntent, Recorded, Fact, CtlStep, CtlMono, Still, CallStill, DocsStill, SettledAs
    <2> QED BY <2>1, <2>2, <2>3, Lands
  <1>3. CASE Goto(p, proc[p].no) /\ UNCHANGED ctl
    BY <1>1, <1>3, EnterRefused DEF Calling
  <1> QED BY <1>2, <1>3 DEF Output, Enter

LEMMA OutputPutKeeps ==
    ASSUME NativeInv, NEW p \in Procs, OutputPut(p), UNCHANGED <<host, child>>
    PROVE  NativeInv'
  <1>1. /\ proc[p].pc = "output.put" /\ Rec(ctl, CtlFields) /\ Goto(p, "output.complete")
        /\ ctl' = [ctl EXCEPT !.cas = ctl.cas \cup {proc[p].doc.start}]
    BY DEF OutputPut, At, NativeInv, Shaped
  <1>2. Glides(p, "output.complete")
    BY <1>1, GotoGlides
  <1>3. CtlKeeps(ctl') /\ proc[p].doc.start \in ctl'.cas /\ ctl'.lock = ctl.lock
    BY <1>1 DEF CtlKeeps, Rec, CtlFields
  <1>4. CtlStep /\ LockMono(p)
    BY <1>2, <1>3, KeepsStep DEF LockMono, Glides
  <1>5. OwnOK(p)'
    BY <1>1, <1>2, <1>3, <1>4
    DEF Glides, OwnOK, FlowOK, LaunchOK, ChildOK, FilesOK, RecordedOK, CarryOK, EvidenceOK, DocsOK, PreIntent,
        PastIntent, Recorded, Fact, CtlStep, CtlMono, Still, CallStill, DocsStill, SettledAs
  <1> QED BY <1>2, <1>4, <1>5, Lands

LEMMA OutputCompleteKeeps ==
    ASSUME NativeInv, NEW p \in Procs, OutputComplete(p), UNCHANGED <<host, child>>
    PROVE  NativeInv'
  <1> DEFINE a == proc[p].doc.start
             c == [ctl EXCEPT !.lease = "completed", !.artifact = a]
  <1>1. /\ proc[p].pc = "output.complete" /\ Rec(ctl, CtlFields) /\ OwnOK(p)
    BY DEF OutputComplete, At, NativeInv, Shaped
  <1>2. CASE Refuse(p)
    BY <1>1, <1>2, RefuseKeeps DEF Calling
  <1>3. CASE Reply(p, ctl, "output")
    BY <1>1, <1>3, RefuseCtl, Replied DEF Reply, CtlStep
  <1>4. CASE OutputLive /\ Reply(p, c, "output")
    <2>1. /\ Rec(c, CtlFields) /\ c.lease = "completed" /\ c.artifact = a /\ c.run = ctl.run /\ c.facts = ctl.facts
          /\ c.cas = ctl.cas /\ c.journal = ctl.journal /\ c.lock = ctl.lock
      BY Zenon, <1>1 DEF Rec, CtlFields
    <2>2. Exited(a) /\ child[a].released /\ child[a].code = 0 /\ a \in ctl.cas
      BY <1>1 DEF OwnOK, EvidenceOK, DocOK, FlowOK
    <2>3. PICK x \in {proc[p].ok, proc[p].lost, "output"} : Goto(p, x) /\ ctl' = Unlocked(p, c)
      BY <1>4 DEF Reply
    <2>4. PICK b : b = a
      OBVIOUS
    <2> HIDE DEF a, c
    <2>5. /\ Rec(ctl', CtlFields) /\ \A f \in CtlFields \ {"lock"} : ctl'[f] = c[f]
          /\ ctl'.lock \in {ctl.lock, NoProc} /\ ctl'.lock # p
      BY <2>1, <2>3, UnlockedFacts
    <2>6. CtlSettles(ctl') /\ ctl'.lease = "completed" /\ ctl'.artifact = b /\ b \in ctl'.cas
      BY <1>4, <2>1, <2>2, <2>4, <2>5 DEF CtlSettles, CtlFields, OutputLive, OpenLease
    <2>7. Glides(p, x)
      BY <1>1, <2>3, GotoGlides DEF OwnOK, FlowOK
    <2>8. CtlMono /\ ControlOK'
      BY <2>2, <2>4, <2>6, <2>7, SettlesCompleted DEF Glides
    <2> QED BY <1>1, <2>3, <2>5, <2>8, Replied DEF LockMono
  <1> QED BY <1>2, <1>3, <1>4 DEF OutputComplete

LEMMA OutcomeKeeps ==
    ASSUME NativeInv, NEW p \in Procs, Outcome(p), UNCHANGED <<host, child>>
    PROVE  NativeInv'
  <1>1. proc[p].pc = "outcome"
    BY DEF Outcome, Enter, At
  <1>2. CASE /\ ctl' = [ctl EXCEPT !.lock = p]
             /\ Goto(p, IF proc[p].doc.out = "unknown" THEN "outcome.unknown" ELSE "outcome.journal")
    <2>1. PICK x \in {"outcome.unknown", "outcome.journal"} :
              Goto(p, x) /\ (x = "outcome.journal" => proc[p].doc.out # "unknown")
      BY <1>2
    <2>2. Glides(p, x)
      BY <2>1, GotoGlides
    <2>3. CtlStep /\ LockMono(p)
      BY <1>2, <2>2, EnterCtl DEF Glides
    <2>4. OwnOK(p)'
      BY <1>1, <2>1, <2>2, <2>3, ControlAssumption
      DEF Glides, OwnOK, FlowOK, LaunchOK, ChildOK, FilesOK, RecordedOK, CarryOK, EvidenceOK, DocsOK, PreIntent,
          PastIntent, Recorded, Fact, CtlStep, CtlMono, Still, CallStill, DocsStill, SettledAs
    <2> QED BY <2>2, <2>3, <2>4, Lands
  <1>3. CASE Goto(p, proc[p].no) /\ UNCHANGED ctl
    BY <1>1, <1>3, EnterRefused DEF Calling
  <1> QED BY <1>2, <1>3 DEF Outcome, Enter

(* The request that a revocation becomes, and the facts of an outcome.     *)
LEMMA OutcomeStepKeeps ==
    ASSUME NativeInv, NEW p \in Procs, UNCHANGED <<host, child>>, NEW type \in DraftTypes, Backed(type), NEW x,
           Step(p, "remote", type, x), proc[p].pc \in Outcoming \cap Locked,
           x = proc[p].pc \/ (proc[p].pc = "outcome.attempt" /\ x = "outcome.run")
    PROVE  NativeInv'
  <1>1. CASE CanAppend("remote", type) /\ ctl' = Appended("remote", type) /\ Goto(p, x)
    <2>1. Glides(p, x) /\ CtlStep /\ LockMono(p) /\ ctl'.lease = ctl.lease /\ ctl'.reason = ctl.reason
      BY <1>1, AppendGlides
    <2>2. OwnOK(p)'
      BY <2>1, ControlAssumption
      DEF Glides, OwnOK, FlowOK, LaunchOK, ChildOK, FilesOK, RecordedOK, CarryOK, EvidenceOK, DocsOK, PreIntent,
          PastIntent, Recorded, Fact, CtlStep, CtlMono, Still, CallStill, DocsStill, SettledAs
    <2> QED BY <2>1, <2>2, Lands
  <1>2. CASE Refuse(p)
    BY <1>2, RefuseKeeps DEF Calling
  <1> QED BY <1>1, <1>2 DEF Step

LEMMA RevocationKeeps ==
    ASSUME NativeInv, NEW p \in Procs, UNCHANGED <<host, child>>, RequestForRevocation(p),
           proc[p].pc \in {"outcome.unknown", "outcome.settle"}
    PROVE  NativeInv'
  <1>1. PICK x : x = proc[p].pc
    OBVIOUS
  <1>2. Step(p, "remote", "run.cancel.requested", x)
    BY <1>1 DEF RequestForRevocation
  <1> QED BY <1>1, <1>2, OutcomeStepKeeps DEF Backed, DraftTypes

(* A fact recorded in the answer.                                          *)
LEMMA OutcomeReplyKeeps ==
    ASSUME NativeInv, NEW p \in Procs, UNCHANGED <<host, child>>, NEW type \in DraftTypes, Backed(type),
           CanAppend("remote", type), Reply(p, Appended("remote", type), "outcome"), proc[p].pc \in Outcoming
    PROVE  NativeInv'
  <1>1. ctl' = Unlocked(p, Appended("remote", type))
    BY DEF Reply
  <1>2. Appended("remote", type).lock = ctl.lock /\ Rec(Appended("remote", type), CtlFields)
    <2>1. Rec(ctl, CtlFields)
      BY DEF NativeInv, Shaped
    <2> QED BY Zenon, <2>1 DEF Appended, Rec, CtlFields
  <1>3. ctl'.lock \in {ctl.lock, NoProc} /\ ctl'.lock # p
    BY <1>1, <1>2, UnlockedFacts
  <1>4. CtlStep /\ LockMono(p)
    BY <1>1, <1>3, AppendedStep DEF LockMono
  <1> QED BY <1>4, Replied DEF Reply, CtlStep

LEMMA OutcomeUnknownKeeps ==
    ASSUME NativeInv, NEW p \in Procs, OutcomeUnknown(p), UNCHANGED <<host, child>>
    PROVE  NativeInv'
  <1>1. proc[p].pc = "outcome.unknown"
    BY DEF OutcomeUnknown, At
  <1>2. CASE Refuse(p)
    BY <1>1, <1>2, RefuseKeeps DEF Calling
  <1>3. CASE RequestForRevocation(p)
    BY <1>1, <1>3, RevocationKeeps
  <1>4. CASE Reply(p, ctl, "outcome")
    BY <1>1, <1>4, RefuseCtl, Replied DEF Reply, CtlStep
  <1>5. CASE CanAppend("remote", "attempt.unknown") /\ Reply(p, Appended("remote", "attempt.unknown"), "outcome")
    BY <1>1, <1>5, OutcomeReplyKeeps DEF Backed, DraftTypes
  <1> QED BY <1>2, <1>3, <1>4, <1>5 DEF OutcomeUnknown

LEMMA OutcomeJournalKeeps ==
    ASSUME NativeInv, NEW p \in Procs, OutcomeJournal(p), UNCHANGED <<host, child>>
    PROVE  NativeInv'
  <1>1. proc[p].pc = "outcome.journal" /\ Rec(ctl, CtlFields)
    BY DEF OutcomeJournal, At, NativeInv, Shaped
  <1>2. CASE Refuse(p)
    BY <1>1, <1>2, RefuseKeeps DEF Calling
  <1>3. CASE ctl' = [ctl EXCEPT !.outcomes = @ \cup {proc[p].doc}] /\ Goto(p, "outcome.settle")
    <2>1. Glides(p, "outcome.settle")
      BY <1>3, GotoGlides
    <2>2. CtlKeeps(ctl') /\ ctl'.lock = ctl.lock
      BY <1>1, <1>3 DEF CtlKeeps, Rec, CtlFields
    <2>3. CtlStep /\ LockMono(p)
      BY <2>1, <2>2, KeepsStep DEF LockMono, Glides
    <2>4. OwnOK(p)'
      BY <1>1, <2>1, <2>3, ControlAssumption
      DEF Glides, OwnOK, FlowOK, LaunchOK, ChildOK, FilesOK, RecordedOK, CarryOK, EvidenceOK, DocsOK, PreIntent,
          PastIntent, Recorded, Fact, CtlStep, CtlMono, Still, CallStill, DocsStill, SettledAs
    <2> QED BY <2>1, <2>3, <2>4, Lands
  <1> QED BY <1>2, <1>3 DEF OutcomeJournal

LEMMA OutcomeSettleKeeps ==
    ASSUME NativeInv, NEW p \in Procs, OutcomeSettle(p), UNCHANGED <<host, child>>
    PROVE  NativeInv'
  <1>1. /\ proc[p].pc = "outcome.settle" /\ proc[p].doc.out \in {"completed", "failed", "cancelled"}
    BY DEF OutcomeSettle, At, NativeInv, OwnOK, EvidenceOK, DocOK, FlowOK
  <1>2. CASE Refuse(p)
    BY <1>1, <1>2, RefuseKeeps DEF Calling
  <1>3. CASE RequestForRevocation(p)
    BY <1>1, <1>3, RevocationKeeps
  <1>4. ASSUME NEW x, Goto(p, x), UNCHANGED ctl,
               \/ x = "outcome.attempt" /\ SettledAs(proc[p].doc.out)
               \/ x = "outcome.fail" /\ proc[p].doc.out = "failed"
               \/ x = "outcome.cancel" /\ proc[p].doc.out = "cancelled"
        PROVE  NativeInv'
    <2>1. Glides(p, x)
      BY <1>4, GotoGlides
    <2>2. CtlStep /\ LockMono(p)
      BY <1>4, <2>1, SameCtl DEF Glides
    <2>3. OwnOK(p)'
      BY <1>1, <1>4, <2>1, <2>2
      DEF Glides, OwnOK, FlowOK, LaunchOK, ChildOK, FilesOK, RecordedOK, CarryOK, EvidenceOK, DocsOK, PreIntent,
          PastIntent, Recorded, Fact, CtlStep, CtlMono, Still, CallStill, DocsStill, SettledAs
    <2> QED BY <2>1, <2>2, <2>3, Lands
  <1>5. CASE proc[p].doc.out = "completed"
    BY <1>2, <1>4, <1>5 DEF OutcomeSettle, SettleCompleted, SettledAs
  <1>6. CASE proc[p].doc.out = "failed"
    BY <1>2, <1>4, <1>6 DEF OutcomeSettle, SettledAs
  <1>7. CASE proc[p].doc.out = "cancelled"
    BY <1>3, <1>4, <1>7 DEF OutcomeSettle
  <1> QED BY <1>1, <1>5, <1>6, <1>7

LEMMA OutcomeFailKeeps ==
    ASSUME NativeInv, NEW p \in Procs, OutcomeFail(p), UNCHANGED <<host, child>>
    PROVE  NativeInv'
  <1>1. /\ proc[p].pc = "outcome.fail" /\ proc[p].doc.out = "failed" /\ Exited(proc[p].doc.start) /\ Rec(ctl, CtlFields)
    BY DEF OutcomeFail, At, NativeInv, OwnOK, EvidenceOK, DocOK, FlowOK, Shaped
  <1>2. CASE Refuse(p)
    BY <1>1, <1>2, RefuseKeeps DEF Calling
  <1>3. CASE /\ ResultLive /\ ctl' = [ctl EXCEPT !.lease = "failed", !.reason = "native-task-failed"]
             /\ Goto(p, "outcome.attempt")
    <2>1. Glides(p, "outcome.attempt")
      BY <1>3, GotoGlides
    <2>2. /\ CtlSettles(ctl') /\ ctl'.lease = "failed" /\ ctl'.reason = "native-task-failed" /\ ctl'.lock = ctl.lock
      BY Zenon, <1>1, <1>3 DEF CtlSettles, Rec, CtlFields, ResultLive
    <2>3. CtlMono /\ ControlOK'
      BY <1>1, <2>1, <2>2, SettlesFailed DEF Glides, Exited
    <2>4. LockMono(p)
      BY <2>1, <2>2 DEF LockMono, Glides
    <2>5. OwnOK(p)'
      BY <1>1, <2>1, <2>2, <2>3, ControlAssumption
      DEF Glides, OwnOK, FlowOK, LaunchOK, ChildOK, FilesOK, RecordedOK, CarryOK, EvidenceOK, DocsOK, PreIntent,
          PastIntent, Recorded, Fact, CtlStep, CtlMono, Still, CallStill, DocsStill, SettledAs
    <2> QED BY <2>1, <2>3, <2>4, <2>5, Settles DEF Glides
  <1> QED BY <1>2, <1>3 DEF OutcomeFail

(* A cancellation settles an open lease, or finds it settled.              *)
LEMMA SettlesCancelled ==
    ASSUME NativeInv, NEW p \in Procs, ProcMono(p), ChildMono(p), \E a \in Procs : Exited(a), CanSettleCancelled,
           ctl' = SettledCancelled
    PROVE  /\ CtlMono /\ (CtlStep \/ ControlOK') /\ ctl'.lock = ctl.lock
           /\ ctl'.lease = "failed" /\ ctl'.reason = "cancel-observed"
  <1>1. Rec(ctl, CtlFields) /\ ctl' = [ctl EXCEPT !.lease = "failed", !.reason = "cancel-observed"]
    BY DEF NativeInv, Shaped, SettledCancelled
  <1>2. /\ Rec(ctl', CtlFields) /\ ctl'.lease = "failed" /\ ctl'.reason = "cancel-observed" /\ ctl'.lock = ctl.lock
        /\ ctl'.run = ctl.run /\ ctl'.facts = ctl.facts /\ ctl'.artifact = ctl.artifact /\ ctl'.cas = ctl.cas
        /\ ctl'.journal = ctl.journal
    BY Zenon, <1>1 DEF Rec, CtlFields
  <1>3. CASE ctl.lease = "consumed"
    <2>1. CtlSettles(ctl')
      BY <1>2, <1>3 DEF CtlSettles, OpenLease
    <2> QED BY <1>2, <2>1, SettlesFailed DEF CanSettleCancelled
  <1>4. CASE ctl.lease = "failed" /\ ctl.reason = "cancel-observed"
    <2>1. CtlKeeps(ctl')
      BY <1>2, <1>4 DEF CtlKeeps
    <2> QED BY <1>2, <2>1, KeepsStep DEF CtlStep
  <1> QED BY <1>3, <1>4 DEF CanSettleCancelled

LEMMA OutcomeCancelKeeps ==
    ASSUME NativeInv, NEW p \in Procs, OutcomeCancel(p), UNCHANGED <<host, child>>
    PROVE  NativeInv'
  <1>1. /\ proc[p].pc = "outcome.cancel" /\ proc[p].doc.out = "cancelled" /\ Exited(proc[p].doc.start)
    BY DEF OutcomeCancel, At, NativeInv, OwnOK, EvidenceOK, DocOK, FlowOK
  <1>2. CASE Refuse(p)
    BY <1>1, <1>2, RefuseKeeps DEF Calling
  <1>3. CASE CanSettleCancelled /\ ctl' = SettledCancelled /\ Goto(p, "outcome.attempt")
    <2>1. Glides(p, "outcome.attempt")
      BY <1>3, GotoGlides
    <2>2. /\ CtlMono /\ (CtlStep \/ ControlOK') /\ ctl'.lock = ctl.lock
          /\ ctl'.lease = "failed" /\ ctl'.reason = "cancel-observed"
      BY <1>1, <1>3, <2>1, SettlesCancelled DEF Glides, Exited
    <2>3. LockMono(p)
      BY <2>1, <2>2 DEF LockMono, Glides
    <2>4. OwnOK(p)'
      BY <1>1, <2>1, <2>2, ControlAssumption
      DEF Glides, OwnOK, FlowOK, LaunchOK, ChildOK, FilesOK, RecordedOK, CarryOK, EvidenceOK, DocsOK, PreIntent,
          PastIntent, Recorded, Fact, CtlStep, CtlMono, Still, CallStill, DocsStill, SettledAs
    <2> QED BY <2>1, <2>2, <2>3, <2>4, Settles DEF Glides
  <1> QED BY <1>2, <1>3 DEF OutcomeCancel

(* The facts of an outcome that the lease was settled as.                  *)
LEMMA FinalTypesBacked ==
    ASSUME NEW out, SettledAs(out)
    PROVE  /\ FinalTypes(out)[1] \in DraftTypes /\ Backed(FinalTypes(out)[1])
           /\ FinalTypes(out)[2] \in DraftTypes /\ Backed(FinalTypes(out)[2])
  <1>1. CASE out = "completed"
    BY <1>1 DEF FinalTypes, DraftTypes, Backed
  <1>2. CASE out = "failed"
    BY <1>2 DEF FinalTypes, DraftTypes, Backed
  <1>3. CASE out = "cancelled"
    BY <1>3 DEF FinalTypes, DraftTypes, Backed
  <1> QED BY <1>1, <1>2, <1>3 DEF SettledAs

LEMMA OutcomeAttemptKeeps ==
    ASSUME NativeInv, NEW p \in Procs, OutcomeAttempt(p), UNCHANGED <<host, child>>
    PROVE  NativeInv'
  <1>1. proc[p].pc = "outcome.attempt" /\ SettledAs(proc[p].doc.out)
    BY DEF OutcomeAttempt, At, NativeInv, OwnOK, EvidenceOK
  <1>2. PICK t : t = FinalTypes(proc[p].doc.out)[1]
    OBVIOUS
  <1>3. t \in DraftTypes /\ Backed(t)
    BY <1>1, <1>2, FinalTypesBacked
  <1>4. Step(p, "remote", t, "outcome.run")
    BY <1>2 DEF OutcomeAttempt
  <1> QED BY <1>1, <1>3, <1>4, OutcomeStepKeeps

LEMMA OutcomeRunKeeps ==
    ASSUME NativeInv, NEW p \in Procs, OutcomeRun(p), UNCHANGED <<host, child>>
    PROVE  NativeInv'
  <1>1. proc[p].pc = "outcome.run" /\ SettledAs(proc[p].doc.out)
    BY DEF OutcomeRun, At, NativeInv, OwnOK, EvidenceOK
  <1>2. PICK t : t = FinalTypes(proc[p].doc.out)[2]
    OBVIOUS
  <1>3. t \in DraftTypes /\ Backed(t)
    BY <1>1, <1>2, FinalTypesBacked
  <1>4. CASE Refuse(p)
    BY <1>1, <1>4, RefuseKeeps DEF Calling
  <1>5. CASE CanAppend("remote", t) /\ Reply(p, Appended("remote", t), "outcome")
    BY <1>1, <1>3, <1>5, OutcomeReplyKeeps
  <1> QED BY <1>2, <1>4, <1>5 DEF OutcomeRun

LEMMA HandlerKeeps ==
    ASSUME NativeInv, NEW p \in Procs, Handler(p), UNCHANGED <<host, child>>
    PROVE  NativeInv'
  BY ClaimKeeps, ClaimQueueKeeps, PollKeeps, PollClaimKeeps, PollConsumeKeeps, StartKeeps, StartJournalKeeps, StartFactKeeps, StartCheckKeeps, OutputKeeps, OutputPutKeeps, OutputCompleteKeeps, OutcomeKeeps, OutcomeUnknownKeeps, OutcomeJournalKeeps, OutcomeSettleKeeps, OutcomeFailKeeps, OutcomeCancelKeeps, OutcomeAttemptKeeps, OutcomeRunKeeps
  DEF Handler

LEMMA ControllerStopsKeeps ==
    ASSUME NativeInv, NEW p \in Procs, ControllerStops(p), UNCHANGED <<host, child>>
    PROVE  NativeInv'
  <1>1. proc[p].pc \in Locked /\ ctl' = Unlocked(p, ctl) /\ Goto(p, proc[p].lost)
    BY ControlAssumption DEF ControllerStops, NativeInv, LockOK
  <1> QED BY <1>1, RefuseCtl, Refused DEF Calling
-----------------------------------------------------------------------------
(* A walk moves the counter of one process and may write its state root.   *)
Walks(p, x) ==
    /\ Still(p) /\ CallStill(p) /\ DocsStill(p) /\ proc'[p].pc = x
    /\ H(p)' = host'[proc[p].root] /\ proc[p].root \in Roots
    /\ child' = child /\ OwnOK(p) /\ DocsOK(p)' /\ ProcMono(p) /\ ChildMono(p)

LEMMA GotoWalks ==
    ASSUME NativeInv, NEW p \in Procs, NEW x, Goto(p, x), UNCHANGED child, x \notin Seeing,
           x \in {"claim.claim", "claim.consume"} => proc[p].pc \in {"claim.claim", "claim.consume"}
    PROVE  Walks(p, x)
  <1>1. Still(p) /\ CallStill(p) /\ DocsStill(p) /\ proc'[p].pc = x
    BY GotoStill
  <1>2. ProcMono(p) /\ ChildMono(p)
    BY GotoMono, ChildSame
  <1>3. DocsOK(p)'
    BY <1>1, <1>2, DocsStay
  <1>4. H(p)' = host'[proc[p].root]
    BY <1>1 DEF Still, H
  <1>5. OwnOK(p) /\ proc[p].root \in Roots
    BY DEF NativeInv, Shaped, IsProc
  <1> QED BY <1>1, <1>2, <1>3, <1>4, <1>5 DEF Walks

LEMMA StaysPut ==
    ASSUME NativeInv, NEW p \in Procs, UNCHANGED <<proc, child>>
    PROVE  Walks(p, proc[p].pc) /\ Walks(p, proc'[p].pc)
  <1>1. Still(p) /\ CallStill(p) /\ DocsStill(p) /\ H(p)' = host'[proc[p].root]
    BY DEF Still, CallStill, DocsStill, H
  <1>2. OwnOK(p) /\ Rec(proc, Procs) /\ IsProc(proc[p])
    BY DEF NativeInv, Shaped
  <1>3. ProcMono(p) /\ ChildMono(p)
    BY <1>2, ChildSame DEF ProcMono
  <1>4. DocsOK(p)'
    BY <1>1, <1>3, DocsStay
  <1>5. proc[p].root \in Roots
    BY <1>2 DEF IsProc
  <1> QED BY <1>1, <1>2, <1>3, <1>4, <1>5 DEF Walks

LEMMA Arrives ==
    ASSUME NativeInv, NEW p \in Procs, NEW x, Walks(p, x), CtlStep, LockMono(p), HostMono(p), OwnOK(p)'
    PROVE  NativeInv'
  BY StepOK DEF Walks

(* What a write leaves of the state roots.                                 *)
Wrote(p, S) ==
    /\ Rec(host', Roots) /\ Rec(host'[proc[p].root], HostFields)
    /\ \A r \in Roots \ {proc[p].root} : host'[r] = host[r]
    /\ \A f \in HostFields \ S : host'[proc[p].root][f] = host[proc[p].root][f]

LEMMA WriteFacts ==
    ASSUME NativeInv, NEW p \in Procs, NEW file \in HostFields, NEW v, Write(p, file, v)
    PROVE  Wrote(p, {file}) /\ host'[proc[p].root][file] = v
  <1>1. /\ Rec(host, Roots) /\ proc[p].root \in Roots /\ Rec(host[proc[p].root], HostFields)
    BY DEF NativeInv, Shaped, IsProc, IsHost
  <1>2. /\ Rec(host', Roots) /\ \A r \in Roots \ {proc[p].root} : host'[r] = host[r]
        /\ host'[proc[p].root] = [host[proc[p].root] EXCEPT ![file] = v]
    BY Zenon, <1>1 DEF Write, Rec
  <1>3. /\ Rec(host'[proc[p].root], HostFields) /\ host'[proc[p].root][file] = v
        /\ \A f \in HostFields \ {file} : host'[proc[p].root][f] = host[proc[p].root][f]
    BY Zenon, <1>1, <1>2 DEF Rec
  <1> QED BY <1>2, <1>3 DEF Wrote

(* The files that tell who launched and what it left.                      *)
Marked(p) ==
    LET h == host[proc[p].root]
        k == host'[proc[p].root]
    IN  /\ k.lock = h.lock /\ k.intent = h.intent /\ k.claim = h.claim /\ k.identity = h.identity
        /\ k.start = h.start /\ k.outcome = h.outcome /\ k.cancelled = h.cancelled /\ k.differs = h.differs

(* A write of material leaves them.                                        *)
LEMMA MaterialMono ==
    ASSUME NativeInv, NEW p \in Procs,
           Wrote(p, {"cache", "staged", "exported", "workspace", "ray", "result", "journal", "prepare"}),
           Rec(host'[proc[p].root].journal, JournalFields),
           host'[proc[p].root].prepare = host[proc[p].root].prepare \/ host[proc[p].root].prepare \in {NoProc, p},
           \/ /\ host'[proc[p].root].journal.starts = host[proc[p].root].journal.starts
              /\ host'[proc[p].root].journal.lease = host[proc[p].root].journal.lease
           \/ /\ host[proc[p].root].prepare \in {NoProc, p}
              /\ host'[proc[p].root].journal.starts # 0 => host'[proc[p].root].journal.lease # None
              /\ host[proc[p].root].journal.starts # 0 =>
                     /\ host'[proc[p].root].journal.starts # 0
                     /\ host'[proc[p].root].journal.lease = host[proc[p].root].journal.lease
    PROVE  HostMono(p) /\ Marked(p)
  <1>1. Marked(p)
    BY Zenon DEF Wrote, Marked, HostFields
  <1>2. Shaped
    BY Zenon DEF NativeInv
  <1> QED BY Zenon, <1>1, <1>2 DEF HostMono, Wrote, IsHost, Shaped, Marked
-----------------------------------------------------------------------------
(* Transfers.                                                              *)
LEMMA MaterialPut ==
    ASSUME NativeInv, NEW p \in Procs, NEW file \in {"cache", "staged", "exported", "workspace", "ray", "result"}, NEW v,
           Write(p, file, v)
    PROVE  /\ HostMono(p) /\ Marked(p) /\ host'[proc[p].root].journal = host[proc[p].root].journal
           /\ host'[proc[p].root].prepare = host[proc[p].root].prepare
  <1>1. Wrote(p, {file})
    BY Zenon, WriteFacts DEF HostFields
  <1>2. /\ Wrote(p, {"cache", "staged", "exported", "workspace", "ray", "result", "journal", "prepare"})
        /\ host'[proc[p].root].journal = host[proc[p].root].journal /\ host'[proc[p].root].prepare = host[proc[p].root].prepare
    BY <1>1 DEF Wrote, HostFields
  <1>3. Rec(host[proc[p].root].journal, JournalFields)
    BY DEF NativeInv, Shaped, IsProc, IsHost
  <1> QED BY <1>2, <1>3, MaterialMono

LEMMA PreparePut ==
    ASSUME NativeInv, NEW p \in Procs, NEW v, Write(p, "prepare", v), host[proc[p].root].prepare \in {NoProc, p}
    PROVE  /\ HostMono(p) /\ Marked(p) /\ host'[proc[p].root].journal = host[proc[p].root].journal
           /\ host'[proc[p].root].prepare = v
  <1>1. Wrote(p, {"prepare"}) /\ host'[proc[p].root].prepare = v
    BY WriteFacts DEF HostFields
  <1>2. /\ Wrote(p, {"cache", "staged", "exported", "workspace", "ray", "result", "journal", "prepare"})
        /\ host'[proc[p].root].journal = host[proc[p].root].journal
    BY <1>1 DEF Wrote, HostFields
  <1>3. Rec(host[proc[p].root].journal, JournalFields)
    BY DEF NativeInv, Shaped, IsProc, IsHost
  <1> QED BY Zenon, <1>1, <1>2, <1>3, MaterialMono

LEMMA ExportKeeps ==
    ASSUME NativeInv, NEW p \in Procs, Export(p), UNCHANGED child
    PROVE  NativeInv'
  <1>1. proc[p].pc = "carry.export" /\ Goto(p, "done") /\ UNCHANGED ctl
    BY DEF Export, At
  <1>2. PICK v : Write(p, "exported", v)
    BY Zenon DEF Export, Write
  <1>3. Walks(p, "done")
    BY <1>1, GotoWalks
  <1>4. CtlStep /\ LockMono(p)
    BY <1>1, SameCtl
  <1>5. /\ HostMono(p) /\ Marked(p) /\ host'[proc[p].root].journal = host[proc[p].root].journal
    BY <1>2, MaterialPut
  <1>6. OwnOK(p)'
    BY <1>1, <1>3, <1>4, <1>5
    DEF Walks, Marked, H, OwnOK, FlowOK, LaunchOK, ChildOK, FilesOK, RecordedOK, CarryOK, EvidenceOK, DocsOK,
        PreIntent, PastIntent, Recorded, Fact, CtlStep, CtlMono, Still, CallStill, DocsStill, SettledAs
  <1> QED BY <1>3, <1>4, <1>5, <1>6, Arrives

LEMMA RecordFaultKeeps ==
    ASSUME NativeInv, NEW p \in Procs, NEW kind, RecordFault(p, kind), UNCHANGED child
    PROVE  NativeInv'
  <1> DEFINE j == host[proc[p].root].journal
  <1>1. proc[p].pc = "carry.export" /\ UNCHANGED ctl /\ Rec(j, JournalFields) /\ UNCHANGED proc
    BY DEF RecordFault, At, NativeInv, Shaped, IsProc, IsHost
  <1>2. PICK v : Write(p, "journal", v) /\ v = [j EXCEPT !.obs = Faults[kind]]
    BY Zenon DEF RecordFault, Write
  <1>3. Rec(v, JournalFields) /\ v.starts = j.starts /\ v.lease = j.lease
    BY Zenon, <1>1, <1>2 DEF Rec, JournalFields
  <1>4. Wrote(p, {"journal"}) /\ host'[proc[p].root].journal = v
    BY Zenon, <1>2, WriteFacts DEF HostFields
  <1>5. /\ Wrote(p, {"cache", "staged", "exported", "workspace", "ray", "result", "journal", "prepare"})
        /\ host'[proc[p].root].prepare = host[proc[p].root].prepare
    BY <1>4 DEF Wrote, HostFields
  <1>6. HostMono(p) /\ Marked(p)
    BY Zenon, <1>3, <1>4, <1>5, MaterialMono
  <1>7. Walks(p, proc[p].pc)
    BY <1>1, StaysPut
  <1>8. CtlStep /\ LockMono(p)
    BY <1>1, SameCtl
  <1>9. OwnOK(p)'
    <2>1. FlowOK(proc[p])'
      BY Zenon, <1>1, <1>3, <1>4, <1>6, <1>7, <1>8 DEF Walks, OwnOK, FlowOK, CallStill, DocsStill, Still
    <2>2. LaunchOK(proc[p])'
      BY <1>3, <1>4, <1>6, <1>7, <1>8
      DEF Walks, OwnOK, LaunchOK, Recorded, Fact, CtlStep, CtlMono, CallStill, DocsStill, Still
    <2>3. ChildOK(proc[p], child[p])'
      BY <1>3, <1>4, <1>6, <1>7, <1>8 DEF Walks, OwnOK, ChildOK, CallStill, DocsStill, Still
    <2>4. RecordedOK(p, proc[p], child[p])'
      BY <1>1, <1>3, <1>4, <1>6, <1>7, <1>8
      DEF Walks, OwnOK, RecordedOK, Recorded, Fact, CtlStep, CtlMono, CallStill, DocsStill, Still
    <2>5. FilesOK(p, proc[p], H(p), child[p])'
      BY Zenon, <1>1, <1>3, <1>4, <1>6, <1>7, <1>8
      DEF Walks, OwnOK, FilesOK, PreIntent, PastIntent, H, Marked, CallStill, DocsStill, Still
    <2>6. CarryOK(proc[p], H(p))'
      BY Zenon, <1>1, <1>3, <1>4, <1>6, <1>7, <1>8 DEF Walks, OwnOK, CarryOK, H, Marked, CallStill, DocsStill, Still
    <2>7. EvidenceOK(proc[p])'
      BY Zenon, <1>1, <1>3, <1>4, <1>6, <1>7, <1>8
      DEF Walks, OwnOK, EvidenceOK, SettledAs, DocsOK, CtlStep, CtlMono, H, Marked, CallStill, DocsStill, Still
    <2> QED BY <2>1, <2>2, <2>3, <2>4, <2>5, <2>6, <2>7 DEF OwnOK
  <1> QED BY <1>6, <1>7, <1>8, <1>9, Arrives

LEMMA ClaimForTransferKeeps ==
    ASSUME NativeInv, NEW p \in Procs, ClaimForTransfer(p), UNCHANGED child
    PROVE  NativeInv'
  <1> DEFINE j == host[proc[p].root].journal
  <1>1. /\ proc[p].pc = "carry.claim" /\ UNCHANGED ctl /\ Rec(j, JournalFields) /\ Rec(proc, Procs) /\ IsProc(proc[p])
        /\ OwnOK(p) /\ host[proc[p].root].prepare = NoProc /\ proc[p].op = "carry" /\ proc[p].lease # None
        /\ RootOK(proc[p].root, host[proc[p].root])
    BY Zenon DEF ClaimForTransfer, At, NativeInv, Shaped, IsProc, IsHost, H, OwnOK, FlowOK
  <1>2. CtlStep
    BY <1>1, SameCtl
  <1>3. CASE Goto(p, "refused") /\ UNCHANGED host
    <2>1. Glides(p, "refused")
      BY <1>3, GotoGlides
    <2>2. LockMono(p)
      BY <1>1, SameCtl
    <2>3. OwnOK(p)'
      BY <1>1, <1>2, <2>1
      DEF Glides, OwnOK, FlowOK, LaunchOK, ChildOK, FilesOK, RecordedOK, CarryOK, EvidenceOK, DocsOK, PreIntent,
          PastIntent, Recorded, Fact, CtlStep, CtlMono, Still, CallStill, DocsStill, SettledAs
    <2> QED BY <1>2, <2>1, <2>2, <2>3, Lands
  <1>4. CASE /\ ClaimAllowed(j, proc[p].lease)
             /\ host' = [host EXCEPT ![proc[p].root].journal =
                            [j EXCEPT !.starts = 1, !.lease = IF j.starts = 0 THEN proc[p].lease ELSE j.lease]]
             /\ proc' = [proc EXCEPT ![p].pc = "carry.export", ![p].carried = TRUE]
    <2>1. PICK l : l = IF j.starts = 0 THEN proc[p].lease ELSE j.lease
      OBVIOUS
    <2>2. PICK v : Write(p, "journal", v) /\ v = [j EXCEPT !.starts = 1, !.lease = l]
      BY Zenon, <1>4, <2>1 DEF Write
    <2>3. Rec(v, JournalFields) /\ v.starts = 1 /\ v.lease = l
      BY Zenon, <1>1, <2>2 DEF Rec, JournalFields
    <2>4. l = proc[p].lease /\ (j.starts # 0 => l = j.lease)
      BY Zenon, <1>1, <1>4, <2>1 DEF ClaimAllowed, SameLease, RootOK
    <2>5. Wrote(p, {"journal"}) /\ host'[proc[p].root].journal = v
      BY Zenon, <2>2, WriteFacts DEF HostFields
    <2>6. /\ Wrote(p, {"cache", "staged", "exported", "workspace", "ray", "result", "journal", "prepare"})
          /\ host'[proc[p].root].prepare = host[proc[p].root].prepare
      BY <2>5 DEF Wrote, HostFields
    <2>7. HostMono(p) /\ Marked(p)
      BY <1>1, <2>3, <2>4, <2>5, <2>6, MaterialMono
    <2>8. /\ Rec(proc', Procs) /\ \A q \in Procs \ {p} : proc'[q] = proc[q]
          /\ proc'[p] = [proc[p] EXCEPT !.pc = "carry.export", !.carried = TRUE]
      BY Zenon, <1>1, <1>4 DEF Rec
    <2>9. /\ Rec(proc'[p], ProcFields) /\ proc'[p].pc = "carry.export" /\ proc'[p].carried = TRUE
          /\ \A f \in ProcFields \ {"pc", "carried"} : proc'[p][f] = proc[p][f]
      BY Zenon, <1>1, <2>8 DEF IsProc, Rec, ProcFields
    <2>10. /\ CallStill(p) /\ DocsStill(p)
           /\ proc'[p].op = proc[p].op /\ proc'[p].root = proc[p].root /\ proc'[p].lease = proc[p].lease
           /\ proc'[p].claimed = proc[p].claimed /\ proc'[p].row = proc[p].row /\ proc'[p].fresh = proc[p].fresh
           /\ proc'[p].j = proc[p].j /\ proc'[p].seen = proc[p].seen /\ proc'[p].then = proc[p].then
      BY <2>9 DEF ProcFields, CallStill, DocsStill
    <2>11. ProcMono(p)
      BY <1>1, <2>8, <2>9, <2>10 DEF ProcMono, IsProc, DocsStill, Contender
    <2>12. ChildMono(p) /\ H(p)' = host'[proc[p].root] /\ LockMono(p)
      BY Zenon, <1>1, <2>10, ChildSame, SameCtl DEF H
    <2>13. OwnOK(p)'
      BY <1>1, <1>2, <2>3, <2>4, <2>5, <2>7, <2>9, <2>10, <2>12
      DEF Walks, Marked, H, OwnOK, FlowOK, LaunchOK, ChildOK, FilesOK, RecordedOK, CarryOK, EvidenceOK, DocsOK,
          PreIntent, PastIntent, Recorded, Fact, CtlStep, CtlMono, Still, CallStill, DocsStill, SettledAs
    <2> QED BY <1>2, <2>7, <2>11, <2>12, <2>13, StepOK
  <1> QED BY <1>3, <1>4 DEF ClaimForTransfer, H

(* Leaving a preparation unprepared.                                       *)
LEMMA LeavePrepareKeeps ==
    ASSUME NativeInv, NEW p \in Procs, proc[p].pc \in {"stage", "transfer", "verify"}, LeavePrepare(p, proc[p].no),
           UNCHANGED <<ctl, child>>
    PROVE  NativeInv'
  <1>1. OwnOK(p) /\ proc[p].no \in {"refused", "leave"} /\ host[proc[p].root].prepare = p
    BY DEF NativeInv, OwnOK, FlowOK, FilesOK, H
  <1>2. PICK x \in {"refused", "leave"} : Goto(p, x) /\ x = proc[p].no /\ Write(p, "prepare", NoProc)
    BY Zenon, <1>1 DEF LeavePrepare, Write
  <1>3. Walks(p, x)
    BY <1>2, GotoWalks
  <1>4. HostMono(p) /\ Marked(p) /\ host'[proc[p].root].journal = host[proc[p].root].journal
    BY <1>1, <1>2, PreparePut
  <1>5. CtlStep /\ LockMono(p)
    BY SameCtl
  <1>6. OwnOK(p)'
    <2>1. FlowOK(proc[p])'
      BY <1>2, <1>3, <1>4, <1>5 DEF Walks, OwnOK, FlowOK, CallStill, DocsStill, Still
    <2>2. LaunchOK(proc[p])'
      BY <1>2, <1>3, <1>4, <1>5
      DEF Walks, OwnOK, LaunchOK, Recorded, Fact, CtlStep, CtlMono, CallStill, DocsStill, Still
    <2>3. ChildOK(proc[p], child[p])'
      BY <1>2, <1>3, <1>4, <1>5 DEF Walks, OwnOK, ChildOK, CallStill, DocsStill, Still
    <2>4. RecordedOK(p, proc[p], child[p])'
      BY <1>2, <1>3, <1>4, <1>5
      DEF Walks, OwnOK, RecordedOK, Recorded, Fact, CtlStep, CtlMono, CallStill, DocsStill, Still
    <2>5. FilesOK(p, proc[p], H(p), child[p])'
      BY Zenon, <1>2, <1>3, <1>4, <1>5
      DEF Walks, OwnOK, FilesOK, PreIntent, PastIntent, H, Marked, CallStill, DocsStill, Still
    <2>6. CarryOK(proc[p], H(p))'
      BY <1>2, <1>3, <1>4, <1>5 DEF Walks, OwnOK, CarryOK, H, Marked, CallStill, DocsStill, Still
    <2>7. EvidenceOK(proc[p])'
      BY Zenon, <1>2, <1>3, <1>4, <1>5
      DEF Walks, OwnOK, EvidenceOK, SettledAs, DocsOK, CtlStep, CtlMono, H, Marked, CallStill, DocsStill, Still
    <2> QED BY <2>1, <2>2, <2>3, <2>4, <2>5, <2>6, <2>7 DEF OwnOK
  <1> QED BY <1>3, <1>4, <1>5, <1>6, Arrives

(* The records of a walk, before and after, as values.                    *)
Records(p, x, r, s, h, k, c) ==
    /\ r = proc[p] /\ s = proc'[p] /\ s.pc = x /\ s.op = r.op /\ s.claimed = r.claimed /\ s.ok = r.ok
    /\ h = H(p) /\ k = H(p)' /\ k.lock = h.lock /\ k.intent = h.intent /\ k.claim = h.claim
    /\ k.identity = h.identity /\ k.start = h.start /\ k.differs = h.differs
    /\ c = child[p] /\ c = child'[p] /\ FilesOK(p, r, h, c)

LEMMA WalkRecords ==
    ASSUME NEW p \in Procs, NEW x, Walks(p, x), Marked(p)
    PROVE  \E r, s, h, k, c : Records(p, x, r, s, h, k, c)
  <1>1. H(p)' = host'[proc[p].root] /\ H(p) = host[proc[p].root]
    BY DEF Walks, H
  <1>2. Records(p, x, proc[p], proc'[p], H(p), H(p)', child[p])
    BY <1>1 DEF Records, Walks, Still, CallStill, Marked, OwnOK
  <1> QED BY <1>2

LEMMA PrepareKeeps ==
    ASSUME NativeInv, NEW p \in Procs, Prepare(p), UNCHANGED child
    PROVE  NativeInv'
  <1>1. /\ proc[p].pc = "prepare" /\ UNCHANGED ctl /\ OwnOK(p) /\ proc[p].no \in {"refused", "leave"}
    BY DEF Prepare, At, NativeInv, OwnOK, FlowOK
  <1>2. CtlStep /\ LockMono(p)
    BY <1>1, SameCtl
  <1>3. CASE Goto(p, proc[p].no) /\ UNCHANGED host
    <2>1. PICK x \in {"refused", "leave"} : Goto(p, x) /\ x = proc[p].no
      BY <1>1, <1>3
    <2>2. Glides(p, x)
      BY <1>3, <2>1, GotoGlides
    <2>3. OwnOK(p)'
      BY <1>1, <1>2, <2>1, <2>2
      DEF Glides, OwnOK, FlowOK, LaunchOK, ChildOK, FilesOK, RecordedOK, CarryOK, EvidenceOK, DocsOK, PreIntent,
          PastIntent, Recorded, Fact, CtlStep, CtlMono, Still, CallStill, DocsStill, SettledAs
    <2> QED BY <1>2, <2>2, <2>3, Lands
  <1>4. CASE /\ MaterialIndex(H(p).differs) /\ CeilingsEnforced(H(p).differs) /\ H(p).prepare = NoProc
             /\ host' = [host EXCEPT ![proc[p].root].prepare = p] /\ Goto(p, "stage")
    <2>1. Walks(p, "stage")
      BY <1>4, GotoWalks
    <2>2. /\ HostMono(p) /\ Marked(p) /\ host'[proc[p].root].journal = host[proc[p].root].journal
          /\ host'[proc[p].root].prepare = p
      BY Zenon, <1>4, PreparePut DEF Write, H
    <2>3. host[proc[p].root].differs \cap {"prefix", "identity", "material", "grant", "objects", "ceiling"} = {}
      BY <1>4
      DEF MaterialIndex, CeilingsEnforced, RequestFromBinding, AuthorizationFound, IdentityAgrees, MaterialAgrees,
          ObjectsStored, H
    <2>4. OwnOK(p)'
      <3>1. FlowOK(proc[p])'
        BY <1>1, <1>2, <2>1, <2>2 DEF Walks, OwnOK, FlowOK, CallStill, Still
      <3>2. LaunchOK(proc[p])'
        BY <1>2, <2>1, <2>2 DEF Walks, OwnOK, LaunchOK, Recorded, Fact, CtlStep, CtlMono, Still
      <3>3. ChildOK(proc[p], child[p])'
        BY <1>1, <1>2, <2>1, <2>2 DEF Walks, OwnOK, ChildOK, Still
      <3>4. RecordedOK(p, proc[p], child[p])'
        BY <1>1, <1>2, <2>1, <2>2 DEF Walks, OwnOK, RecordedOK, Recorded, Fact, CtlStep, CtlMono, DocsStill, Still
      <3>5. FilesOK(p, proc[p], H(p), child[p])'
        <4>1. PICK r, s, h, k, c : Records(p, "stage", r, s, h, k, c)
          BY <2>1, <2>2, WalkRecords
        <4>2. /\ r.pc = "prepare" /\ k.prepare = p
              /\ h.differs \cap {"prefix", "identity", "material", "grant", "objects", "ceiling"} = {}
          BY <1>1, <2>1, <2>2, <2>3, <4>1 DEF Records, Walks, H
        <4>3. FilesOK(p, s, k, c)
          BY <4>1, <4>2 DEF Records, FilesOK, PreIntent, PastIntent
        <4> QED BY <4>1, <4>3 DEF Records
      <3>6. CarryOK(proc[p], H(p))'
        BY <1>2, <2>1, <2>2 DEF Walks, OwnOK, CarryOK, H, Marked, Still
      <3>7. EvidenceOK(proc[p])'
        BY <1>2, <2>1, <2>2
        DEF Walks, OwnOK, EvidenceOK, SettledAs, DocsOK, CtlStep, CtlMono, H, Marked, DocsStill, Still
      <3> QED BY <3>1, <3>2, <3>3, <3>4, <3>5, <3>6, <3>7 DEF OwnOK
    <2> QED BY <1>2, <2>1, <2>2, <2>4, Arrives
  <1> QED BY <1>3, <1>4 DEF Prepare

LEMMA CarryKeeps ==
    ASSUME NativeInv, NEW p \in Procs, Carry(p), UNCHANGED child
    PROVE  NativeInv'
  <1>1. /\ proc[p].pc = "carry" /\ UNCHANGED ctl /\ OwnOK(p) /\ Rec(proc, Procs) /\ IsProc(proc[p])
        /\ host[proc[p].root].prepare = NoProc /\ Write(p, "prepare", p)
        /\ proc' = [proc EXCEPT ![p].pc = "stage", ![p].ok = "carry.claim", ![p].no = "refused"]
        /\ proc[p].op = "carry" /\ ~proc[p].claimed /\ child[p] = NoChild
    BY Zenon DEF Carry, At, NativeInv, Shaped, H, Write, OwnOK, FlowOK, ChildOK
  <1>2. CtlStep /\ LockMono(p)
    BY Zenon, <1>1, SameCtl
  <1>3. /\ Rec(proc', Procs) /\ \A q \in Procs \ {p} : proc'[q] = proc[q]
        /\ proc'[p] = [proc[p] EXCEPT !.pc = "stage", !.ok = "carry.claim", !.no = "refused"]
    BY Zenon, <1>1 DEF Rec
  <1>0. Rec(proc[p], ProcFields) /\ proc'[p] = [proc[p] EXCEPT !.pc = "stage", !.ok = "carry.claim", !.no = "refused"]
    BY <1>1, <1>3 DEF IsProc
  <1>4. Rec(proc'[p], ProcFields) /\ proc'[p].pc = "stage" /\ proc'[p].ok = "carry.claim" /\ proc'[p].no = "refused"
    BY Zenon, <1>0 DEF Rec, ProcFields
  <1>5. Still(p) /\ DocsStill(p)
    BY <1>0 DEF ProcFields, Still, DocsStill
  <1>6. ProcMono(p)
    BY Zenon, <1>1, <1>3, <1>4, <1>5 DEF ProcMono, IsProc, DocsStill, Contender, Still
  <1>7. /\ ChildMono(p) /\ H(p)' = host'[proc[p].root]
    BY <1>5, ChildSame DEF H, Still
  <1>8. DocsOK(p)'
    BY <1>5, <1>6, <1>7, DocsStay
  <1>9. /\ HostMono(p) /\ Marked(p) /\ host'[proc[p].root].journal = host[proc[p].root].journal
        /\ host'[proc[p].root].prepare = p
    BY <1>1, PreparePut
  <1>10. OwnOK(p)'
    <2>1. FlowOK(proc[p])'
      BY <1>1, <1>2, <1>4, <1>5, <1>7, <1>8, <1>9 DEF Walks, OwnOK, FlowOK, CallStill, DocsStill, Still
    <2>2. LaunchOK(proc[p])'
      BY <1>1, <1>2, <1>4, <1>5, <1>7, <1>8, <1>9
      DEF Walks, OwnOK, LaunchOK, Recorded, Fact, CtlStep, CtlMono, CallStill, DocsStill, Still
    <2>3. ChildOK(proc[p], child[p])'
      BY <1>1, <1>2, <1>4, <1>5, <1>7, <1>8, <1>9 DEF Walks, OwnOK, ChildOK, CallStill, DocsStill, Still
    <2>4. RecordedOK(p, proc[p], child[p])'
      BY Zenon, <1>1, <1>2, <1>4, <1>5, <1>7, <1>8, <1>9
      DEF Walks, OwnOK, RecordedOK, Recorded, Fact, CtlStep, CtlMono, CallStill, DocsStill, Still
    <2>5. FilesOK(p, proc[p], H(p), child[p])'
      BY Zenon, <1>1, <1>2, <1>4, <1>5, <1>7, <1>8, <1>9, ControlAssumption
      DEF Walks, OwnOK, FilesOK, PreIntent, PastIntent, H, Marked, CallStill, DocsStill, Still
    <2>6. CarryOK(proc[p], H(p))'
      BY <1>1, <1>2, <1>4, <1>5, <1>7, <1>8, <1>9 DEF Walks, OwnOK, CarryOK, H, Marked, CallStill, DocsStill, Still
    <2>7. EvidenceOK(proc[p])'
      BY Zenon, <1>2, <1>4, <1>5, <1>7, <1>8, <1>9
      DEF Walks, OwnOK, EvidenceOK, SettledAs, DocsOK, CtlStep, CtlMono, H, Marked, CallStill, DocsStill, Still
    <2> QED BY <2>1, <2>2, <2>3, <2>4, <2>5, <2>6, <2>7 DEF OwnOK
  <1> QED BY <1>2, <1>6, <1>7, <1>9, <1>10, StepOK

LEMMA StageKeeps ==
    ASSUME NativeInv, NEW p \in Procs, Stage(p), UNCHANGED child
    PROVE  NativeInv'
  <1> DEFINE j == host[proc[p].root].journal
  <1>1. /\ proc[p].pc = "stage" /\ UNCHANGED ctl /\ OwnOK(p) /\ Rec(proc, Procs) /\ IsProc(proc[p])
        /\ Rec(j, JournalFields) /\ proc[p].root \in Roots
    BY DEF Stage, At, NativeInv, Shaped, IsProc, IsHost
  <1>2. CtlStep /\ LockMono(p)
    BY <1>1, SameCtl
  <1>3. CASE LeavePrepare(p, proc[p].no)
    BY <1>1, <1>3, LeavePrepareKeeps
  <1>4. CASE Goto(p, "verify") /\ UNCHANGED host
    <2>1. Glides(p, "verify")
      BY <1>4, GotoGlides
    <2>2. OwnOK(p)'
      BY <1>1, <1>2, <2>1
      DEF Glides, OwnOK, FlowOK, LaunchOK, ChildOK, FilesOK, RecordedOK, CarryOK, EvidenceOK, DocsOK, PreIntent,
          PastIntent, Recorded, Fact, CtlStep, CtlMono, Still, CallStill, DocsStill, SettledAs
    <2> QED BY <1>2, <2>1, <2>2, Lands
  <1>5. CASE /\ ~(proc[p].lease # None /\ ~SameLease(j, proc[p].lease)) /\ UNCHANGED host
             /\ proc' = [proc EXCEPT ![p].pc = "transfer",
                ![p].j = [j EXCEPT !.attempts = j.attempts + 1,
                                   !.lease = IF proc[p].lease = None THEN j.lease ELSE proc[p].lease]]
    <2>1. PICK v : /\ proc' = [proc EXCEPT ![p].pc = "transfer", ![p].j = v]
                   /\ v = [j EXCEPT !.attempts = j.attempts + 1,
                                    !.lease = IF proc[p].lease = None THEN j.lease ELSE proc[p].lease]
      BY Zenon, <1>5
    <2>2. /\ Rec(v, JournalFields) /\ v.starts = j.starts
          /\ v.lease = IF proc[p].lease = None THEN j.lease ELSE proc[p].lease
      BY Zenon, <1>1, <2>1 DEF Rec, JournalFields
    <2>3. j.lease # None => v.lease = j.lease
      BY Zenon, <1>5, <2>2 DEF SameLease
    <2>4. /\ Rec(proc', Procs) /\ \A q \in Procs \ {p} : proc'[q] = proc[q]
          /\ proc'[p] = [proc[p] EXCEPT !.pc = "transfer", !.j = v]
      BY Zenon, <1>1, <2>1 DEF Rec
    <2>5. /\ Rec(proc'[p], ProcFields) /\ proc'[p].pc = "transfer" /\ proc'[p].j = v
          /\ \A f \in ProcFields \ {"pc", "j"} : proc'[p][f] = proc[p][f]
      BY Zenon, <1>1, <2>4 DEF IsProc, Rec, ProcFields
    <2>6. /\ CallStill(p) /\ DocsStill(p)
          /\ proc'[p].op = proc[p].op /\ proc'[p].root = proc[p].root /\ proc'[p].lease = proc[p].lease
          /\ proc'[p].claimed = proc[p].claimed /\ proc'[p].row = proc[p].row /\ proc'[p].fresh = proc[p].fresh
          /\ proc'[p].carried = proc[p].carried /\ proc'[p].seen = proc[p].seen /\ proc'[p].then = proc[p].then
      BY <2>5 DEF ProcFields, CallStill, DocsStill
    <2>7. ProcMono(p)
      BY Zenon, <1>1, <2>2, <2>4, <2>5, <2>6 DEF ProcMono, IsProc, DocsStill, Contender
    <2>8. HostMono(p) /\ ChildMono(p) /\ H(p)' = H(p)
      BY Zenon, <1>5, <2>6, HostSame, ChildSame DEF H
    <2>9. DocsOK(p)'
      <3>1. \A d : DocOK(d) => DocOK(d)'
        BY <2>7, <2>8, DocStays DEF NativeInv
      <3> QED BY <1>1, <2>6, <3>1 DEF OwnOK, EvidenceOK, DocsOK, DocOK, Exited, DocsStill
    <2>10. H(p).journal = j
      BY DEF H
    <2>11. OwnOK(p)'
      <3> HIDE DEF j
      <3> QED
        BY <1>1, <1>2, <2>2, <2>3, <2>5, <2>6, <2>8, <2>9, <2>10
        DEF Glides, OwnOK, FlowOK, LaunchOK, ChildOK, FilesOK, RecordedOK, CarryOK, EvidenceOK, DocsOK, PreIntent,
            PastIntent, Recorded, Fact, CtlStep, CtlMono, Still, CallStill, DocsStill, SettledAs
    <2> QED BY <1>2, <2>7, <2>8, <2>11, StepOK
  <1> QED BY <1>3, <1>4, <1>5 DEF Stage, H

(* Bytes staged or cached: the counter stays.                              *)
LEMMA BytesKeep ==
    ASSUME NativeInv, NEW p \in Procs, NEW file \in {"cache", "staged", "workspace"}, NEW v, Write(p, file, v),
           proc[p].pc \in {"transfer", "write"}, UNCHANGED <<ctl, proc, child>>
    PROVE  NativeInv'
  <1>1. /\ HostMono(p) /\ Marked(p) /\ host'[proc[p].root].journal = host[proc[p].root].journal
        /\ host'[proc[p].root].prepare = host[proc[p].root].prepare
    BY MaterialPut
  <1>2. PICK x \in {"transfer", "write"} : x = proc[p].pc /\ Walks(p, x)
    BY StaysPut
  <1>3. CtlStep /\ LockMono(p)
    BY SameCtl
  <1>4. OwnOK(p)'
    <2>1. FlowOK(proc[p])'
      BY <1>2, <1>3 DEF Walks, OwnOK, FlowOK, CallStill, DocsStill, Still
    <2>2. LaunchOK(proc[p])'
      BY <1>2, <1>3 DEF Walks, OwnOK, LaunchOK, Recorded, Fact, CtlStep, CtlMono, CallStill, DocsStill, Still
    <2>3. ChildOK(proc[p], child[p])'
      BY <1>2, <1>3 DEF Walks, OwnOK, ChildOK, CallStill, DocsStill, Still
    <2>4. RecordedOK(p, proc[p], child[p])'
      BY <1>2, <1>3 DEF Walks, OwnOK, RecordedOK, Recorded, Fact, CtlStep, CtlMono, CallStill, DocsStill, Still
    <2>5. FilesOK(p, proc[p], H(p), child[p])'
      BY <1>1, <1>2, <1>3 DEF Walks, OwnOK, FilesOK, PreIntent, PastIntent, H, Marked, CallStill, DocsStill, Still
    <2>6. CarryOK(proc[p], H(p))'
      BY <1>1, <1>2, <1>3 DEF Walks, OwnOK, CarryOK, H, Marked, CallStill, DocsStill, Still
    <2>7. EvidenceOK(proc[p])'
      BY Zenon, <1>2, <1>3
      DEF Walks, OwnOK, EvidenceOK, SettledAs, DocsOK, CtlStep, CtlMono, H, Marked, CallStill, DocsStill, Still
    <2> QED BY <2>1, <2>2, <2>3, <2>4, <2>5, <2>6, <2>7 DEF OwnOK
  <1> QED BY <1>1, <1>2, <1>3, <1>4, Arrives

(* The journal of a transfer saved: it names the lease the file named.     *)
LEMMA SavedJournal ==
    ASSUME NativeInv, NEW p \in Procs, proc[p].pc = "transfer", Wrote(p, {"journal", "prepare"}),
           Rec(host'[proc[p].root].journal, JournalFields),
           host'[proc[p].root].journal.starts = proc[p].j.starts, host'[proc[p].root].journal.lease = proc[p].j.lease,
           host'[proc[p].root].prepare \in {NoProc, p}
    PROVE  /\ HostMono(p) /\ Marked(p) /\ host'[proc[p].root].journal.starts = host[proc[p].root].journal.starts
           /\ host[proc[p].root].journal.starts # 0 => host'[proc[p].root].journal.lease = host[proc[p].root].journal.lease
  <1> DEFINE h == host[proc[p].root]
             k == host'[proc[p].root]
  <1>1. /\ h.prepare = p /\ proc[p].j.starts = h.journal.starts
        /\ h.journal.lease # None => proc[p].j.lease = h.journal.lease
        /\ h.journal.starts # 0 => h.journal.lease # None
    BY Zenon DEF NativeInv, Shaped, IsProc, OwnOK, FilesOK, CarryOK, RootOK, H
  <1>2. Wrote(p, {"cache", "staged", "exported", "workspace", "ray", "result", "journal", "prepare"})
    BY Zenon DEF Wrote
  <1> QED BY Zenon, <1>1, <1>2, MaterialMono

LEMMA SaveAndLeaveKeeps ==
    ASSUME NativeInv, NEW p \in Procs, proc[p].pc = "transfer", NEW status, SaveAndLeave(p, status), UNCHANGED <<ctl, child>>
    PROVE  NativeInv'
  <1>0. PICK o : o = IF status = "incomplete" THEN "unknown" ELSE proc[p].j.obs
    OBVIOUS
  <1> DEFINE v == [proc[p].j EXCEPT !.status = status, !.obs = o]
  <1>1. /\ OwnOK(p) /\ proc[p].no \in {"refused", "leave"} /\ Rec(host, Roots) /\ Rec(proc[p].j, JournalFields) /\ proc[p].root \in Roots
        /\ Rec(host[proc[p].root], HostFields)
    BY DEF NativeInv, OwnOK, FlowOK, Shaped, IsProc, IsHost
  <1>2. host' = [host EXCEPT ![proc[p].root].journal = v, ![proc[p].root].prepare = NoProc]
    BY <1>0 DEF SaveAndLeave
  <1> HIDE DEF v
  <1>3. /\ Rec(host', Roots) /\ \A r \in Roots \ {proc[p].root} : host'[r] = host[r]
        /\ host'[proc[p].root] = [host[proc[p].root] EXCEPT !.journal = v, !.prepare = NoProc]
    BY Zenon, <1>1, <1>2 DEF Rec
  <1>4. Wrote(p, {"journal", "prepare"}) /\ host'[proc[p].root].journal = v /\ host'[proc[p].root].prepare = NoProc
    BY Zenon, <1>1, <1>3 DEF Wrote, Rec, HostFields
  <1>5. /\ HostMono(p) /\ Marked(p) /\ host'[proc[p].root].journal.starts = host[proc[p].root].journal.starts
        /\ host[proc[p].root].journal.starts # 0 => host'[proc[p].root].journal.lease = host[proc[p].root].journal.lease
    <2>1. Rec(v, JournalFields) /\ v.starts = proc[p].j.starts /\ v.lease = proc[p].j.lease
      BY Zenon, <1>1 DEF v, Rec, JournalFields
    <2>2. Wrote(p, {"journal", "prepare"}) /\ host'[proc[p].root].prepare \in {NoProc, p}
      BY <1>4
    <2> QED BY Zenon, <1>4, <2>1, <2>2, SavedJournal
  <1>6. PICK x \in {"refused", "leave"} : Goto(p, x) /\ x = proc[p].no
    BY <1>1 DEF SaveAndLeave
  <1>7. Walks(p, x)
    BY <1>6, GotoWalks
  <1>8. CtlStep /\ LockMono(p)
    BY SameCtl
  <1>9. OwnOK(p)'
    <2>1. FlowOK(proc[p])'
      BY <1>4, <1>5, <1>6, <1>7, <1>8 DEF Walks, OwnOK, FlowOK, CallStill, DocsStill, Still
    <2>2. LaunchOK(proc[p])'
      BY <1>4, <1>5, <1>6, <1>7, <1>8
      DEF Walks, OwnOK, LaunchOK, Recorded, Fact, CtlStep, CtlMono, CallStill, DocsStill, Still
    <2>3. ChildOK(proc[p], child[p])'
      BY <1>4, <1>5, <1>6, <1>7, <1>8 DEF Walks, OwnOK, ChildOK, CallStill, DocsStill, Still
    <2>4. RecordedOK(p, proc[p], child[p])'
      BY <1>4, <1>5, <1>6, <1>7, <1>8
      DEF Walks, OwnOK, RecordedOK, Recorded, Fact, CtlStep, CtlMono, CallStill, DocsStill, Still
    <2>5. FilesOK(p, proc[p], H(p), child[p])'
      BY Zenon, <1>4, <1>5, <1>6, <1>7, <1>8
      DEF Walks, OwnOK, FilesOK, PreIntent, PastIntent, H, Marked, CallStill, DocsStill, Still
    <2>6. CarryOK(proc[p], H(p))'
      BY <1>4, <1>5, <1>6, <1>7, <1>8 DEF Walks, OwnOK, CarryOK, H, Marked, CallStill, DocsStill, Still
    <2>7. EvidenceOK(proc[p])'
      BY Zenon, <1>4, <1>5, <1>6, <1>7, <1>8
      DEF Walks, OwnOK, EvidenceOK, SettledAs, DocsOK, CtlStep, CtlMono, H, Marked, CallStill, DocsStill, Still
    <2> QED BY <2>1, <2>2, <2>3, <2>4, <2>5, <2>6, <2>7 DEF OwnOK
  <1> QED BY <1>5, <1>7, <1>8, <1>9, Arrives

LEMMA TransferKeeps ==
    ASSUME NativeInv, NEW p \in Procs, Transfer(p), UNCHANGED child
    PROVE  NativeInv'
  <1>1. proc[p].pc = "transfer" /\ UNCHANGED ctl
    BY Zenon DEF Transfer, At
  <1>2. ASSUME NEW status, SaveAndLeave(p, status) PROVE NativeInv'
    BY <1>1, <1>2, SaveAndLeaveKeeps
  <1>3. CASE /\ host' = [host EXCEPT ![proc[p].root].journal = [proc[p].j EXCEPT !.status = "complete"]]
             /\ Goto(p, "verify")
    <2>1. PICK v : Write(p, "journal", v) /\ v = [proc[p].j EXCEPT !.status = "complete"]
      BY Zenon, <1>3 DEF Write
    <2>2. Rec(proc[p].j, JournalFields) /\ host[proc[p].root].prepare = p
      BY <1>1 DEF NativeInv, Shaped, IsProc, OwnOK, FilesOK, H
    <2>3. Rec(v, JournalFields) /\ v.starts = proc[p].j.starts /\ v.lease = proc[p].j.lease
      BY <2>1, <2>2 DEF Rec, JournalFields
    <2>4. Wrote(p, {"journal"}) /\ host'[proc[p].root].journal = v
      BY <2>1, WriteFacts DEF HostFields
    <2>5. Wrote(p, {"journal", "prepare"}) /\ host'[proc[p].root].prepare = host[proc[p].root].prepare
      BY <2>4 DEF Wrote, HostFields
    <2>6. /\ HostMono(p) /\ Marked(p) /\ host'[proc[p].root].journal.starts = host[proc[p].root].journal.starts
          /\ host[proc[p].root].journal.starts # 0 => host'[proc[p].root].journal.lease = host[proc[p].root].journal.lease
      BY Zenon, <1>1, <2>2, <2>3, <2>4, <2>5, SavedJournal
    <2>7. Walks(p, "verify")
      BY <1>3, GotoWalks
    <2>8. CtlStep /\ LockMono(p)
      BY <1>1, SameCtl
    <2>9. OwnOK(p)'
      <3>1. FlowOK(proc[p])'
        BY <1>1, <2>2, <2>5, <2>6, <2>7, <2>8 DEF Walks, OwnOK, FlowOK, CallStill, DocsStill, Still
      <3>2. LaunchOK(proc[p])'
        BY <2>2, <2>5, <2>6, <2>7, <2>8
        DEF Walks, OwnOK, LaunchOK, Recorded, Fact, CtlStep, CtlMono, CallStill, DocsStill, Still
      <3>3. ChildOK(proc[p], child[p])'
        BY <1>1, <2>2, <2>5, <2>6, <2>7, <2>8 DEF Walks, OwnOK, ChildOK, CallStill, DocsStill, Still
      <3>4. RecordedOK(p, proc[p], child[p])'
        BY <1>1, <2>2, <2>5, <2>6, <2>7, <2>8
        DEF Walks, OwnOK, RecordedOK, Recorded, Fact, CtlStep, CtlMono, CallStill, DocsStill, Still
      <3>5. FilesOK(p, proc[p], H(p), child[p])'
        <4>1. PICK r, s, h, k, c : Records(p, "verify", r, s, h, k, c)
          BY <2>6, <2>7, WalkRecords
        <4>2. r.pc = "transfer" /\ k.prepare = p
          BY <1>1, <2>2, <2>5, <2>7, <4>1 DEF Records, Walks
        <4>3. FilesOK(p, s, k, c)
          BY <4>1, <4>2 DEF Records, FilesOK, PreIntent, PastIntent
        <4> QED BY <4>1, <4>3 DEF Records
      <3>6. CarryOK(proc[p], H(p))'
        BY <2>2, <2>5, <2>6, <2>7, <2>8 DEF Walks, OwnOK, CarryOK, H, Marked, CallStill, DocsStill, Still
      <3>7. EvidenceOK(proc[p])'
        BY Zenon, <2>2, <2>5, <2>6, <2>7, <2>8
        DEF Walks, OwnOK, EvidenceOK, SettledAs, DocsOK, CtlStep, CtlMono, H, Marked, CallStill, DocsStill, Still
      <3> QED BY <3>1, <3>2, <3>3, <3>4, <3>5, <3>6, <3>7 DEF OwnOK
    <2> QED BY <2>6, <2>7, <2>8, <2>9, Arrives
  <1>4. ASSUME NEW f, UNCHANGED proc,
               \/ host' = [host EXCEPT ![proc[p].root].cache[f] = "good"]
               \/ host' = [host EXCEPT ![proc[p].root].staged[f] = "good"]
        PROVE  NativeInv'
    <2>1. \E file \in {"cache", "staged"} : \E v : Write(p, file, v)
      BY Zenon, <1>4 DEF Write
    <2> QED BY <1>1, <1>4, <2>1, BytesKeep
  <1>5. CASE H(p).staged = AllGood
    BY <1>3, <1>5 DEF Transfer
  <1>6. CASE H(p).staged # AllGood
    <2>1. PICK f : f = NextFile(p)
      OBVIOUS
    <2> QED BY Zenon, <1>2, <1>4, <1>6, <2>1 DEF Transfer
  <1> QED BY <1>5, <1>6

(* The workspace lock is released and the preparation goes on.             *)
LEMMA PreparedKeeps ==
    ASSUME NativeInv, NEW p \in Procs, proc[p].pc = "verify", Goto(p, proc[p].ok), UNCHANGED <<ctl, child>>,
           HostMono(p), Marked(p), host'[proc[p].root].journal = host[proc[p].root].journal,
           host'[proc[p].root].prepare = NoProc, proc[p].op = "carry" \/ HostVerifies(H(p).differs)
    PROVE  NativeInv'
  <1>1. /\ OwnOK(p) /\ proc[p].ok \in {"done", "carry.claim", "intent", "spawn"} /\ proc[p].root \in Roots
        /\ RootOK(proc[p].root, host[proc[p].root])
    BY DEF NativeInv, OwnOK, FlowOK, Shaped, IsProc
  <1>2. proc[p].op # "carry" => host[proc[p].root].differs = {}
    <2>1. SUFFICES ASSUME proc[p].op # "carry", NEW f \in host[proc[p].root].differs PROVE FALSE
      OBVIOUS
    <2>2. f \notin {"prefix", "identity", "material", "grant", "objects", "ceiling"}
      BY Zenon, <1>1, <2>1 DEF OwnOK, FilesOK, H
    <2>3. f \notin {"documents", "dependencies", "host"}
      BY <2>1 DEF HostVerifies, DocumentsAgree, DependenciesInstalled, HostMatches, H
    <2> QED BY Zenon, <1>1, <2>2, <2>3 DEF RootOK, Facets
  <1>3. PICK x \in {"done", "carry.claim", "intent", "spawn"} : Goto(p, x) /\ x = proc[p].ok
    BY <1>1
  <1>4. Walks(p, x)
    BY <1>3, GotoWalks
  <1>5. CtlStep /\ LockMono(p)
    BY SameCtl
  <1>6. OwnOK(p)'
    <2>1. /\ x = "done" => proc[p].op = "prepare"
          /\ x = "carry.claim" => proc[p].op = "carry"
          /\ x = "intent" => proc[p].op = "execute" /\ ~proc[p].claimed
          /\ x = "spawn" => proc[p].op = "execute" /\ proc[p].claimed
      BY <1>1, <1>3 DEF OwnOK, FlowOK
    <2> QED
      <3>1. FlowOK(proc[p])'
        BY <1>2, <1>3, <1>4, <1>5, <2>1 DEF Walks, OwnOK, FlowOK, CallStill, DocsStill, Still
      <3>2. LaunchOK(proc[p])'
        BY <1>2, <1>3, <1>4, <1>5, <2>1
        DEF Walks, OwnOK, LaunchOK, Recorded, Fact, CtlStep, CtlMono, CallStill, DocsStill, Still
      <3>3. ChildOK(proc[p], child[p])'
        BY <1>2, <1>3, <1>4, <1>5, <2>1 DEF Walks, OwnOK, ChildOK, CallStill, DocsStill, Still
      <3>4. RecordedOK(p, proc[p], child[p])'
        BY Zenon, <1>2, <1>3, <1>4, <1>5, <2>1
        DEF Walks, OwnOK, RecordedOK, Recorded, Fact, CtlStep, CtlMono, CallStill, DocsStill, Still
      <3>5. FilesOK(p, proc[p], H(p), child[p])'
        <4>1. PICK r, s, h, k, c : Records(p, x, r, s, h, k, c)
          BY <1>4, WalkRecords
        <4>2. /\ r.pc = "verify" /\ (r.op # "carry" => h.differs = {})
              /\ x = "done" => r.op = "prepare"
              /\ x = "carry.claim" => r.op = "carry"
              /\ x = "intent" => r.op = "execute" /\ ~r.claimed /\ r.ok = "intent"
              /\ x = "spawn" => r.op = "execute" /\ r.claimed
          BY <1>2, <1>3, <2>1, <4>1 DEF Records, H
        <4>3. FilesOK(p, s, k, c)
          BY <4>1, <4>2 DEF Records, FilesOK, PreIntent, PastIntent
        <4> QED BY <4>1, <4>3 DEF Records
      <3>6. CarryOK(proc[p], H(p))'
        BY <1>2, <1>3, <1>4, <1>5, <2>1 DEF Walks, OwnOK, CarryOK, H, Marked, CallStill, DocsStill, Still
      <3>7. EvidenceOK(proc[p])'
        BY Zenon, <1>2, <1>3, <1>4, <1>5, <2>1
        DEF Walks, OwnOK, EvidenceOK, SettledAs, DocsOK, CtlStep, CtlMono, H, Marked, CallStill, DocsStill, Still
      <3> QED BY <3>1, <3>2, <3>3, <3>4, <3>5, <3>6, <3>7 DEF OwnOK
  <1> QED BY <1>4, <1>5, <1>6, Arrives

LEMMA PublishKeeps ==
    ASSUME NativeInv, NEW p \in Procs, Publish(p), UNCHANGED child
    PROVE  NativeInv'
  <1>1. proc[p].pc = "verify" /\ UNCHANGED ctl /\ host[proc[p].root].prepare = p
    BY Zenon DEF Publish, At, NativeInv, OwnOK, FilesOK, H
  <1>2. CASE LeavePrepare(p, proc[p].no)
    BY <1>1, <1>2, LeavePrepareKeeps
  <1>3. CASE LeavePrepare(p, proc[p].ok) /\ (proc[p].op = "carry" \/ HostVerifies(H(p).differs))
    <2>1. Write(p, "prepare", NoProc) /\ Goto(p, proc[p].ok)
      BY Zenon, <1>3 DEF LeavePrepare, Write
    <2>2. /\ HostMono(p) /\ Marked(p) /\ host'[proc[p].root].journal = host[proc[p].root].journal
          /\ host'[proc[p].root].prepare = NoProc
      BY <1>1, <2>1, PreparePut
    <2> QED BY <1>1, <1>3, <2>1, <2>2, PreparedKeeps
  <1>4. CASE /\ HostVerifies(H(p).differs) /\ Goto(p, proc[p].ok)
             /\ host' = [host EXCEPT ![proc[p].root].prepare = NoProc,
                                     ![proc[p].root].workspace = [files |-> AllGood, receipt |-> "good"]]
    <2>1. PICK w : host' = [host EXCEPT ![proc[p].root].prepare = NoProc, ![proc[p].root].workspace = w]
      BY Zenon, <1>4
    <2>2. /\ Rec(host, Roots) /\ proc[p].root \in Roots /\ Rec(host[proc[p].root], HostFields)
          /\ Rec(host[proc[p].root].journal, JournalFields)
      BY DEF NativeInv, Shaped, IsProc, IsHost
    <2>3. /\ Rec(host', Roots) /\ \A r \in Roots \ {proc[p].root} : host'[r] = host[r]
          /\ host'[proc[p].root] = [host[proc[p].root] EXCEPT !.prepare = NoProc, !.workspace = w]
      BY Zenon, <2>1, <2>2 DEF Rec
    <2>4. /\ Wrote(p, {"cache", "staged", "exported", "workspace", "ray", "result", "journal", "prepare"})
          /\ host'[proc[p].root].journal = host[proc[p].root].journal
          /\ host'[proc[p].root].prepare = NoProc
      BY Zenon, <2>2, <2>3 DEF Wrote, Rec, HostFields
    <2>5. HostMono(p) /\ Marked(p)
      BY Zenon, <1>1, <2>2, <2>4, MaterialMono
    <2> QED BY Zenon, <1>1, <1>4, <2>4, <2>5, PreparedKeeps
  <1> QED BY <1>2, <1>3, <1>4 DEF Publish

LEMMA WritesFrame ==
    ASSUME NativeInv, NEW p \in Procs, proc[p].pc = "write", NEW x \in {"write", "done", "refused"}, NEW b,
           proc' = [proc EXCEPT ![p].pc = x, ![p].writing = b], UNCHANGED <<ctl, child>>, HostMono(p), Marked(p),
           host'[proc[p].root].journal = host[proc[p].root].journal
    PROVE  NativeInv'
  <1>1. /\ OwnOK(p) /\ Rec(proc, Procs) /\ IsProc(proc[p])
    BY DEF NativeInv, Shaped
  <1>2. /\ Rec(proc', Procs) /\ \A q \in Procs \ {p} : proc'[q] = proc[q]
        /\ proc'[p] = [proc[p] EXCEPT !.pc = x, !.writing = b]
    BY <1>1 DEF Rec
  <1>3. Rec(proc[p], ProcFields) /\ proc'[p] = [proc[p] EXCEPT !.pc = x, !.writing = b]
    BY <1>1, <1>2 DEF IsProc
  <1>4. /\ Rec(proc'[p], ProcFields) /\ proc'[p].pc = x
        /\ \A f \in ProcFields \ {"pc", "writing"} : proc'[p][f] = proc[p][f]
    <2>1. PICK u, v : u = proc[p] /\ v = proc'[p]
      OBVIOUS
    <2>2. Rec(u, ProcFields) /\ v = [u EXCEPT !.pc = x, !.writing = b]
      BY <1>3, <2>1
    <2>3. /\ Rec(v, ProcFields) /\ v.pc = x
          /\ \A f \in ProcFields \ {"pc", "writing"} : v[f] = u[f]
      BY ONLY Zenon, <2>2 DEF Rec, ProcFields
    <2> QED BY Zenon, <2>1, <2>3
  <1>5. Still(p) /\ CallStill(p) /\ DocsStill(p)
    BY Zenon, <1>4 DEF ProcFields, Still, CallStill, DocsStill
  <1>6. ProcMono(p)
    BY Zenon, <1>1, <1>2, <1>4, <1>5 DEF ProcMono, IsProc, DocsStill, Contender, Still
  <1>7. /\ ChildMono(p) /\ H(p)' = host'[proc[p].root]
    BY <1>5, ChildSame DEF H, Still
  <1>8. DocsOK(p)'
    BY <1>5, <1>6, <1>7, DocsStay
  <1>9. CtlStep /\ LockMono(p)
    BY Zenon, SameCtl
  <1>10. OwnOK(p)'
    <2>1. proc'[p].pc = x /\ OwnOK(p) /\ proc[p].op = "write"
      BY <1>1, <1>4 DEF OwnOK, FlowOK
    <2> QED
      <3>1. FlowOK(proc[p])'
        BY <1>5, <1>7, <1>8, <1>9, <2>1 DEF Walks, OwnOK, FlowOK, CallStill, DocsStill, Still
      <3>2. LaunchOK(proc[p])'
        BY <1>5, <1>7, <1>8, <1>9, <2>1
        DEF Walks, OwnOK, LaunchOK, Recorded, Fact, CtlStep, CtlMono, CallStill, DocsStill, Still
      <3>3. ChildOK(proc[p], child[p])'
        BY <1>5, <1>7, <1>8, <1>9, <2>1 DEF Walks, OwnOK, ChildOK, CallStill, DocsStill, Still
      <3>4. RecordedOK(p, proc[p], child[p])'
        BY Zenon, <1>5, <1>7, <1>8, <1>9, <2>1
        DEF Walks, OwnOK, RecordedOK, Recorded, Fact, CtlStep, CtlMono, CallStill, DocsStill, Still
      <3>5. FilesOK(p, proc[p], H(p), child[p])'
        BY Zenon, <1>5, <1>7, <1>8, <1>9, <2>1
        DEF Walks, OwnOK, FilesOK, PreIntent, PastIntent, H, Marked, CallStill, DocsStill, Still
      <3>6. CarryOK(proc[p], H(p))'
        BY <1>5, <1>7, <1>8, <1>9, <2>1 DEF Walks, OwnOK, CarryOK, H, Marked, CallStill, DocsStill, Still
      <3>7. EvidenceOK(proc[p])'
        BY Zenon, <1>7, <1>8, <1>9, <2>1
        DEF Walks, OwnOK, EvidenceOK, SettledAs, DocsOK, CtlStep, CtlMono, H, Marked, CallStill, DocsStill, Still
      <3> QED BY <3>1, <3>2, <3>3, <3>4, <3>5, <3>6, <3>7 DEF OwnOK
  <1> QED BY <1>6, <1>7, <1>9, <1>10, StepOK

LEMMA LocalPrepareKeeps ==
    ASSUME NativeInv, NEW p \in Procs, LocalPrepare(p), UNCHANGED child
    PROVE  NativeInv'
  <1>1. /\ proc[p].pc = "write" /\ UNCHANGED ctl /\ Rec(proc, Procs) /\ Rec(proc[p], ProcFields)
    BY Zenon DEF LocalPrepare, At, NativeInv, Shaped, IsProc
  <1>2. CASE UNCHANGED host /\ (Goto(p, "refused") \/ Goto(p, "done") \/ proc' = [proc EXCEPT ![p].writing = TRUE])
    <2>1a. PICK x \in {"write", "done", "refused"} : \E b : proc' = [proc EXCEPT ![p].pc = x, ![p].writing = b]
      <3>1. CASE Goto(p, "refused")
        <4>1. proc' = [proc EXCEPT ![p].pc = "refused", ![p].writing = proc[p].writing]
          BY Zenon, <1>1, <3>1 DEF Goto, Rec
        <4> QED BY Zenon, <4>1
      <3>2. CASE Goto(p, "done")
        <4>1. proc' = [proc EXCEPT ![p].pc = "done", ![p].writing = proc[p].writing]
          BY Zenon, <1>1, <3>2 DEF Goto, Rec
        <4> QED BY Zenon, <4>1
      <3>3. CASE proc' = [proc EXCEPT ![p].writing = TRUE]
        <4>1. proc' = [proc EXCEPT ![p].pc = "write", ![p].writing = TRUE]
          BY Zenon, <1>1, <3>3 DEF Rec
        <4> QED BY Zenon, <4>1
      <3> QED BY Zenon, <1>2, <3>1, <3>2, <3>3
    <2>1. PICK b : proc' = [proc EXCEPT ![p].pc = x, ![p].writing = b]
      BY Zenon, <2>1a
    <2>2. HostMono(p) /\ Marked(p) /\ host'[proc[p].root].journal = host[proc[p].root].journal
      BY <1>2, HostSame DEF Marked
    <2> QED BY Zenon, <1>1, <2>1, <2>2, WritesFrame
  <1>3. ASSUME NEW f, UNCHANGED proc, host' = [host EXCEPT ![proc[p].root].workspace.files[f] = "good"]
        PROVE  NativeInv'
    <2>1. \E v : Write(p, "workspace", v)
      BY Zenon, <1>3 DEF Write
    <2> QED BY <1>1, <1>3, <2>1, BytesKeep
  <1>4. ASSUME NEW x \in {"done", "refused"}, proc' = [proc EXCEPT ![p].pc = x, ![p].writing = FALSE],
               host' = [host EXCEPT ![proc[p].root].workspace.receipt = "good"]
        PROVE  NativeInv'
    <2>1. PICK v : Write(p, "workspace", v)
      BY Zenon, <1>4 DEF Write
    <2>2. HostMono(p) /\ Marked(p) /\ host'[proc[p].root].journal = host[proc[p].root].journal
      BY <2>1, MaterialPut
    <2> QED BY Zenon, <1>1, <1>4, <2>2, WritesFrame
  <1> QED BY Zenon, <1>2, <1>3, <1>4 DEF LocalPrepare, H

LEMMA TransferStepKeeps ==
    ASSUME NativeInv, NEW p \in Procs, TransferStep(p), UNCHANGED child
    PROVE  NativeInv'
  BY PrepareKeeps, CarryKeeps, StageKeeps, TransferKeeps, PublishKeeps, LocalPrepareKeeps, ClaimForTransferKeeps, ExportKeeps, RecordFaultKeeps
  DEF TransferStep
-----------------------------------------------------------------------------
(* A turn moves the counter of one process and what it calls or reports.   *)
Turns(p) ==
    /\ proc'[p].op = proc[p].op /\ proc'[p].root = proc[p].root /\ proc'[p].lease = proc[p].lease
    /\ proc'[p].claimed = proc[p].claimed /\ proc'[p].carried = proc[p].carried /\ proc'[p].row = proc[p].row
    /\ proc'[p].j = proc[p].j /\ proc'[p].seen = proc[p].seen /\ proc'[p].fresh = proc[p].fresh
    /\ H(p)' = host'[proc[p].root] /\ proc[p].root \in Roots
    /\ OwnOK(p) /\ DocsOK(p)' /\ ProcMono(p) /\ ChildMono(p)

LEMMA Turning ==
    ASSUME NativeInv, NEW p \in Procs, Moved(p, Free), ChildMono(p), proc'[p].pc \notin Seeing,
           proc'[p].pc \notin {"claim.claim", "claim.consume"},
           NEW d, NEW r, proc'[p].doc = d, proc'[p].report = r, Rec(d, DocFields), Rec(r, DocFields),
           proc[p].op \in {"driver", "execute", "reconcile"} => DocOK(d)' /\ DocOK(r)'
    PROVE  Turns(p)
  <1>1. ProcMono(p)
    BY MoveMono
  <1>2. /\ proc'[p].op = proc[p].op /\ proc'[p].root = proc[p].root /\ proc'[p].lease = proc[p].lease
        /\ proc'[p].claimed = proc[p].claimed /\ proc'[p].carried = proc[p].carried /\ proc'[p].row = proc[p].row
        /\ proc'[p].j = proc[p].j /\ proc'[p].seen = proc[p].seen /\ proc'[p].fresh = proc[p].fresh
    BY DEF Moved, Free, ProcFields
  <1>3. OwnOK(p) /\ proc[p].root \in Roots
    BY DEF NativeInv, Shaped, IsProc
  <1>4. H(p)' = host'[proc[p].root]
    BY <1>2 DEF H
  <1>5. DocsOK(p)'
    BY <1>2 DEF DocsOK, DocOK, Exited
  <1> QED BY <1>1, <1>2, <1>3, <1>4, <1>5 DEF Turns

(* The documents it had.                                                   *)
LEMMA TurningAsBefore ==
    ASSUME NativeInv, NEW p \in Procs, Moved(p, Free), ChildMono(p), proc'[p].pc \notin Seeing,
           proc'[p].pc \notin {"claim.claim", "claim.consume"}, DocsStill(p)
    PROVE  Turns(p)
  <1>1. PICK d, r : d = proc[p].doc /\ r = proc[p].report
    OBVIOUS
  <1>2. Rec(d, DocFields) /\ Rec(r, DocFields)
    BY <1>1 DEF NativeInv, Shaped, IsProc
  <1>3. proc[p].op \in {"driver", "execute", "reconcile"} => DocOK(d) /\ DocOK(r)
    BY <1>1 DEF NativeInv, OwnOK, EvidenceOK
  <1>4. ProcMono(p)
    BY <1>1, <1>2, MoveMono DEF DocsStill
  <1>5. proc[p].op \in {"driver", "execute", "reconcile"} => DocOK(d)' /\ DocOK(r)'
    BY <1>3, <1>4, DocStays DEF NativeInv
  <1> QED BY <1>1, <1>2, <1>5, Turning DEF DocsStill

(* Documents that are true now.                                            *)
LEMMA TurningDocs ==
    ASSUME NativeInv, NEW p \in Procs, Moved(p, Free), ChildMono(p), proc'[p].pc \notin Seeing,
           proc'[p].pc \notin {"claim.claim", "claim.consume"},
           NEW d, NEW r, proc'[p].doc = d, proc'[p].report = r, Rec(d, DocFields), Rec(r, DocFields),
           DocOK(d), DocOK(r)
    PROVE  Turns(p)
  <1>1. ProcMono(p)
    BY MoveMono
  <1>2. DocOK(d)' /\ DocOK(r)'
    BY <1>1, DocStays DEF NativeInv
  <1> QED BY <1>2, Turning

LEMMA CallMoves ==
    ASSUME NativeInv, NEW p \in Procs, NEW x, NEW o, NEW n, NEW l, Call(p, x, o, n, l)
    PROVE  /\ Moved(p, Free) /\ DocsStill(p) /\ proc'[p].then = proc[p].then
           /\ proc'[p].pc = x /\ proc'[p].ok = o /\ proc'[p].no = n /\ proc'[p].lost = l
  <1>1. Rec(proc, Procs) /\ Rec(proc[p], ProcFields)
    BY DEF NativeInv, Shaped, IsProc
  <1>2. /\ Rec(proc', Procs) /\ \A q \in Procs \ {p} : proc'[q] = proc[q]
        /\ proc'[p] = [proc[p] EXCEPT !.pc = x, !.ok = o, !.no = n, !.lost = l]
    BY Zenon, <1>1 DEF Call, Rec
  <1>3. /\ Rec(proc'[p], ProcFields) /\ proc'[p].pc = x /\ proc'[p].ok = o /\ proc'[p].no = n /\ proc'[p].lost = l
        /\ \A f \in ProcFields \ {"pc", "ok", "no", "lost"} : proc'[p][f] = proc[p][f]
    <2>1. PICK u, v : u = proc[p] /\ v = proc'[p]
      OBVIOUS
    <2>2. Rec(u, ProcFields) /\ v = [u EXCEPT !.pc = x, !.ok = o, !.no = n, !.lost = l]
      BY <1>1, <1>2, <2>1
    <2>3. /\ Rec(v, ProcFields) /\ v.pc = x /\ v.ok = o /\ v.no = n /\ v.lost = l
          /\ \A f \in ProcFields \ {"pc", "ok", "no", "lost"} : v[f] = u[f]
      BY ONLY Zenon, <2>2 DEF Rec, ProcFields
    <2> QED BY <2>1, <2>3
  <1>4. Moved(p, Free)
    BY <1>2, <1>3 DEF Moved, Free
  <1> QED BY <1>3, <1>4 DEF ProcFields, DocsStill

LEMMA GotoTurns ==
    ASSUME NativeInv, NEW p \in Procs, NEW x, Goto(p, x), ChildMono(p), x \notin Seeing \cup {"claim.claim", "claim.consume"}
    PROVE  Turns(p) /\ proc'[p].pc = x /\ CallStill(p) /\ DocsStill(p) /\ proc'[p].then = proc[p].then
  <1>1. Moved(p, {"pc"}) /\ Still(p) /\ CallStill(p) /\ DocsStill(p) /\ proc'[p].pc = x
    BY Zenon, GotoMoves, GotoStill
  <1>2. Moved(p, Free)
    BY <1>1 DEF Moved, Free
  <1> QED BY <1>1, <1>2, TurningAsBefore DEF Still

LEMMA TurnEnds ==
    ASSUME NativeInv, NEW p \in Procs, Turns(p), CtlStep, LockMono(p), HostMono(p), OwnOK(p)'
    PROVE  NativeInv'
  BY StepOK DEF Turns

(* One file of the state root is written.                                  *)
Put(p, file, v) ==
    LET h == host[proc[p].root]
        k == host'[proc[p].root]
    IN  /\ k[file] = v /\ k.differs = h.differs /\ k.journal = h.journal /\ k.prepare = h.prepare
        /\ file # "lock" => k.lock = h.lock
        /\ file # "intent" => k.intent = h.intent
        /\ file # "claim" => k.claim = h.claim
        /\ file # "identity" => k.identity = h.identity
        /\ file # "start" => k.start = h.start
        /\ file # "outcome" => k.outcome = h.outcome
        /\ file # "cancelled" => k.cancelled = h.cancelled

LEMMA FilePut ==
    ASSUME NativeInv, NEW p \in Procs,
           NEW file \in {"ray", "lock", "intent", "claim", "identity", "start", "result", "outcome", "cancelled"}, NEW v,
           Write(p, file, v),
           file = "lock" => host[proc[p].root].lock \in {NoProc, p},
           file = "intent" => /\ host[proc[p].root].intent = NoProc
                              /\ proc[p].op = "local" \/ (proc[p].op = "execute" /\ host[proc[p].root].lock = p),
           file = "claim" => proc[p].claimed,
           file = "identity" => proc[p].claimed /\ v = p /\ child[p].state # "none",
           file = "start" => proc[p].claimed /\ proc[p].op = "execute" /\ v = p,
           file \in {"outcome", "cancelled"} =>
               \/ v \in {host[proc[p].root].outcome, host[proc[p].root].cancelled}
               \/ v = proc[p].doc /\ proc[p].op \in {"execute", "reconcile"}
    PROVE  HostMono(p) /\ Put(p, file, v)
  <1>0. file \in HostFields
    BY DEF HostFields
  <1>1. Wrote(p, {file}) /\ host'[proc[p].root][file] = v
    BY <1>0, WriteFacts
  <1>2. Put(p, file, v)
    BY <1>1 DEF Wrote, Put, HostFields
  <1>3. Rec(host[proc[p].root].journal, JournalFields) /\ Shaped
    BY DEF NativeInv, Shaped, IsProc, IsHost
  <1> DEFINE h == host[proc[p].root]
             k == host'[proc[p].root]
  <1>4. IsHost(k)
    BY Zenon, <1>1, <1>2, <1>3 DEF Wrote, IsHost, Put
  <1>5. ASSUME NEW r \in Roots \ {proc[p].root} PROVE host'[r] = host[r] /\ IsHost(host[r])
    BY Zenon, <1>1, <1>3 DEF Wrote, Shaped
  <1>6. Rec(host', Roots)
    BY <1>1 DEF Wrote
  <1>7. /\ file = "lock" => k.lock = v
        /\ file = "prepare" => k.prepare = v
        /\ file = "intent" => k.intent = v
        /\ file = "claim" => k.claim = v
        /\ file = "identity" => k.identity = v
        /\ file = "start" => k.start = v
        /\ file = "outcome" => k.outcome = v
        /\ file = "cancelled" => k.cancelled = v
    BY <1>1
  <1> QED BY <1>2, <1>4, <1>5, <1>6, <1>7 DEF HostMono, Put
-----------------------------------------------------------------------------
(* execute_remote_native up to the start document.                         *)
LEMMA LeaveKeeps ==
    ASSUME NativeInv, NEW p \in Procs, Leave(p)
    PROVE  NativeInv'
  <1>1. proc[p].pc = "leave" /\ Goto(p, "done") /\ UNCHANGED <<ctl, child>> /\ Write(p, "lock", NoProc)
    BY Zenon DEF Leave, At, Write
  <1>2. host[proc[p].root].lock = p /\ ChildMono(p)
    BY Zenon, <1>1, ChildSame DEF NativeInv, OwnOK, FlowOK, FilesOK, H
  <1>3. HostMono(p) /\ Put(p, "lock", NoProc)
    BY <1>1, <1>2, FilePut
  <1>4. Turns(p) /\ proc'[p].pc = "done" /\ CallStill(p) /\ DocsStill(p) /\ proc'[p].then = proc[p].then
    BY <1>1, <1>2, GotoTurns
  <1>5. CtlStep /\ LockMono(p)
    BY <1>1, SameCtl
  <1>6. OwnOK(p)'
    <2>1. FlowOK(proc[p])'
      BY <1>3, <1>4, <1>5 DEF Turns, OwnOK, FlowOK, CallStill, DocsStill
    <2>2. LaunchOK(proc[p])'
      BY <1>3, <1>4, <1>5 DEF Turns, OwnOK, LaunchOK, Recorded, Fact, CtlStep, CtlMono, CallStill, DocsStill
    <2>3. ChildOK(proc[p], child[p])'
      BY <1>1, <1>3, <1>4, <1>5 DEF Turns, OwnOK, ChildOK, CallStill, DocsStill
    <2>4. RecordedOK(p, proc[p], child[p])'
      BY <1>1, <1>3, <1>4, <1>5 DEF Turns, OwnOK, RecordedOK, Recorded, Fact, CtlStep, CtlMono, CallStill, DocsStill
    <2>5. FilesOK(p, proc[p], H(p), child[p])'
      BY Zenon, <1>1, <1>3, <1>4, <1>5 DEF Turns, OwnOK, FilesOK, PreIntent, PastIntent, H, Put, CallStill, DocsStill
    <2>6. CarryOK(proc[p], H(p))'
      BY <1>3, <1>4, <1>5 DEF Turns, OwnOK, CarryOK, H, Put, CallStill, DocsStill
    <2>7. EvidenceOK(proc[p])'
      BY Zenon, <1>3, <1>4, <1>5
      DEF Turns, OwnOK, EvidenceOK, SettledAs, DocsOK, CtlStep, CtlMono, H, Put, CallStill, DocsStill
    <2> QED BY <2>1, <2>2, <2>3, <2>4, <2>5, <2>6, <2>7 DEF OwnOK
  <1> QED BY <1>3, <1>4, <1>5, <1>6, TurnEnds

(* A command refused at its beginning.                                     *)
LEMMA BeginRests ==
    ASSUME NativeInv, NEW p \in Procs, proc[p].pc \in {"begin", "local.intent"}, NEW x \in {"refused", "done"}, Goto(p, x),
           UNCHANGED <<ctl, host, child>>
    PROVE  NativeInv'
  <1>1. Glides(p, x)
    BY GotoGlides
  <1>2. CtlStep /\ LockMono(p)
    BY SameCtl
  <1>3. OwnOK(p)'
    BY <1>1, <1>2
    DEF Glides, OwnOK, FlowOK, LaunchOK, ChildOK, FilesOK, RecordedOK, CarryOK, EvidenceOK, DocsOK, PreIntent,
        PastIntent, Recorded, Fact, CtlStep, CtlMono, Still, CallStill, DocsStill, SettledAs
  <1> QED BY <1>1, <1>2, <1>3, Lands

LEMMA BeginKeeps ==
    ASSUME NativeInv, NEW p \in Procs, Begin(p)
    PROVE  NativeInv'
  <1>1. proc[p].pc = "begin" /\ proc[p].op = "execute" /\ UNCHANGED <<ctl, child>>
    BY DEF Begin, At
  <1>2. CASE Goto(p, "refused") /\ UNCHANGED host
    BY <1>1, <1>2, BeginRests
  <1>3. CASE /\ H(p).lock = NoProc /\ H(p).intent = NoProc /\ Write(p, "lock", p)
             /\ proc' = [proc EXCEPT ![p].pc = "prepare", ![p].ok = "intent", ![p].no = "leave", ![p].lost = "leave"]
    <2>1. /\ Moved(p, Free) /\ DocsStill(p) /\ proc'[p].then = proc[p].then
          /\ proc'[p].pc = "prepare" /\ proc'[p].ok = "intent" /\ proc'[p].no = "leave" /\ proc'[p].lost = "leave"
      <3>1. Call(p, "prepare", "intent", "leave", "leave")
        BY <1>3 DEF Call
      <3> QED BY <3>1, CallMoves
    <2>2. HostMono(p) /\ Put(p, "lock", p)
      BY Zenon, <1>3, FilePut DEF H
    <2>0. ~proc[p].claimed /\ child[p] = NoChild
      BY <1>1 DEF NativeInv, OwnOK, FlowOK, ChildOK
    <2>3. ChildMono(p) /\ host[proc[p].root].intent = NoProc
      BY <1>1, <1>3, ChildSame DEF H
    <2>4. Turns(p)
      BY <2>1, <2>3, TurningAsBefore
    <2>5. CtlStep /\ LockMono(p)
      BY <1>1, SameCtl
    <2>6. OwnOK(p)'
      <3>1. FlowOK(proc[p])'
        BY <1>1, <2>0, <2>1, <2>2, <2>3, <2>4, <2>5 DEF Turns, OwnOK, FlowOK, CallStill, DocsStill
      <3>2. LaunchOK(proc[p])'
        BY <2>0, <2>1, <2>2, <2>3, <2>4, <2>5
        DEF Turns, OwnOK, LaunchOK, Recorded, Fact, CtlStep, CtlMono, CallStill, DocsStill
      <3>3. ChildOK(proc[p], child[p])'
        BY <1>1, <2>0, <2>1, <2>2, <2>3, <2>4, <2>5 DEF Turns, OwnOK, ChildOK, CallStill, DocsStill
      <3>4. RecordedOK(p, proc[p], child[p])'
        BY <1>1, <2>0, <2>1, <2>2, <2>3, <2>4, <2>5
        DEF Turns, OwnOK, RecordedOK, Recorded, Fact, CtlStep, CtlMono, CallStill, DocsStill
      <3>5. FilesOK(p, proc[p], H(p), child[p])'
        BY <1>1, <2>0, <2>1, <2>2, <2>3, <2>4, <2>5
        DEF Turns, OwnOK, FilesOK, PreIntent, PastIntent, H, Put, CallStill, DocsStill
      <3>6. CarryOK(proc[p], H(p))'
        BY <2>0, <2>1, <2>2, <2>3, <2>4, <2>5 DEF Turns, OwnOK, CarryOK, H, Put, CallStill, DocsStill
      <3>7. EvidenceOK(proc[p])'
        BY Zenon, <2>0, <2>1, <2>2, <2>3, <2>4, <2>5
        DEF Turns, OwnOK, EvidenceOK, SettledAs, DocsOK, CtlStep, CtlMono, H, Put, CallStill, DocsStill
      <3> QED BY <3>1, <3>2, <3>3, <3>4, <3>5, <3>6, <3>7 DEF OwnOK
    <2> QED BY <2>2, <2>4, <2>5, <2>6, TurnEnds
  <1> QED BY <1>2, <1>3 DEF Begin

LEMMA WriteIntentKeeps ==
    ASSUME NativeInv, NEW p \in Procs, WriteIntent(p)
    PROVE  NativeInv'
  <1>1. /\ proc[p].pc = "intent" /\ Write(p, "intent", p) /\ Call(p, "claim", "claimed", "leave", "leave")
        /\ UNCHANGED <<ctl, child>>
    BY DEF WriteIntent, At
  <1>2. /\ proc[p].op = "execute" /\ ~proc[p].claimed /\ host[proc[p].root].lock = p /\ host[proc[p].root].intent = NoProc
        /\ host[proc[p].root].differs = {} /\ ChildMono(p)
    BY Zenon, <1>1, ChildSame DEF NativeInv, OwnOK, FlowOK, FilesOK, PreIntent, H
  <1>3. /\ Moved(p, Free) /\ DocsStill(p) /\ proc'[p].then = proc[p].then
        /\ proc'[p].pc = "claim" /\ proc'[p].ok = "claimed" /\ proc'[p].no = "leave" /\ proc'[p].lost = "leave"
    BY <1>1, CallMoves
  <1>4. HostMono(p) /\ Put(p, "intent", p)
    BY <1>1, <1>2, FilePut
  <1>5. Turns(p)
    BY <1>2, <1>3, TurningAsBefore
  <1>6. CtlStep /\ LockMono(p)
    BY <1>1, SameCtl
  <1>7. OwnOK(p)'
    <2>1. FlowOK(proc[p])'
      BY <1>2, <1>3, <1>4, <1>5, <1>6 DEF Turns, OwnOK, FlowOK, CallStill, DocsStill
    <2>2. LaunchOK(proc[p])'
      BY <1>2, <1>3, <1>4, <1>5, <1>6
      DEF Turns, OwnOK, LaunchOK, Recorded, Fact, CtlStep, CtlMono, CallStill, DocsStill
    <2>3. ChildOK(proc[p], child[p])'
      BY <1>1, <1>2, <1>3, <1>4, <1>5, <1>6 DEF Turns, OwnOK, ChildOK, CallStill, DocsStill
    <2>4. RecordedOK(p, proc[p], child[p])'
      BY <1>1, <1>2, <1>3, <1>4, <1>5, <1>6
      DEF Turns, OwnOK, RecordedOK, Recorded, Fact, CtlStep, CtlMono, CallStill, DocsStill
    <2>5. FilesOK(p, proc[p], H(p), child[p])'
      BY <1>1, <1>2, <1>3, <1>4, <1>5, <1>6
      DEF Turns, OwnOK, FilesOK, PreIntent, PastIntent, H, Put, CallStill, DocsStill
    <2>6. CarryOK(proc[p], H(p))'
      BY <1>2, <1>3, <1>4, <1>5, <1>6 DEF Turns, OwnOK, CarryOK, H, Put, CallStill, DocsStill
    <2>7. EvidenceOK(proc[p])'
      BY Zenon, <1>2, <1>3, <1>4, <1>5, <1>6
      DEF Turns, OwnOK, EvidenceOK, SettledAs, DocsOK, CtlStep, CtlMono, H, Put, CallStill, DocsStill
    <2> QED BY <2>1, <2>2, <2>3, <2>4, <2>5, <2>6, <2>7 DEF OwnOK
  <1> QED BY <1>4, <1>5, <1>6, <1>7, TurnEnds

LEMMA WriteClaimKeeps ==
    ASSUME NativeInv, NEW p \in Procs, WriteClaim(p)
    PROVE  NativeInv'
  <1>1. /\ proc[p].pc = "claimed" /\ Write(p, "claim", p) /\ Call(p, "prepare", "spawn", "leave", "leave")
        /\ UNCHANGED <<ctl, child>>
    BY DEF WriteClaim, At
  <1>2. /\ proc[p].op = "execute" /\ proc[p].claimed /\ host[proc[p].root].lock = p /\ ChildMono(p)
        /\ child[p] = NoChild
    BY Zenon, <1>1, ChildSame DEF NativeInv, OwnOK, FlowOK, FilesOK, ChildOK, H
  <1>3. /\ Moved(p, Free) /\ DocsStill(p) /\ proc'[p].then = proc[p].then
        /\ proc'[p].pc = "prepare" /\ proc'[p].ok = "spawn" /\ proc'[p].no = "leave" /\ proc'[p].lost = "leave"
    BY <1>1, CallMoves
  <1>4. HostMono(p) /\ Put(p, "claim", p)
    BY <1>1, <1>2, FilePut
  <1>5. Turns(p)
    BY <1>2, <1>3, TurningAsBefore
  <1>6. CtlStep /\ LockMono(p)
    BY Zenon, <1>1, SameCtl
  <1>7. OwnOK(p)'
    <2>1. FlowOK(proc[p])'
      BY <1>2, <1>3, <1>4, <1>5, <1>6 DEF Turns, OwnOK, FlowOK, CallStill, DocsStill
    <2>2. LaunchOK(proc[p])'
      BY <1>2, <1>3, <1>4, <1>5, <1>6
      DEF Turns, OwnOK, LaunchOK, Recorded, Fact, CtlStep, CtlMono, CallStill, DocsStill
    <2>3. ChildOK(proc[p], child[p])'
      BY <1>1, <1>2, <1>3, <1>4, <1>5, <1>6 DEF Turns, OwnOK, ChildOK, CallStill, DocsStill
    <2>4. RecordedOK(p, proc[p], child[p])'
      BY <1>1, <1>2, <1>3, <1>4, <1>5, <1>6
      DEF Turns, OwnOK, RecordedOK, Recorded, Fact, CtlStep, CtlMono, CallStill, DocsStill
    <2>5. FilesOK(p, proc[p], H(p), child[p])'
      BY <1>1, <1>2, <1>3, <1>4, <1>5, <1>6
      DEF Turns, OwnOK, FilesOK, PreIntent, PastIntent, H, Put, CallStill, DocsStill
    <2>6. CarryOK(proc[p], H(p))'
      BY <1>2, <1>3, <1>4, <1>5, <1>6 DEF Turns, OwnOK, CarryOK, H, Put, CallStill, DocsStill
    <2>7. EvidenceOK(proc[p])'
      BY Zenon, <1>2, <1>3, <1>4, <1>5, <1>6
      DEF Turns, OwnOK, EvidenceOK, SettledAs, DocsOK, CtlStep, CtlMono, H, Put, CallStill, DocsStill
    <2> QED BY <2>1, <2>2, <2>3, <2>4, <2>5, <2>6, <2>7 DEF OwnOK
  <1> QED BY <1>4, <1>5, <1>6, <1>7, TurnEnds

(* A child begins blocked on its pipe.                                     *)
LEMMA SpawnedChild ==
    ASSUME NativeInv, NEW p \in Procs, child[p] = NoChild, child' = [child EXCEPT ![p].state = "blocked"]
    PROVE  /\ ChildMono(p) /\ child'[p].state = "blocked" /\ child'[p].released = FALSE /\ child'[p].loaded = None
           /\ child[p].state = "none"
  <1>1. Rec(child, Procs) /\ Rec(child[p], ChildFields) /\ child[p].state = "none" /\ child[p].released = FALSE
        /\ child[p].loaded = None
    BY DEF NativeInv, Shaped, NoChild
  <1>2. /\ Rec(child', Procs) /\ \A q \in Procs \ {p} : child'[q] = child[q]
        /\ child'[p] = [child[p] EXCEPT !.state = "blocked"]
    BY <1>1 DEF Rec
  <1>3. /\ Rec(child'[p], ChildFields) /\ child'[p].state = "blocked" /\ child'[p].released = FALSE
        /\ child'[p].loaded = None
    BY <1>1, <1>2 DEF Rec, ChildFields
  <1> QED BY <1>1, <1>2, <1>3 DEF ChildMono, NativeInv, Shaped

LEMMA SpawnKeeps ==
    ASSUME NativeInv, NEW p \in Procs, Spawn(p)
    PROVE  NativeInv'
  <1>1. /\ proc[p].pc = "spawn" /\ Goto(p, "identity") /\ child' = [child EXCEPT ![p].state = "blocked"]
        /\ UNCHANGED <<ctl, host>>
    BY DEF Spawn, At
  <1>2. /\ proc[p].op = "execute" /\ proc[p].claimed /\ child[p] = NoChild
    BY <1>1 DEF NativeInv, OwnOK, FlowOK, ChildOK
  <1>3. ChildMono(p) /\ child'[p].state = "blocked" /\ child'[p].released = FALSE
    BY Zenon, <1>1, <1>2, SpawnedChild
  <1>4. Turns(p) /\ proc'[p].pc = "identity" /\ CallStill(p) /\ DocsStill(p) /\ proc'[p].then = proc[p].then
    BY <1>1, <1>3, GotoTurns
  <1>5. HostMono(p) /\ CtlStep /\ LockMono(p)
    BY <1>1, HostSame, SameCtl
  <1>6. OwnOK(p)'
    <2>1. FlowOK(proc[p])'
      BY <1>2, <1>3, <1>4, <1>5 DEF Turns, OwnOK, FlowOK, CallStill, DocsStill
    <2>2. LaunchOK(proc[p])'
      BY <1>2, <1>3, <1>4, <1>5 DEF Turns, OwnOK, LaunchOK, Recorded, Fact, CtlStep, CtlMono, CallStill, DocsStill
    <2>3. ChildOK(proc[p], child[p])'
      BY <1>1, <1>2, <1>3, <1>4, <1>5 DEF Turns, OwnOK, ChildOK, CallStill, DocsStill
    <2>4. RecordedOK(p, proc[p], child[p])'
      BY <1>2, <1>3, <1>4, <1>5 DEF Turns, OwnOK, RecordedOK, Recorded, Fact, CtlStep, CtlMono, CallStill, DocsStill
    <2>5. FilesOK(p, proc[p], H(p), child[p])'
      BY <1>1, <1>2, <1>3, <1>4, <1>5 DEF Turns, OwnOK, FilesOK, PreIntent, PastIntent, H, Put, CallStill, DocsStill
    <2>6. CarryOK(proc[p], H(p))'
      BY <1>1, <1>2, <1>3, <1>4, <1>5 DEF Turns, OwnOK, CarryOK, H, Put, CallStill, DocsStill
    <2>7. EvidenceOK(proc[p])'
      BY <1>2, <1>3, <1>4, <1>5
      DEF Turns, OwnOK, EvidenceOK, SettledAs, DocsOK, CtlStep, CtlMono, H, Put, CallStill, DocsStill
    <2> QED BY <2>1, <2>2, <2>3, <2>4, <2>5, <2>6, <2>7 DEF OwnOK
  <1> QED BY <1>4, <1>5, <1>6, TurnEnds

(* A launch that is given up before the release.                           *)
LEMMA LaunchAborts ==
    ASSUME NativeInv, NEW p \in Procs, proc[p].pc \in Blocked \cup {"collect"}, Moved(p, Free), DocsStill(p), CallStill(p),
           proc'[p].pc = "abort", proc'[p].then = proc[p].then, UNCHANGED <<ctl, host, child>>,
           proc[p].pc \notin Starting
    PROVE  NativeInv'
  <1>1. ChildMono(p) /\ HostMono(p)
    BY ChildSame, HostSame
  <1>2. Turns(p)
    BY <1>1, TurningAsBefore
  <1>3. CtlStep /\ LockMono(p)
    BY SameCtl
  <1>4. OwnOK(p)'
    <2>1. FlowOK(proc[p])'
      BY <1>2, <1>3 DEF Turns, OwnOK, FlowOK, CallStill, DocsStill
    <2>2. LaunchOK(proc[p])'
      BY <1>2, <1>3 DEF Turns, OwnOK, LaunchOK, Recorded, Fact, CtlStep, CtlMono, CallStill, DocsStill
    <2>3. ChildOK(proc[p], child[p])'
      BY <1>2, <1>3 DEF Turns, OwnOK, ChildOK, CallStill, DocsStill
    <2>4. RecordedOK(p, proc[p], child[p])'
      BY <1>2, <1>3 DEF Turns, OwnOK, RecordedOK, Recorded, Fact, CtlStep, CtlMono, CallStill, DocsStill
    <2>5. FilesOK(p, proc[p], H(p), child[p])'
      BY <1>2, <1>3 DEF Turns, OwnOK, FilesOK, PreIntent, PastIntent, H, Put, CallStill, DocsStill
    <2>6. CarryOK(proc[p], H(p))'
      BY <1>2, <1>3 DEF Turns, OwnOK, CarryOK, H, Put, CallStill, DocsStill
    <2>7. EvidenceOK(proc[p])'
      BY <1>2, <1>3 DEF Turns, OwnOK, EvidenceOK, SettledAs, DocsOK, CtlStep, CtlMono, H, Put, CallStill, DocsStill
    <2> QED BY <2>1, <2>2, <2>3, <2>4, <2>5, <2>6, <2>7 DEF OwnOK
  <1> QED BY <1>1, <1>2, <1>3, <1>4, TurnEnds

LEMMA GotoAborts ==
    ASSUME NativeInv, NEW p \in Procs, proc[p].pc \in Blocked \cup {"collect"}, Goto(p, "abort"),
           UNCHANGED <<ctl, host, child>>, proc[p].pc \notin Starting
    PROVE  NativeInv'
  <1>1. Moved(p, Free) /\ DocsStill(p) /\ CallStill(p) /\ proc'[p].pc = "abort" /\ proc'[p].then = proc[p].then
    BY Zenon, GotoMoves, GotoStill DEF Moved, Free, Still
  <1> QED BY <1>1, LaunchAborts

LEMMA WriteIdentityKeeps ==
    ASSUME NativeInv, NEW p \in Procs, WriteIdentity(p)
    PROVE  NativeInv'
  <1>1. proc[p].pc = "identity" /\ UNCHANGED <<ctl, child>>
    BY DEF WriteIdentity, At
  <1>2. CASE Goto(p, "abort") /\ UNCHANGED host
    BY <1>1, <1>2, GotoAborts
  <1>3. CASE Write(p, "identity", p) /\ Goto(p, "start.write")
    <2>1. /\ proc[p].op = "execute" /\ proc[p].claimed /\ child[p].state = "blocked" /\ ~child[p].released
      BY <1>1 DEF NativeInv, OwnOK, FlowOK, ChildOK
    <2>2. HostMono(p) /\ Put(p, "identity", p)
      BY <1>3, <2>1, FilePut
    <2>3. ChildMono(p)
      BY <1>1, ChildSame
    <2>4. Turns(p) /\ proc'[p].pc = "start.write" /\ CallStill(p) /\ DocsStill(p) /\ proc'[p].then = proc[p].then
      BY <1>3, <2>3, GotoTurns
    <2>5. CtlStep /\ LockMono(p)
      BY <1>1, SameCtl
    <2>6. OwnOK(p)'
      <3>1. FlowOK(proc[p])'
        BY <2>1, <2>2, <2>4, <2>5 DEF Turns, OwnOK, FlowOK, CallStill, DocsStill
      <3>2. LaunchOK(proc[p])'
        BY <2>1, <2>2, <2>4, <2>5 DEF Turns, OwnOK, LaunchOK, Recorded, Fact, CtlStep, CtlMono, CallStill, DocsStill
      <3>3. ChildOK(proc[p], child[p])'
        BY <1>1, <2>1, <2>2, <2>4, <2>5 DEF Turns, OwnOK, ChildOK, CallStill, DocsStill
      <3>4. RecordedOK(p, proc[p], child[p])'
        BY <1>1, <2>1, <2>2, <2>4, <2>5
        DEF Turns, OwnOK, RecordedOK, Recorded, Fact, CtlStep, CtlMono, CallStill, DocsStill
      <3>5. FilesOK(p, proc[p], H(p), child[p])'
        BY <1>1, <2>1, <2>2, <2>4, <2>5 DEF Turns, OwnOK, FilesOK, PreIntent, PastIntent, H, Put, CallStill, DocsStill
      <3>6. CarryOK(proc[p], H(p))'
        BY <2>1, <2>2, <2>4, <2>5 DEF Turns, OwnOK, CarryOK, H, Put, CallStill, DocsStill
      <3>7. EvidenceOK(proc[p])'
        BY Zenon, <2>1, <2>2, <2>4, <2>5
        DEF Turns, OwnOK, EvidenceOK, SettledAs, DocsOK, CtlStep, CtlMono, H, Put, CallStill, DocsStill
      <3> QED BY <3>1, <3>2, <3>3, <3>4, <3>5, <3>6, <3>7 DEF OwnOK
    <2> QED BY <2>2, <2>4, <2>5, <2>6, TurnEnds
  <1> QED BY <1>2, <1>3 DEF WriteIdentity

LEMMA WriteStartKeeps ==
    ASSUME NativeInv, NEW p \in Procs, WriteStart(p)
    PROVE  NativeInv'
  <1>1. proc[p].pc = "start.write" /\ UNCHANGED <<ctl, child>>
    BY DEF WriteStart, At
  <1>2. CASE Goto(p, "abort") /\ UNCHANGED host
    BY <1>1, <1>2, GotoAborts
  <1>3. CASE /\ Write(p, "start", p)
             /\ proc' = [proc EXCEPT ![p].doc = Document(p, "unknown", "unknown"),
                      ![p].pc = "start", ![p].ok = "barrier", ![p].no = "abort", ![p].lost = "abort"]
    <2>1. /\ proc[p].op = "execute" /\ proc[p].claimed /\ child[p].state = "blocked" /\ ~child[p].released
          /\ Rec(proc, Procs) /\ Rec(proc[p], ProcFields) /\ Rec(proc[p].report, DocFields) /\ DocOK(proc[p].report)
      BY <1>1 DEF NativeInv, OwnOK, FlowOK, ChildOK, Shaped, IsProc, EvidenceOK
    <2>2. HostMono(p) /\ Put(p, "start", p) /\ ChildMono(p)
      BY Zenon, <1>1, <1>3, <2>1, FilePut, ChildSame
    <2>3. PICK d : d = Document(p, "unknown", "unknown")
      OBVIOUS
    <2>4. Rec(d, DocFields) /\ DocOK(d) /\ d.start = p
      BY <2>3 DEF Document, Rec, DocFields, DocOK
    <2>5. /\ Rec(proc', Procs) /\ \A q \in Procs \ {p} : proc'[q] = proc[q]
          /\ proc'[p] = [proc[p] EXCEPT !.doc = d, !.pc = "start", !.ok = "barrier", !.no = "abort", !.lost = "abort"]
      BY Zenon, <1>3, <2>1, <2>3 DEF Rec
    <2>6. /\ Rec(proc'[p], ProcFields) /\ proc'[p].doc = d /\ proc'[p].pc = "start" /\ proc'[p].ok = "barrier"
          /\ proc'[p].no = "abort" /\ proc'[p].lost = "abort"
          /\ \A f \in ProcFields \ {"doc", "pc", "ok", "no", "lost"} : proc'[p][f] = proc[p][f]
      BY Zenon, <2>1, <2>5 DEF Rec, ProcFields
    <2>7. Moved(p, Free) /\ proc'[p].report = proc[p].report /\ proc'[p].then = proc[p].then
      BY <2>5, <2>6 DEF Moved, Free, ProcFields
    <2>8. Turns(p)
      BY <2>1, <2>2, <2>4, <2>6, <2>7, TurningDocs
    <2>9. CtlStep /\ LockMono(p)
      BY <1>1, SameCtl
    <2>10. proc'[p].doc.start = p /\ proc'[p].pc = "start" /\ proc'[p].ok = "barrier" /\ proc'[p].no = "abort" /\ proc'[p].lost = "abort"
      BY <2>4, <2>6
    <2>11. OwnOK(p)'
      <3>1. FlowOK(proc[p])'
        BY <2>1, <2>2, <2>7, <2>8, <2>9, <2>10 DEF Turns, OwnOK, FlowOK, CallStill, DocsStill
      <3>2. LaunchOK(proc[p])'
        BY <2>1, <2>2, <2>7, <2>8, <2>9, <2>10
        DEF Turns, OwnOK, LaunchOK, Recorded, Fact, CtlStep, CtlMono, CallStill, DocsStill
      <3>3. ChildOK(proc[p], child[p])'
        BY <1>1, <2>1, <2>2, <2>7, <2>8, <2>9, <2>10 DEF Turns, OwnOK, ChildOK, CallStill, DocsStill
      <3>4. RecordedOK(p, proc[p], child[p])'
        BY <1>1, <2>1, <2>2, <2>7, <2>8, <2>9, <2>10
        DEF Turns, OwnOK, RecordedOK, Recorded, Fact, CtlStep, CtlMono, CallStill, DocsStill
      <3>5. FilesOK(p, proc[p], H(p), child[p])'
        BY <1>1, <2>1, <2>2, <2>7, <2>8, <2>9, <2>10
        DEF Turns, OwnOK, FilesOK, PreIntent, PastIntent, H, Put, CallStill, DocsStill
      <3>6. CarryOK(proc[p], H(p))'
        BY <2>1, <2>2, <2>7, <2>8, <2>9, <2>10 DEF Turns, OwnOK, CarryOK, H, Put, CallStill, DocsStill
      <3>7. EvidenceOK(proc[p])'
        BY Zenon, <2>1, <2>2, <2>7, <2>8, <2>9, <2>10
        DEF Turns, OwnOK, EvidenceOK, SettledAs, DocsOK, CtlStep, CtlMono, H, Put, CallStill, DocsStill
      <3> QED BY <3>1, <3>2, <3>3, <3>4, <3>5, <3>6, <3>7 DEF OwnOK
    <2> QED BY <2>2, <2>8, <2>9, <2>11, TurnEnds
  <1> QED BY Zenon, <1>2, <1>3 DEF WriteStart
-----------------------------------------------------------------------------
(* The barrier, the release and what is collected.                         *)
LEMMA BarrierKeeps ==
    ASSUME NativeInv, NEW p \in Procs, Barrier(p)
    PROVE  NativeInv'
  <1>1. proc[p].pc = "barrier" /\ UNCHANGED <<ctl, host, child>> /\ Rec(proc, Procs) /\ Rec(proc[p], ProcFields)
    BY DEF Barrier, At, NativeInv, Shaped, IsProc
  <1>2a. PICK x \in {"abort", "fetch"} : \E b : proc' = [proc EXCEPT ![p].pc = x, ![p].cancelSeen = b]
    BY Zenon DEF Barrier
  <1>2. PICK b : proc' = [proc EXCEPT ![p].pc = x, ![p].cancelSeen = b]
    BY Zenon, <1>2a
  <1>3. /\ Rec(proc', Procs) /\ \A q \in Procs \ {p} : proc'[q] = proc[q]
        /\ proc'[p] = [proc[p] EXCEPT !.pc = x, !.cancelSeen = b]
    BY Zenon, <1>1, <1>2 DEF Rec
  <1>4. /\ Rec(proc'[p], ProcFields) /\ proc'[p].pc = x
        /\ \A f \in ProcFields \ {"pc", "cancelSeen"} : proc'[p][f] = proc[p][f]
    BY Zenon, <1>1, <1>3 DEF Rec, ProcFields
  <1>5. Moved(p, Free) /\ CallStill(p) /\ DocsStill(p) /\ proc'[p].then = proc[p].then
    BY <1>3, <1>4 DEF Moved, Free, ProcFields, CallStill, DocsStill
  <1>6. CASE x = "abort"
    BY <1>1, <1>4, <1>5, <1>6, LaunchAborts
  <1>7. CASE x = "fetch"
    <2>1. HostMono(p) /\ ChildMono(p) /\ CtlStep /\ LockMono(p)
      BY <1>1, HostSame, ChildSame, SameCtl
    <2>2. Turns(p) /\ proc'[p].pc = "fetch"
      BY <1>4, <1>5, <1>7, <2>1, TurningAsBefore
    <2>3. proc[p].pc = "barrier" /\ host' = host /\ child' = child /\ CtlStep
      BY <1>1, <2>1
    <2>4. OwnOK(p)'
      <3>1. FlowOK(proc[p])'
        BY <1>5, <2>2, <2>3 DEF Turns, OwnOK, FlowOK, CallStill, DocsStill
      <3>2. LaunchOK(proc[p])'
        BY <2>2, <2>3 DEF Turns, OwnOK, LaunchOK, Recorded, Fact, CtlStep, CtlMono, CallStill, DocsStill
      <3>3. ChildOK(proc[p], child[p])'
        BY <2>2, <2>3 DEF Turns, OwnOK, ChildOK, CallStill, DocsStill
      <3>4. RecordedOK(p, proc[p], child[p])'
        BY <2>2, <2>3, ControlAssumption
        DEF Turns, OwnOK, RecordedOK, Recorded, Fact, CtlStep, CtlMono, CallStill, DocsStill
      <3>5. FilesOK(p, proc[p], H(p), child[p])'
        BY <2>2, <2>3 DEF Turns, OwnOK, FilesOK, PreIntent, PastIntent, H, Put, CallStill, DocsStill
      <3>6. CarryOK(proc[p], H(p))'
        BY <2>2, <2>3 DEF Turns, OwnOK, CarryOK, H, Put, CallStill, DocsStill
      <3>7. EvidenceOK(proc[p])'
        BY <2>2, <2>3 DEF Turns, OwnOK, EvidenceOK, SettledAs, DocsOK, CtlStep, CtlMono, H, Put, CallStill, DocsStill
      <3> QED BY <3>1, <3>2, <3>3, <3>4, <3>5, <3>6, <3>7 DEF OwnOK
    <2> QED BY <2>1, <2>2, <2>4, TurnEnds
  <1> QED BY <1>2, <1>6, <1>7

LEMMA BarrierFetchKeeps ==
    ASSUME NativeInv, NEW p \in Procs, BarrierFetch(p)
    PROVE  NativeInv'
  <1>1. proc[p].pc = "fetch" /\ UNCHANGED <<ctl, host, child>> /\ Rec(proc, Procs) /\ Rec(proc[p], ProcFields)
    BY DEF BarrierFetch, At, NativeInv, Shaped, IsProc
  <1>2. CASE Goto(p, "release")
    <2>1. Glides(p, "release")
      BY <1>1, <1>2, GotoGlides
    <2>2. CtlStep /\ LockMono(p)
      BY <1>1, SameCtl
    <2>3. OwnOK(p)'
      BY <1>1, <2>1, <2>2
      DEF Glides, OwnOK, FlowOK, LaunchOK, ChildOK, FilesOK, RecordedOK, CarryOK, EvidenceOK, DocsOK, PreIntent,
          PastIntent, Recorded, Fact, CtlStep, CtlMono, Still, CallStill, DocsStill, SettledAs
    <2> QED BY <2>1, <2>2, <2>3, Lands
  <1>3. CASE proc' = [proc EXCEPT ![p].pc = "abort", ![p].authorityLost = TRUE]
    <2>1. /\ Rec(proc', Procs) /\ \A q \in Procs \ {p} : proc'[q] = proc[q]
          /\ proc'[p] = [proc[p] EXCEPT !.pc = "abort", !.authorityLost = TRUE]
      BY Zenon, <1>1, <1>3 DEF Rec
    <2>2. /\ Rec(proc'[p], ProcFields) /\ proc'[p].pc = "abort"
          /\ \A f \in ProcFields \ {"pc", "authorityLost"} : proc'[p][f] = proc[p][f]
      BY Zenon, <1>1, <2>1 DEF Rec, ProcFields
    <2>3. Moved(p, Free) /\ CallStill(p) /\ DocsStill(p) /\ proc'[p].then = proc[p].then
      BY <2>1, <2>2 DEF Moved, Free, ProcFields, CallStill, DocsStill
    <2> QED BY <1>1, <2>2, <2>3, LaunchAborts
  <1>4. CASE Goto(p, "abort")
    BY <1>1, <1>4, GotoAborts
  <1> QED BY <1>2, <1>3, <1>4 DEF BarrierFetch

(* What the child loads at its release.                                    *)
LEMMA ReleasedChild ==
    ASSUME NativeInv, NEW p \in Procs, child[p].state = "blocked", ~child[p].released,
           child' = [child EXCEPT ![p] = Loaded(child[p], H(p).workspace)]
    PROVE  /\ ChildMono(p) /\ child'[p].state \in {"user", "exited"} /\ child'[p].released \in BOOLEAN
           /\ child'[p].released \/ child'[p].code = 70
           /\ child'[p].released => child'[p].loaded = AllGood
           /\ child'[p].state = "user" => child'[p].released
  <1>1. Rec(child, Procs) /\ Rec(child[p], ChildFields)
    BY DEF NativeInv, Shaped
  <1>2. PICK w : w = H(p).workspace
    OBVIOUS
  <1>3. /\ Rec(child', Procs) /\ \A q \in Procs \ {p} : child'[q] = child[q]
        /\ child'[p] = Loaded(child[p], w)
    BY <1>1, <1>2 DEF Rec
  <1>4. ChildOK(proc[p], child[p])
    BY DEF NativeInv, OwnOK
  <1>5. CASE w.files = AllGood
    <2>1. child'[p] = [child[p] EXCEPT !.state = "user", !.released = TRUE, !.loaded = AllGood]
      BY <1>3, <1>5 DEF Loaded
    <2>2. /\ Rec(child'[p], ChildFields) /\ child'[p].state = "user" /\ child'[p].released = TRUE
          /\ child'[p].loaded = AllGood
      BY Zenon, <1>1, <2>1 DEF Rec, ChildFields
    <2>3. ChildMono(p)
      BY <1>3, <2>2 DEF ChildMono, NativeInv, Shaped
    <2> QED BY Zenon, <2>2, <2>3
  <1>6. CASE w.files # AllGood
    <2>1. child'[p] = [child[p] EXCEPT !.state = "exited", !.code = 70]
      BY <1>3, <1>6 DEF Loaded
    <2>2. /\ Rec(child'[p], ChildFields) /\ child'[p].state = "exited" /\ child'[p].released = child[p].released
          /\ child'[p].code = 70
      BY Zenon, <1>1, <2>1 DEF Rec, ChildFields
    <2>3. ChildMono(p)
      BY <1>3, <2>2 DEF ChildMono, NativeInv, Shaped
    <2> QED BY <1>4, <2>2, <2>3 DEF ChildOK
  <1> QED BY <1>5, <1>6

LEMMA ReleaseKeeps ==
    ASSUME NativeInv, NEW p \in Procs, Release(p)
    PROVE  NativeInv'
  <1>1. /\ proc[p].pc = "release" /\ Goto(p, "collect") /\ UNCHANGED <<ctl, host>>
        /\ child' = [child EXCEPT ![p] = Loaded(child[p], H(p).workspace)]
    BY DEF Release, At
  <1>2. child[p].state = "blocked" /\ ~child[p].released /\ proc[p].op = "execute" /\ proc[p].claimed
    BY <1>1 DEF NativeInv, OwnOK, ChildOK, FlowOK
  <1>3. /\ ChildMono(p) /\ child'[p].state \in {"user", "exited"} /\ child'[p].released \in BOOLEAN
        /\ child'[p].released \/ child'[p].code = 70
        /\ child'[p].released => child'[p].loaded = AllGood
        /\ child'[p].state = "user" => child'[p].released
    BY Zenon, <1>1, <1>2, ReleasedChild
  <1>4. Turns(p) /\ proc'[p].pc = "collect" /\ CallStill(p) /\ DocsStill(p) /\ proc'[p].then = proc[p].then
    BY <1>1, <1>3, GotoTurns
  <1>5. HostMono(p) /\ CtlStep /\ LockMono(p)
    BY <1>1, HostSame, SameCtl
  <1>6. proc[p].pc = "release" /\ host' = host
    BY <1>1
  <1>7. OwnOK(p)'
    <2>1. FlowOK(proc[p])'
      BY <1>3, <1>4, <1>5, <1>6 DEF Turns, OwnOK, FlowOK, CallStill, DocsStill
    <2>2. LaunchOK(proc[p])'
      BY <1>3, <1>4, <1>5, <1>6 DEF Turns, OwnOK, LaunchOK, Recorded, Fact, CtlStep, CtlMono, CallStill, DocsStill
    <2>3. ChildOK(proc[p], child[p])'
      BY <1>2, <1>3, <1>4, <1>5, <1>6 DEF Turns, OwnOK, ChildOK, CallStill, DocsStill
    <2>4. RecordedOK(p, proc[p], child[p])'
      BY <1>2, <1>3, <1>4, <1>5, <1>6, ControlAssumption
      DEF Turns, OwnOK, RecordedOK, Recorded, Fact, CtlStep, CtlMono, CallStill, DocsStill
    <2>5. FilesOK(p, proc[p], H(p), child[p])'
      BY <1>3, <1>4, <1>5, <1>6 DEF Turns, OwnOK, FilesOK, PreIntent, PastIntent, H, Put, CallStill, DocsStill
    <2>6. CarryOK(proc[p], H(p))'
      BY <1>3, <1>4, <1>5, <1>6 DEF Turns, OwnOK, CarryOK, H, Put, CallStill, DocsStill
    <2>7. EvidenceOK(proc[p])'
      BY <1>3, <1>4, <1>5, <1>6
      DEF Turns, OwnOK, EvidenceOK, SettledAs, DocsOK, CtlStep, CtlMono, H, Put, CallStill, DocsStill
    <2> QED BY <2>1, <2>2, <2>3, <2>4, <2>5, <2>6, <2>7 DEF OwnOK
  <1> QED BY <1>4, <1>5, <1>7, TurnEnds

LEMMA MonitorKeeps ==
    ASSUME NativeInv, NEW p \in Procs, Monitor(p)
    PROVE  NativeInv'
  <1>1. proc[p].pc = "collect" /\ UNCHANGED <<ctl, host, child>> /\ Rec(proc, Procs) /\ Rec(proc[p], ProcFields)
    BY DEF Monitor, At, NativeInv, Shaped, IsProc
  <1>2. PICK f \in {"cancelSeen", "authorityLost"} : proc' = [proc EXCEPT ![p][f] = TRUE]
    BY DEF Monitor
  <1>3. /\ Rec(proc', Procs) /\ \A q \in Procs \ {p} : proc'[q] = proc[q]
        /\ proc'[p] = [proc[p] EXCEPT ![f] = TRUE]
    BY Zenon, <1>1, <1>2 DEF Rec
  <1>4. Rec(proc'[p], ProcFields) /\ \A g \in ProcFields \ {"cancelSeen", "authorityLost"} : proc'[p][g] = proc[p][g]
    BY Zenon, <1>1, <1>2, <1>3 DEF Rec
  <1>5. Moved(p, Free) /\ CallStill(p) /\ DocsStill(p) /\ proc'[p].then = proc[p].then /\ proc'[p].pc = "collect"
    BY Zenon, <1>1, <1>3, <1>4 DEF Moved, Free, ProcFields, CallStill, DocsStill
  <1>6. HostMono(p) /\ ChildMono(p) /\ CtlStep /\ LockMono(p)
    BY <1>1, HostSame, ChildSame, SameCtl
  <1>7. Turns(p)
    BY <1>5, <1>6, TurningAsBefore
  <1>8. proc[p].pc = "collect" /\ host' = host /\ child' = child /\ CtlStep
    BY <1>1, <1>6
  <1>9. OwnOK(p)'
    <2>1. FlowOK(proc[p])'
      BY <1>5, <1>7, <1>8 DEF Turns, OwnOK, FlowOK, CallStill, DocsStill
    <2>2. LaunchOK(proc[p])'
      BY <1>5, <1>7, <1>8 DEF Turns, OwnOK, LaunchOK, Recorded, Fact, CtlStep, CtlMono, CallStill, DocsStill
    <2>3. ChildOK(proc[p], child[p])'
      BY <1>5, <1>7, <1>8 DEF Turns, OwnOK, ChildOK, CallStill, DocsStill
    <2>4. RecordedOK(p, proc[p], child[p])'
      BY <1>5, <1>7, <1>8, ControlAssumption
      DEF Turns, OwnOK, RecordedOK, Recorded, Fact, CtlStep, CtlMono, CallStill, DocsStill
    <2>5. FilesOK(p, proc[p], H(p), child[p])'
      BY <1>5, <1>7, <1>8 DEF Turns, OwnOK, FilesOK, PreIntent, PastIntent, H, Put, CallStill, DocsStill
    <2>6. CarryOK(proc[p], H(p))'
      BY <1>5, <1>7, <1>8 DEF Turns, OwnOK, CarryOK, H, Put, CallStill, DocsStill
    <2>7. EvidenceOK(proc[p])'
      BY <1>5, <1>7, <1>8
      DEF Turns, OwnOK, EvidenceOK, SettledAs, DocsOK, CtlStep, CtlMono, H, Put, CallStill, DocsStill
    <2> QED BY <2>1, <2>2, <2>3, <2>4, <2>5, <2>6, <2>7 DEF OwnOK
  <1> QED BY <1>6, <1>7, <1>9, TurnEnds

(* The counter moves with a new document.                                  *)
GotoWith(p, x, d) == proc' = [proc EXCEPT ![p].doc = d, ![p].pc = x]

LEMMA DocMoves ==
    ASSUME NativeInv, NEW p \in Procs, NEW x, NEW d, GotoWith(p, x, d)
    PROVE  /\ Moved(p, Free) /\ CallStill(p) /\ proc'[p].then = proc[p].then
           /\ proc'[p].pc = x /\ proc'[p].doc = d /\ proc'[p].report = proc[p].report
  <1>1. Rec(proc, Procs) /\ Rec(proc[p], ProcFields)
    BY DEF NativeInv, Shaped, IsProc
  <1>2. /\ Rec(proc', Procs) /\ \A q \in Procs \ {p} : proc'[q] = proc[q]
        /\ proc'[p] = [proc[p] EXCEPT !.doc = d, !.pc = x]
    BY <1>1 DEF GotoWith, Rec
  <1>3. /\ Rec(proc'[p], ProcFields) /\ proc'[p].pc = x /\ proc'[p].doc = d
        /\ \A f \in ProcFields \ {"pc", "doc"} : proc'[p][f] = proc[p][f]
    <2>1. PICK s, t : s = proc[p] /\ t = proc'[p]
      OBVIOUS
    <2>2. Rec(s, ProcFields) /\ t = [s EXCEPT !.doc = d, !.pc = x]
      BY <1>1, <1>2, <2>1
    <2>3. /\ Rec(t, ProcFields) /\ t.pc = x /\ t.doc = d
          /\ \A f \in ProcFields \ {"pc", "doc"} : t[f] = s[f]
      BY ONLY Zenon, <2>2 DEF Rec, ProcFields
    <2> QED BY <2>1, <2>3
  <1> QED BY <1>2, <1>3 DEF Moved, Free, ProcFields, CallStill

(* A document written down at the end of a launch.                         *)
LEMMA ResultTurns ==
    ASSUME NativeInv, NEW p \in Procs, proc[p].pc \in {"collect", "abort", "result"},
           NEW x \in {"result", "outcome.write", "leave"}, NEW d,
           Moved(p, Free), CallStill(p), proc'[p].then = proc[p].then, proc'[p].pc = x, proc'[p].doc = d,
           proc'[p].report = proc[p].report, Rec(d, DocFields), DocOK(d)',
           ChildMono(p), child'[p].state # "none", child'[p].released = child[p].released,
           child'[p].loaded = child[p].loaded, child'[p].state \in {child[p].state, "exited"}, UNCHANGED <<ctl, host>>
    PROVE  NativeInv'
  <1>2. /\ Rec(proc[p].report, DocFields) /\ DocOK(proc[p].report) /\ proc[p].op = "execute" /\ proc[p].claimed
    BY DEF NativeInv, Shaped, IsProc, OwnOK, EvidenceOK, FlowOK
  <1>3. PICK r : r = proc[p].report
    OBVIOUS
  <1>4. DocOK(r)'
    <2>1. ProcMono(p)
      BY <1>2, MoveMono
    <2> QED BY <1>2, <1>3, <2>1, DocStays DEF NativeInv
  <1>5. Turns(p)
    BY <1>2, <1>3, <1>4, Turning
  <1>6. HostMono(p) /\ CtlStep /\ LockMono(p)
    BY HostSame, SameCtl
  <1>7. OwnOK(p)'
    <2>1. FlowOK(proc[p])'
      BY <1>5, <1>6 DEF Turns, OwnOK, FlowOK, CallStill, DocsStill
    <2>2. LaunchOK(proc[p])'
      BY <1>5, <1>6 DEF Turns, OwnOK, LaunchOK, Recorded, Fact, CtlStep, CtlMono, CallStill, DocsStill
    <2>3. ChildOK(proc[p], child[p])'
      BY <1>2, <1>5, <1>6 DEF Turns, OwnOK, ChildOK, CallStill, DocsStill
    <2>4. RecordedOK(p, proc[p], child[p])'
      BY <1>5, <1>6 DEF Turns, OwnOK, RecordedOK, Recorded, Fact, CtlStep, CtlMono, CallStill, DocsStill
    <2>5. FilesOK(p, proc[p], H(p), child[p])'
      BY <1>5, <1>6 DEF Turns, OwnOK, FilesOK, PreIntent, PastIntent, H, Put, CallStill, DocsStill
    <2>6. CarryOK(proc[p], H(p))'
      BY <1>5, <1>6 DEF Turns, OwnOK, CarryOK, H, Put, CallStill, DocsStill
    <2>7. EvidenceOK(proc[p])'
      BY <1>5, <1>6 DEF Turns, OwnOK, EvidenceOK, SettledAs, DocsOK, CtlStep, CtlMono, H, Put, CallStill, DocsStill
    <2> QED BY <2>1, <2>2, <2>3, <2>4, <2>5, <2>6, <2>7 DEF OwnOK
  <1> QED BY <1>5, <1>6, <1>7, TurnEnds
LEMMA CollectKeeps ==
    ASSUME NativeInv, NEW p \in Procs, Collect(p)
    PROVE  NativeInv'
  <1>1. proc[p].pc = "collect" /\ UNCHANGED <<ctl, host, child>>
    BY DEF Collect, At
  <1>2. CASE Goto(p, "abort")
    BY <1>1, <1>2, GotoAborts
  <1>3. ASSUME child[p].state \in {"lingering", "exited"}, NEW obs \in {Observed(child[p]), "unknown"},
               proc' = [proc EXCEPT ![p].doc = Document(p, obs, Phase(p, obs)), ![p].pc = "result"]
        PROVE  NativeInv'
    <2>2. PICK out : out = Phase(p, obs)
      OBVIOUS
    <2>3. PICK d : d = Document(p, obs, out)
      OBVIOUS
    <2>4. proc[p].claimed /\ (child[p].released \/ child[p].code = 70) /\ ChildMono(p)
      BY <1>1, ChildSame DEF NativeInv, OwnOK, FlowOK, ChildOK
    <2>5. obs = "exited" => child[p].state = "exited"
      BY <1>3 DEF Observed, Alive
    <2>6. /\ out \in {"unknown", "completed", "failed", "cancelled"}
          /\ out # "unknown" => obs = "exited"
          /\ out = "completed" => child[p].code = 0
      BY <2>2 DEF Phase
    <2>7. Rec(d, DocFields) /\ d.start = p /\ d.obs = obs /\ d.out = out
      BY <2>3 DEF Document, Rec, DocFields
    <2>8. DocOK(d)
      BY <2>4, <2>5, <2>6, <2>7 DEF DocOK, Exited
    <2>9. /\ Moved(p, Free) /\ CallStill(p) /\ proc'[p].then = proc[p].then
          /\ proc'[p].pc = "result" /\ proc'[p].doc = d /\ proc'[p].report = proc[p].report
      <3>1. GotoWith(p, "result", d)
        BY <1>3, <2>2, <2>3 DEF GotoWith
      <3> QED BY <3>1, DocMoves
    <2>10. DocOK(d)'
      <3>1. Rec(proc[p].report, DocFields)
        BY DEF NativeInv, Shaped, IsProc
      <3>2. ProcMono(p)
        BY <2>7, <2>9, <3>1, MoveMono
      <3> QED BY <2>4, <2>8, <3>2, DocStays DEF NativeInv
    <2> QED BY Zenon, <1>1, <1>3, <2>4, <2>7, <2>9, <2>10, ResultTurns
  <1> QED BY Zenon, <1>2, <1>3 DEF Collect

(* Stopping a child: it exits or it is left.                               *)
LEMMA StoppedFacts ==
    ASSUME NEW c, Rec(c, ChildFields), NEW seen
    PROVE  LET s == Stopped(c, seen)
           IN  /\ s = c \/ s = [c EXCEPT !.state = "exited"]
               /\ Rec(s, ChildFields) /\ s.released = c.released /\ s.loaded = c.loaded /\ s.code = c.code
               /\ s.state \in {c.state, "exited"} /\ (c.state = "none" => s = c) /\ (c.state = "exited" => s = c)
               /\ seen /\ c.state # "none" => s.state = "exited"
               /\ c.state = "blocked" => s.state = "exited"
               /\ c.state # "none" => s.state # "none"
  BY DEF Stopped, Rec, ChildFields

LEMMA StoppedChild ==
    ASSUME NativeInv, NEW p \in Procs, NEW q \in Procs, NEW seen, child' = [child EXCEPT ![q] = Stopped(child[q], seen)],
           p = q \/ proc[q].pc \notin Blocked
    PROVE  /\ ChildMono(p) /\ child'[q] = Stopped(child[q], seen) /\ \A r \in Procs \ {q} : child'[r] = child[r]
  <1>1. Rec(child, Procs) /\ \A r \in Procs : Rec(child[r], ChildFields)
    BY DEF NativeInv, Shaped
  <1>2. PICK s : s = Stopped(child[q], seen)
    OBVIOUS
  <1>3. /\ Rec(child', Procs) /\ child'[q] = s /\ \A r \in Procs \ {q} : child'[r] = child[r]
    BY <1>1, <1>2 DEF Rec
  <1>4. /\ s = child[q] \/ s = [child[q] EXCEPT !.state = "exited"]
        /\ Rec(s, ChildFields) /\ (child[q].state = "none" => s = child[q]) /\ (child[q].state = "exited" => s = child[q])
        /\ child[q].state # "none" => s.state # "none"
    BY <1>1, <1>2, StoppedFacts
  <1> QED BY <1>1, <1>2, <1>3, <1>4 DEF ChildMono

LEMMA AbortKeeps ==
    ASSUME NativeInv, NEW p \in Procs, Abort(p)
    PROVE  NativeInv'
  <1>1. proc[p].pc = "abort" /\ UNCHANGED <<ctl, host>>
    BY DEF Abort, At
  <1>2. PICK seen \in BOOLEAN :
          /\ child' = [child EXCEPT ![p] = Stopped(child[p], seen)]
          /\ proc' = [proc EXCEPT
                 ![p].doc = Document(p, IF seen THEN "exited" ELSE "unknown",
                                     IF seen /\ proc[p].cancelSeen THEN "cancelled" ELSE "unknown"),
                 ![p].pc = IF H(p).start = p THEN "result" ELSE "leave"]
    BY Zenon DEF Abort
  <1>3. PICK x \in {"result", "leave"} : x = IF H(p).start = p THEN "result" ELSE "leave"
    OBVIOUS
  <1>4. PICK d : d = Document(p, IF seen THEN "exited" ELSE "unknown",
                              IF seen /\ proc[p].cancelSeen THEN "cancelled" ELSE "unknown")
    OBVIOUS
  <1>5. /\ Rec(d, DocFields) /\ d.start = p /\ d.obs \in {"exited", "unknown"} /\ d.out \in {"unknown", "cancelled"}
        /\ d.obs = "exited" => seen
        /\ d.out # "unknown" => d.obs = "exited"
    BY <1>4 DEF Document, Rec, DocFields
  <1>6. proc[p].claimed /\ child[p].state # "none" /\ Rec(child[p], ChildFields)
    BY <1>1 DEF NativeInv, OwnOK, FlowOK, ChildOK, Shaped
  <1>7. /\ Moved(p, Free) /\ CallStill(p) /\ proc'[p].then = proc[p].then
        /\ proc'[p].pc = x /\ proc'[p].doc = d /\ proc'[p].report = proc[p].report
    <2>1. GotoWith(p, x, d)
      BY <1>2, <1>3, <1>4 DEF GotoWith
    <2> QED BY <2>1, DocMoves
  <1>8. ChildMono(p) /\ child'[p] = Stopped(child[p], seen)
    BY Zenon, <1>2, StoppedChild
  <1>9. /\ child'[p].released = child[p].released /\ child'[p].loaded = child[p].loaded
        /\ child'[p].state \in {child[p].state, "exited"} /\ child'[p].state # "none"
        /\ seen => child'[p].state = "exited"
    BY <1>6, <1>8, StoppedFacts
  <1>10. proc'[p].claimed
    BY <1>6, <1>7 DEF Moved, Free, ProcFields
  <1>11. DocOK(d)'
    BY <1>5, <1>9, <1>10 DEF DocOK, Exited
  <1> QED BY <1>1, <1>5, <1>7, <1>8, <1>9, <1>11, ResultTurns

(* Steps that report: the files that tell who launched stay.               *)
Held(p) ==
    LET h == host[proc[p].root]
        k == host'[proc[p].root]
    IN  /\ k.lock = h.lock /\ k.intent = h.intent /\ k.claim = h.claim /\ k.identity = h.identity
        /\ k.start = h.start /\ k.differs = h.differs /\ k.journal = h.journal

LEMMA ReportTurns ==
    ASSUME NativeInv, NEW p \in Procs, HostMono(p), Held(p), Turns(p), UNCHANGED ctl,
           proc[p].pc \in {"result", "outcome.write", "publish", "output.no", "report", "cancelled.write", "observe", "replay"},
           child'[p] = child[p], proc'[p].then \in {"leave", "publish"},
           NEW x, proc'[p].pc = x,
           \/ x = "outcome.write" /\ proc[p].pc = "result"
           \/ x \in {"publish", "report", "leave", "cancelled.write"}
           \/ x = "replay" /\ proc[p].op = "reconcile"
           \/ /\ x = "outcome" /\ proc'[p].ok \in {"cancelled.write", "leave"} /\ proc'[p].no \in {"report", "leave"}
              /\ proc'[p].lost = "leave"
           \/ /\ x = "output" /\ proc'[p].ok = "report" /\ proc'[p].no = "output.no" /\ proc'[p].lost = "leave"
              /\ proc'[p].doc.out = "completed"
    PROVE  NativeInv'
  <1>1. CtlStep /\ LockMono(p)
    BY SameCtl
  <1>2. proc[p].op \in {"execute", "reconcile"} /\ (proc[p].pc = "result" => proc[p].op = "execute" /\ proc[p].claimed)
    BY DEF NativeInv, OwnOK, FlowOK
  <1>3. OwnOK(p)'
    <2>1. FlowOK(proc[p])'
      BY <1>2 DEF Turns, OwnOK, FlowOK, CallStill, DocsStill, Held
    <2>2. LaunchOK(proc[p])'
      BY <1>2 DEF Turns, OwnOK, LaunchOK, Recorded, Fact, CtlStep, CtlMono, CallStill, DocsStill, Held
    <2>3. ChildOK(proc[p], child[p])'
      BY <1>2 DEF Turns, OwnOK, ChildOK, CallStill, DocsStill, Held
    <2>4. RecordedOK(p, proc[p], child[p])'
      BY <1>2 DEF Turns, OwnOK, RecordedOK, Recorded, Fact, CtlStep, CtlMono, CallStill, DocsStill, Held
    <2>5. FilesOK(p, proc[p], H(p), child[p])'
      BY <1>2 DEF Turns, OwnOK, FilesOK, PreIntent, PastIntent, H, Put, CallStill, DocsStill, Held
    <2>6. CarryOK(proc[p], H(p))'
      BY <1>2 DEF Turns, OwnOK, CarryOK, H, Put, CallStill, DocsStill, Held
    <2>7. EvidenceOK(proc[p])'
      BY Zenon, <1>2
      DEF Turns, OwnOK, EvidenceOK, SettledAs, DocsOK, CtlStep, CtlMono, H, Put, CallStill, DocsStill, Held
    <2> QED BY <2>1, <2>2, <2>3, <2>4, <2>5, <2>6, <2>7 DEF OwnOK
  <1> QED BY <1>1, <1>3, TurnEnds

LEMMA WriteResultKeeps ==
    ASSUME NativeInv, NEW p \in Procs, WriteResult(p)
    PROVE  NativeInv'
  <1>1. proc[p].pc = "result" /\ UNCHANGED <<ctl, child>> /\ proc[p].then \in {"leave", "publish"} /\ ChildMono(p)
    BY Zenon, ChildSame DEF WriteResult, At, NativeInv, OwnOK, FlowOK
  <1>2. CASE (Write(p, "result", p) \/ UNCHANGED host) /\ Goto(p, "outcome.write")
    <2>1. HostMono(p) /\ Held(p)
      <3>1. CASE Write(p, "result", p)
        BY Zenon, <3>1, FilePut DEF Put, Held
      <3>2. CASE UNCHANGED host
        BY <3>2, HostSame DEF Held
      <3> QED BY <1>2, <3>1, <3>2
    <2>2. Turns(p) /\ proc'[p].pc = "outcome.write" /\ proc'[p].then = proc[p].then
      BY <1>1, <1>2, GotoTurns
    <2> QED BY <1>1, <2>1, <2>2, ReportTurns
  <1>3. CASE /\ proc[p].doc.out = "completed" /\ UNCHANGED host
             /\ proc' = [proc EXCEPT ![p].pc = "outcome.write", ![p].doc.out = "failed"]
    <2>1. PICK d : d = [proc[p].doc EXCEPT !.out = "failed"]
      BY Zenon
    <2>2. Rec(proc[p].doc, DocFields) /\ DocOK(proc[p].doc) /\ Rec(proc, Procs) /\ Rec(proc[p], ProcFields)
          /\ Rec(proc[p].report, DocFields) /\ DocOK(proc[p].report)
      BY <1>1 DEF NativeInv, Shaped, IsProc, OwnOK, EvidenceOK, FlowOK
    <2>3. Rec(d, DocFields) /\ d.start = proc[p].doc.start /\ d.obs = proc[p].doc.obs /\ d.out = "failed"
      BY <2>1, <2>2 DEF Rec, DocFields
    <2>4. DocOK(d)
      BY <1>3, <2>2, <2>3 DEF DocOK
    <2>5. GotoWith(p, "outcome.write", d)
      BY Zenon, <1>3, <2>1, <2>2 DEF GotoWith, Rec
    <2>6. /\ Moved(p, Free) /\ proc'[p].then = proc[p].then
          /\ proc'[p].pc = "outcome.write" /\ proc'[p].doc = d /\ proc'[p].report = proc[p].report
      BY <2>5, DocMoves
    <2>7. Turns(p)
      BY <1>1, <2>2, <2>3, <2>4, <2>6, TurningDocs
    <2>8. HostMono(p) /\ Held(p)
      BY <1>3, HostSame DEF Held
    <2>9. child'[p] = child[p]
      BY <1>1
    <2> QED BY <1>1, <2>6, <2>7, <2>8, <2>9, ReportTurns
  <1> QED BY <1>2, <1>3 DEF WriteResult
LEMMA WriteOutcomeKeeps ==
    ASSUME NativeInv, NEW p \in Procs, WriteOutcome(p)
    PROVE  NativeInv'
  <1>1. /\ proc[p].pc = "outcome.write" /\ UNCHANGED <<ctl, child>> /\ proc[p].then \in {"leave", "publish"} /\ ChildMono(p)
        /\ Write(p, "outcome", proc[p].doc) /\ Goto(p, "publish") /\ proc[p].op = "execute"
    BY ChildSame DEF WriteOutcome, At, NativeInv, OwnOK, FlowOK
  <1>2. HostMono(p) /\ Put(p, "outcome", proc[p].doc)
    BY <1>1, FilePut
  <1>3. Held(p)
    BY <1>2 DEF Put, Held
  <1>4. Turns(p) /\ proc'[p].pc = "publish" /\ proc'[p].then = proc[p].then
    BY <1>1, GotoTurns
  <1> QED BY <1>1, <1>2, <1>3, <1>4, ReportTurns

LEMMA Docs ==
    ASSUME NativeInv, NEW p \in Procs
    PROVE  /\ Rec(proc[p].doc, DocFields) /\ Rec(proc[p].report, DocFields)
           /\ proc[p].op \in {"driver", "execute", "reconcile"} => DocOK(proc[p].doc) /\ DocOK(proc[p].report)
           /\ proc[p].then \in {"leave", "publish"}
           /\ proc[p].pc \in {"publish", "report", "output.no", "cancelled.write"} => proc[p].op \in {"execute", "reconcile"}
  BY DEF NativeInv, Shaped, IsProc, OwnOK, EvidenceOK, FlowOK

(* An exit may be offered as a cancellation.                               *)
LEMMA AsCancelledOK ==
    ASSUME NEW d, Rec(d, DocFields), DocOK(d), d.obs = "exited"
    PROVE  Rec(AsCancelled(d), DocFields) /\ DocOK(AsCancelled(d))
  <1>1. PICK c : c = AsCancelled(d)
    OBVIOUS
  <1>2. Rec(c, DocFields) /\ c.start = d.start /\ c.obs = d.obs /\ c.out = "cancelled"
    BY <1>1 DEF AsCancelled, Rec, DocFields
  <1>3. DocOK(c)
    BY <1>2 DEF DocOK
  <1> QED BY <1>1, <1>2, <1>3

LEMMA ReportFrame ==
    ASSUME NativeInv, NEW p \in Procs, UNCHANGED <<ctl, host, child>>
    PROVE  HostMono(p) /\ Held(p) /\ ChildMono(p) /\ child'[p] = child[p]
  BY HostSame, ChildSame DEF Held

LEMMA PublishOutcomeKeeps ==
    ASSUME NativeInv, NEW p \in Procs, PublishOutcome(p)
    PROVE  NativeInv'
  <1>1. PICK d : d = proc[p].doc
    OBVIOUS
  <1>2. proc[p].pc = "publish" /\ UNCHANGED <<ctl, host, child>>
    BY Zenon DEF PublishOutcome, At
  <1>3. HostMono(p) /\ Held(p) /\ ChildMono(p) /\ child'[p] = child[p]
    BY <1>2, ReportFrame
  <1>4. /\ Rec(d, DocFields) /\ Rec(proc[p].report, DocFields) /\ DocOK(d) /\ DocOK(proc[p].report)
        /\ proc[p].then \in {"leave", "publish"}
    BY <1>1, <1>2, Docs
  <1>5. CASE /\ d.out = "unknown" /\ d.obs = "exited"
             /\ proc' = [proc EXCEPT ![p].report = d, ![p].doc = AsCancelled(d), ![p].pc = "outcome",
                                     ![p].ok = "cancelled.write", ![p].no = "report", ![p].lost = "leave"]
    <2>1. PICK c : c = AsCancelled(d)
      OBVIOUS
    <2>2. Rec(c, DocFields) /\ DocOK(c)
      BY <1>4, <1>5, <2>1, AsCancelledOK
    <2>3. /\ Moved(p, Free)
         /\ proc'[p].report = d /\ proc'[p].doc = c /\ proc'[p].pc = "outcome" /\ proc'[p].ok = "cancelled.write" /\ proc'[p].no = "report" /\ proc'[p].lost = "leave"
         /\ proc'[p].then = proc[p].then
      <3>1. PICK s, t : s = proc[p] /\ t = proc'[p]
        OBVIOUS
      <3>2. Rec(proc, Procs) /\ Rec(proc[p], ProcFields)
        BY DEF NativeInv, Shaped, IsProc
      <3>3. /\ Rec(proc', Procs) /\ \A q \in Procs \ {p} : proc'[q] = proc[q]
            /\ proc'[p] = [proc[p] EXCEPT !.report = d, !.doc = c, !.pc = "outcome", !.ok = "cancelled.write", !.no = "report", !.lost = "leave"]
        BY Zenon, <1>5, <2>1, <3>2 DEF Rec
      <3>4. Rec(s, ProcFields) /\ t = [s EXCEPT !.report = d, !.doc = c, !.pc = "outcome", !.ok = "cancelled.write", !.no = "report", !.lost = "leave"]
        BY <3>1, <3>2, <3>3
      <3>5. /\ Rec(t, ProcFields) /\ t.report = d /\ t.doc = c /\ t.pc = "outcome" /\ t.ok = "cancelled.write" /\ t.no = "report" /\ t.lost = "leave"
            /\ \A f \in ProcFields \ {"report", "doc", "pc", "ok", "no", "lost"} : t[f] = s[f]
        BY ONLY Zenon, <3>4 DEF Rec, ProcFields
      <3> QED BY <3>1, <3>3, <3>5 DEF Moved, Free, ProcFields
    <2>4. Turns(p)
      BY <1>3, <1>4, <2>2, <2>3, TurningDocs
    <2> QED BY <1>2, <1>3, <1>4, <2>3, <2>4, ReportTurns
  <1>6. CASE d.out = "completed" /\ Goto(p, "leave")
    <2>1. Turns(p) /\ proc'[p].pc = "leave" /\ proc'[p].then = proc[p].then
      BY <1>3, <1>6, GotoTurns
    <2> QED BY <1>2, <1>3, <1>4, <2>1, ReportTurns
  <1>7. CASE /\ d.out = "completed"
             /\ proc' = [proc EXCEPT ![p].report = d, ![p].pc = "output",
                                     ![p].ok = "report", ![p].no = "output.no", ![p].lost = "leave"]
    <2>1. /\ Moved(p, Free)
         /\ proc'[p].report = d /\ proc'[p].pc = "output" /\ proc'[p].ok = "report" /\ proc'[p].no = "output.no" /\ proc'[p].lost = "leave"
         /\ proc'[p].doc = proc[p].doc /\ proc'[p].then = proc[p].then
      <3>1. PICK s, t : s = proc[p] /\ t = proc'[p]
        OBVIOUS
      <3>2. Rec(proc, Procs) /\ Rec(proc[p], ProcFields)
        BY DEF NativeInv, Shaped, IsProc
      <3>3. /\ Rec(proc', Procs) /\ \A q \in Procs \ {p} : proc'[q] = proc[q]
            /\ proc'[p] = [proc[p] EXCEPT !.report = d, !.pc = "output", !.ok = "report", !.no = "output.no", !.lost = "leave"]
        BY Zenon, <1>7, <3>2 DEF Rec
      <3>4. Rec(s, ProcFields) /\ t = [s EXCEPT !.report = d, !.pc = "output", !.ok = "report", !.no = "output.no", !.lost = "leave"]
        BY <3>1, <3>2, <3>3
      <3>5. /\ Rec(t, ProcFields) /\ t.report = d /\ t.pc = "output" /\ t.ok = "report" /\ t.no = "output.no" /\ t.lost = "leave"
            /\ \A f \in ProcFields \ {"report", "pc", "ok", "no", "lost"} : t[f] = s[f]
        BY ONLY Zenon, <3>4 DEF Rec, ProcFields
      <3> QED BY <3>1, <3>3, <3>5 DEF Moved, Free, ProcFields
    <2>2. proc'[p].doc = d /\ proc'[p].doc.out = "completed"
      BY <1>1, <1>7, <2>1
    <2>3. Turns(p)
      BY <1>3, <1>4, <2>1, <2>2, TurningDocs
    <2> QED BY <1>2, <1>3, <1>4, <2>1, <2>2, <2>3, ReportTurns
  <1>8. CASE proc' = [proc EXCEPT ![p].report = d, ![p].pc = "report"]
    <2>1. /\ Moved(p, Free)
         /\ proc'[p].report = d /\ proc'[p].pc = "report"
         /\ proc'[p].ok = proc[p].ok /\ proc'[p].no = proc[p].no /\ proc'[p].lost = proc[p].lost /\ proc'[p].doc = proc[p].doc /\ proc'[p].then = proc[p].then
      <3>1. PICK s, t : s = proc[p] /\ t = proc'[p]
        OBVIOUS
      <3>2. Rec(proc, Procs) /\ Rec(proc[p], ProcFields)
        BY DEF NativeInv, Shaped, IsProc
      <3>3. /\ Rec(proc', Procs) /\ \A q \in Procs \ {p} : proc'[q] = proc[q]
            /\ proc'[p] = [proc[p] EXCEPT !.report = d, !.pc = "report"]
        BY <1>8, <3>2 DEF Rec
      <3>4. Rec(s, ProcFields) /\ t = [s EXCEPT !.report = d, !.pc = "report"]
        BY <3>1, <3>2, <3>3
      <3>5. /\ Rec(t, ProcFields) /\ t.report = d /\ t.pc = "report"
            /\ \A f \in ProcFields \ {"report", "pc"} : t[f] = s[f]
        BY ONLY Zenon, <3>4 DEF Rec, ProcFields
      <3> QED BY <3>1, <3>3, <3>5 DEF Moved, Free, ProcFields
    <2>2. Turns(p)
      BY <1>1, <1>3, <1>4, <2>1, TurningDocs
    <2> QED BY <1>2, <1>3, <1>4, <2>1, <2>2, ReportTurns
  <1> QED BY Zenon, <1>1, <1>5, <1>6, <1>7, <1>8 DEF PublishOutcome

LEMMA OutputRefusedKeeps ==
    ASSUME NativeInv, NEW p \in Procs, OutputRefused(p)
    PROVE  NativeInv'
  <1>1. proc[p].pc = "output.no" /\ UNCHANGED <<ctl, host, child>>
    BY DEF OutputRefused, At
  <1>2. HostMono(p) /\ Held(p) /\ ChildMono(p) /\ child'[p] = child[p]
    BY <1>1, ReportFrame
  <1>3. /\ Rec(proc[p].doc, DocFields) /\ Rec(proc[p].report, DocFields) /\ DocOK(proc[p].doc) /\ DocOK(proc[p].report)
        /\ proc[p].then \in {"leave", "publish"}
    BY <1>1, Docs
  <1>4. proc[p].doc.obs = "exited"
    BY Zenon, <1>1, <1>3 DEF NativeInv, OwnOK, EvidenceOK, DocOK
  <1>5. PICK c : c = AsCancelled(proc[p].doc)
    OBVIOUS
  <1>6. Rec(c, DocFields) /\ DocOK(c)
    BY <1>3, <1>4, <1>5, AsCancelledOK
  <1>7. proc' = [proc EXCEPT ![p].doc = c, ![p].pc = "outcome",
                             ![p].ok = "cancelled.write", ![p].no = "leave", ![p].lost = "leave"]
    BY <1>5 DEF OutputRefused
  <1>8. /\ Moved(p, Free)
       /\ proc'[p].doc = c /\ proc'[p].pc = "outcome" /\ proc'[p].ok = "cancelled.write" /\ proc'[p].no = "leave" /\ proc'[p].lost = "leave"
       /\ proc'[p].report = proc[p].report /\ proc'[p].then = proc[p].then
    <2>1. PICK s, t : s = proc[p] /\ t = proc'[p]
      OBVIOUS
    <2>2. Rec(proc, Procs) /\ Rec(proc[p], ProcFields)
      BY DEF NativeInv, Shaped, IsProc
    <2>3. /\ Rec(proc', Procs) /\ \A q \in Procs \ {p} : proc'[q] = proc[q]
          /\ proc'[p] = [proc[p] EXCEPT !.doc = c, !.pc = "outcome", !.ok = "cancelled.write", !.no = "leave", !.lost = "leave"]
      BY Zenon, <1>7, <2>2 DEF Rec
    <2>4. Rec(s, ProcFields) /\ t = [s EXCEPT !.doc = c, !.pc = "outcome", !.ok = "cancelled.write", !.no = "leave", !.lost = "leave"]
      BY <2>1, <2>2, <2>3
    <2>5. /\ Rec(t, ProcFields) /\ t.doc = c /\ t.pc = "outcome" /\ t.ok = "cancelled.write" /\ t.no = "leave" /\ t.lost = "leave"
          /\ \A f \in ProcFields \ {"doc", "pc", "ok", "no", "lost"} : t[f] = s[f]
      BY ONLY Zenon, <2>4 DEF Rec, ProcFields
    <2> QED BY <2>1, <2>3, <2>5 DEF Moved, Free, ProcFields
  <1>9. Turns(p)
    BY <1>2, <1>3, <1>6, <1>8, TurningDocs
  <1> QED BY <1>1, <1>2, <1>3, <1>8, <1>9, ReportTurns

LEMMA ReportKeeps ==
    ASSUME NativeInv, NEW p \in Procs, Report(p)
    PROVE  NativeInv'
  <1>1. proc[p].pc = "report" /\ UNCHANGED <<ctl, host, child>>
    BY DEF Report, At
  <1>2. HostMono(p) /\ Held(p) /\ ChildMono(p) /\ child'[p] = child[p]
    BY <1>1, ReportFrame
  <1>3. PICK r : r = proc[p].report
    OBVIOUS
  <1>4. Rec(r, DocFields) /\ DocOK(r) /\ proc[p].then \in {"leave", "publish"}
    BY <1>1, <1>3, Docs
  <1>5. proc' = [proc EXCEPT ![p].doc = r, ![p].pc = "outcome", ![p].ok = "leave", ![p].no = "leave", ![p].lost = "leave"]
    BY <1>3 DEF Report
  <1>6. /\ Moved(p, Free)
       /\ proc'[p].doc = r /\ proc'[p].pc = "outcome" /\ proc'[p].ok = "leave" /\ proc'[p].no = "leave" /\ proc'[p].lost = "leave"
       /\ proc'[p].report = proc[p].report /\ proc'[p].then = proc[p].then
    <2>1. PICK s, t : s = proc[p] /\ t = proc'[p]
      OBVIOUS
    <2>2. Rec(proc, Procs) /\ Rec(proc[p], ProcFields)
      BY DEF NativeInv, Shaped, IsProc
    <2>3. /\ Rec(proc', Procs) /\ \A q \in Procs \ {p} : proc'[q] = proc[q]
          /\ proc'[p] = [proc[p] EXCEPT !.doc = r, !.pc = "outcome", !.ok = "leave", !.no = "leave", !.lost = "leave"]
      BY Zenon, <1>5, <2>2 DEF Rec
    <2>4. Rec(s, ProcFields) /\ t = [s EXCEPT !.doc = r, !.pc = "outcome", !.ok = "leave", !.no = "leave", !.lost = "leave"]
      BY <2>1, <2>2, <2>3
    <2>5. /\ Rec(t, ProcFields) /\ t.doc = r /\ t.pc = "outcome" /\ t.ok = "leave" /\ t.no = "leave" /\ t.lost = "leave"
          /\ \A f \in ProcFields \ {"doc", "pc", "ok", "no", "lost"} : t[f] = s[f]
      BY ONLY Zenon, <2>4 DEF Rec, ProcFields
    <2> QED BY <2>1, <2>3, <2>5 DEF Moved, Free, ProcFields
  <1>7. Turns(p)
    BY <1>2, <1>3, <1>4, <1>6, TurningDocs
  <1> QED BY <1>1, <1>2, <1>4, <1>6, <1>7, ReportTurns

LEMMA WriteCancelledKeeps ==
    ASSUME NativeInv, NEW p \in Procs, WriteCancelled(p)
    PROVE  NativeInv'
  <1>1. /\ proc[p].pc = "cancelled.write" /\ UNCHANGED <<ctl, child>> /\ ChildMono(p) /\ Goto(p, proc[p].then)
        /\ proc[p].then \in {"leave", "publish"} /\ proc[p].op \in {"execute", "reconcile"}
    BY ChildSame, Docs DEF WriteCancelled, At
  <1>2. PICK v : Write(p, "cancelled", v) /\ v \in {host[proc[p].root].cancelled, proc[p].doc}
    BY Zenon DEF WriteCancelled, Write
  <1>3. HostMono(p) /\ Put(p, "cancelled", v)
    BY <1>1, <1>2, FilePut
  <1>4. Held(p)
    BY <1>3 DEF Put, Held
  <1>5. PICK x \in {"leave", "publish"} : x = proc[p].then
    BY <1>1
  <1>6. Turns(p) /\ proc'[p].pc = x /\ proc'[p].then = proc[p].then
    BY <1>1, <1>5, GotoTurns
  <1> QED BY <1>1, <1>3, <1>4, <1>5, <1>6, ReportTurns
-----------------------------------------------------------------------------
(* reconcile_remote_native and the Ray driver.                             *)
LEMMA ReconcileKeeps ==
    ASSUME NativeInv, NEW p \in Procs, Reconcile(p)
    PROVE  NativeInv'
  <1>1. proc[p].pc = "begin" /\ proc[p].op = "reconcile" /\ UNCHANGED <<ctl, child>>
    BY DEF Reconcile, At
  <1>2. CASE Goto(p, "refused") /\ UNCHANGED host
    BY <1>1, <1>2, BeginRests
  <1>3. ASSUME H(p).lock = NoProc, Write(p, "lock", p), NEW x \in {"leave", "observe"}, Goto(p, x),
               x = "observe" => H(p).identity # NoProc
        PROVE  NativeInv'
    <2>1. HostMono(p) /\ Put(p, "lock", p)
      BY <1>3, FilePut DEF H
    <2>2. ChildMono(p)
      BY <1>1, ChildSame
    <2>3. Turns(p) /\ proc'[p].pc = x /\ CallStill(p) /\ DocsStill(p) /\ proc'[p].then = proc[p].then
      BY <1>3, <2>2, GotoTurns
    <2>4. CtlStep /\ LockMono(p)
      BY <1>1, SameCtl
    <2>5. /\ ~proc[p].claimed /\ child[p] = NoChild /\ (x = "observe" => host[proc[p].root].identity # NoProc)
          /\ x \in {"leave", "observe"}
      BY <1>1, <1>3 DEF NativeInv, OwnOK, FlowOK, ChildOK, H
    <2>6. OwnOK(p)'
      <3>1. FlowOK(proc[p])'
        BY <1>1, <2>1, <2>3, <2>4, <2>5 DEF Turns, OwnOK, FlowOK, CallStill, DocsStill, NoChild
      <3>2. LaunchOK(proc[p])'
        BY <2>1, <2>3, <2>4, <2>5
        DEF Turns, OwnOK, LaunchOK, Recorded, Fact, CtlStep, CtlMono, CallStill, DocsStill, NoChild
      <3>3. ChildOK(proc[p], child[p])'
        BY <1>1, <2>1, <2>3, <2>4, <2>5 DEF Turns, OwnOK, ChildOK, CallStill, DocsStill, NoChild
      <3>4. RecordedOK(p, proc[p], child[p])'
        BY <1>1, <2>1, <2>3, <2>4, <2>5
        DEF Turns, OwnOK, RecordedOK, Recorded, Fact, CtlStep, CtlMono, CallStill, DocsStill, NoChild
      <3>5. FilesOK(p, proc[p], H(p), child[p])'
        BY <1>1, <2>1, <2>3, <2>4, <2>5
        DEF Turns, OwnOK, FilesOK, PreIntent, PastIntent, H, Put, CallStill, DocsStill, NoChild
      <3>6. CarryOK(proc[p], H(p))'
        BY <2>1, <2>3, <2>4, <2>5 DEF Turns, OwnOK, CarryOK, H, Put, CallStill, DocsStill, NoChild
      <3>7. EvidenceOK(proc[p])'
        BY Zenon, <2>1, <2>3, <2>4, <2>5
        DEF Turns, OwnOK, EvidenceOK, SettledAs, DocsOK, CtlStep, CtlMono, H, Put, CallStill, DocsStill, NoChild
      <3> QED BY <3>1, <3>2, <3>3, <3>4, <3>5, <3>6, <3>7 DEF OwnOK
    <2> QED BY <2>1, <2>3, <2>4, <2>6, TurnEnds
  <1> QED BY <1>2, <1>3 DEF Reconcile

(* The process a reconciler finds is another one, past its barrier.        *)
LEMMA FoundProcess ==
    ASSUME NativeInv, NEW p \in Procs, proc[p].pc \in {"observe", "lr", "lr.stop"},
           NEW q, q = H(p).identity, q # NoProc, proc[p].pc = "observe" \/ proc[p].op \in {"local", "localreconcile"}
    PROVE  /\ q \in Procs /\ proc[q].claimed /\ child[q].state # "none" /\ Rec(child[q], ChildFields)
           /\ child[q].state \in {"none", "blocked", "user", "lingering", "exited"}
           /\ proc[q].pc \notin Blocked
           /\ proc[p].pc = "observe" => q # p
  <1>1. proc[p].root \in Roots /\ RootOK(proc[p].root, H(p)) /\ Shaped /\ Separate
    BY DEF NativeInv, Shaped, IsProc, H
  <1>2. q \in Procs /\ proc[q].claimed /\ child[q].state # "none" /\ proc[q].root = proc[p].root
    BY <1>1 DEF RootOK
  <1>3. OwnOK(p) /\ OwnOK(q) /\ Rec(child[q], ChildFields)
    BY <1>1, <1>2 DEF NativeInv, Shaped
  <1>4. proc[p].pc = "observe" => proc[p].op = "reconcile" /\ ~proc[p].claimed /\ H(p).lock = p
    BY Zenon, <1>3 DEF OwnOK, FlowOK, FilesOK
  <1>5. proc[q].pc \in Blocked => proc[q].op = "execute" /\ H(q).lock = q
    BY Zenon, <1>3 DEF OwnOK, FlowOK, FilesOK
  <1>6. H(q) = H(p)
    BY <1>2 DEF H
  <1>7. proc[q].pc \notin Blocked
    BY <1>1, <1>2, <1>4, <1>5, <1>6 DEF Separate
  <1> QED BY Zenon, <1>2, <1>3, <1>4, <1>7 DEF OwnOK, ChildOK

LEMMA ObservedKeeps ==
    ASSUME NativeInv, NEW p \in Procs, proc[p].pc = "observe", NEW d, Rec(d, DocFields), DocOK(d)',
           Moved(p, Free), proc'[p].doc = d, proc'[p].report = proc[p].report, proc'[p].then \in {"leave", "publish"},
           proc'[p].pc \in {"replay", "cancelled.write"}, ChildMono(p), child'[p] = child[p], UNCHANGED <<ctl, host>>
    PROVE  NativeInv'
  <1>1. PICK r : r = proc[p].report
    OBVIOUS
  <1>2. proc[p].op = "reconcile" /\ Rec(r, DocFields) /\ DocOK(r)
    <2>1. proc[p].op = "reconcile"
      BY DEF NativeInv, OwnOK, FlowOK
    <2> QED BY <1>1, <2>1, Docs
  <1>3. ProcMono(p)
    BY <1>1, <1>2, MoveMono
  <1>4. DocOK(r)'
    BY <1>2, <1>3, DocStays DEF NativeInv
  <1>5. Turns(p)
    BY <1>1, <1>2, <1>4, Turning
  <1>6. HostMono(p) /\ Held(p)
    BY HostSame DEF Held
  <1> QED BY <1>2, <1>5, <1>6, ReportTurns

LEMMA ReconcileObserveKeeps ==
    ASSUME NativeInv, NEW p \in Procs, ReconcileObserve(p)
    PROVE  NativeInv'
  <1>1. PICK q : q = H(p).identity
    OBVIOUS
  <1>2. proc[p].pc = "observe" /\ UNCHANGED <<ctl, host>>
    BY DEF ReconcileObserve, At
  <1>3. q # NoProc /\ proc[p].then \in {"leave", "publish"}
    BY <1>1, <1>2 DEF NativeInv, OwnOK, FilesOK, FlowOK
  <1>4. /\ q \in Procs /\ proc[q].claimed /\ child[q].state # "none" /\ Rec(child[q], ChildFields)
        /\ child[q].state \in {"none", "blocked", "user", "lingering", "exited"}
        /\ proc[q].pc \notin Blocked /\ q # p
    BY <1>1, <1>2, <1>3, FoundProcess
  <1>5. ASSUME NEW obs, NEW out PROVE
            LET d == Document(q, obs, out) IN Rec(d, DocFields) /\ d.start = q /\ d.obs = obs /\ d.out = out
    BY DEF Document, Rec, DocFields
  <1>6. ASSUME NEW seen \in BOOLEAN, child' = [child EXCEPT ![q] = Stopped(child[q], seen)]
        PROVE  ChildMono(p) /\ child'[p] = child[p] /\ (seen => child'[q].state = "exited")
    <2>1. /\ ChildMono(p) /\ child'[q] = Stopped(child[q], seen) /\ \A r \in Procs \ {q} : child'[r] = child[r]
      BY Zenon, <1>4, <1>6, StoppedChild
    <2> QED BY <1>4, <2>1, StoppedFacts
  <1>7. CASE \E seen \in BOOLEAN :
               /\ child' = [child EXCEPT ![q] = Stopped(child[q], seen)]
               /\ proc' = IF seen
                          THEN [proc EXCEPT ![p].pc = "cancelled.write", ![p].then = "publish",
                                            ![p].doc = Document(q, "exited", "cancelled")]
                          ELSE [proc EXCEPT ![p].pc = "replay", ![p].doc = Document(q, "unknown", "unknown")]
    <2>1. PICK seen \in BOOLEAN :
               /\ child' = [child EXCEPT ![q] = Stopped(child[q], seen)]
               /\ proc' = IF seen
                          THEN [proc EXCEPT ![p].pc = "cancelled.write", ![p].then = "publish",
                                            ![p].doc = Document(q, "exited", "cancelled")]
                          ELSE [proc EXCEPT ![p].pc = "replay", ![p].doc = Document(q, "unknown", "unknown")]
      BY Zenon, <1>7
    <2>2. ChildMono(p) /\ child'[p] = child[p] /\ (seen => child'[q].state = "exited")
      BY Zenon, <1>6, <2>1
    <2>3. CASE seen
      <3>1. PICK d : d = Document(q, "exited", "cancelled")
        OBVIOUS
      <3>2. proc' = [proc EXCEPT ![p].pc = "cancelled.write", ![p].then = "publish", ![p].doc = d]
        BY <2>1, <2>3, <3>1
      <3>3. /\ Moved(p, Free)
           /\ proc'[p].pc = "cancelled.write" /\ proc'[p].then = "publish" /\ proc'[p].doc = d
           /\ proc'[p].ok = proc[p].ok /\ proc'[p].no = proc[p].no /\ proc'[p].lost = proc[p].lost /\ proc'[p].report = proc[p].report
        <4>1. PICK s, t : s = proc[p] /\ t = proc'[p]
          OBVIOUS
        <4>2. Rec(proc, Procs) /\ Rec(proc[p], ProcFields)
          BY DEF NativeInv, Shaped, IsProc
        <4>3. /\ Rec(proc', Procs) /\ \A m \in Procs \ {p} : proc'[m] = proc[m]
              /\ proc'[p] = [proc[p] EXCEPT !.pc = "cancelled.write", !.then = "publish", !.doc = d]
          BY Zenon, <3>2, <4>2 DEF Rec
        <4>4. Rec(s, ProcFields) /\ t = [s EXCEPT !.pc = "cancelled.write", !.then = "publish", !.doc = d]
          BY <4>1, <4>2, <4>3
        <4>5. /\ Rec(t, ProcFields) /\ t.pc = "cancelled.write" /\ t.then = "publish" /\ t.doc = d
              /\ \A f \in ProcFields \ {"pc", "then", "doc"} : t[f] = s[f]
          BY ONLY Zenon, <4>4 DEF Rec, ProcFields
        <4> QED BY <4>1, <4>3, <4>5 DEF Moved, Free, ProcFields
      <3>4. Rec(d, DocFields) /\ d.start = q /\ d.obs = "exited" /\ d.out = "cancelled"
        BY <1>5, <3>1
      <3>5. proc'[q] = proc[q]
        BY <1>4, <3>3 DEF Moved
      <3>6. DocOK(d)'
        BY <1>4, <2>2, <2>3, <3>4, <3>5 DEF DocOK, Exited
      <3> QED BY <1>2, <2>2, <3>3, <3>4, <3>6, ObservedKeeps
    <2>4. CASE ~seen
      <3>1. PICK d : d = Document(q, "unknown", "unknown")
        OBVIOUS
      <3>2. proc' = [proc EXCEPT ![p].pc = "replay", ![p].doc = d]
        BY <2>1, <2>4, <3>1
      <3>3. /\ Moved(p, Free)
           /\ proc'[p].pc = "replay" /\ proc'[p].doc = d
           /\ proc'[p].ok = proc[p].ok /\ proc'[p].no = proc[p].no /\ proc'[p].lost = proc[p].lost /\ proc'[p].report = proc[p].report /\ proc'[p].then = proc[p].then
        <4>1. PICK s, t : s = proc[p] /\ t = proc'[p]
          OBVIOUS
        <4>2. Rec(proc, Procs) /\ Rec(proc[p], ProcFields)
          BY DEF NativeInv, Shaped, IsProc
        <4>3. /\ Rec(proc', Procs) /\ \A m \in Procs \ {p} : proc'[m] = proc[m]
              /\ proc'[p] = [proc[p] EXCEPT !.pc = "replay", !.doc = d]
          BY <3>2, <4>2 DEF Rec
        <4>4. Rec(s, ProcFields) /\ t = [s EXCEPT !.pc = "replay", !.doc = d]
          BY <4>1, <4>2, <4>3
        <4>5. /\ Rec(t, ProcFields) /\ t.pc = "replay" /\ t.doc = d
              /\ \A f \in ProcFields \ {"pc", "doc"} : t[f] = s[f]
          BY ONLY Zenon, <4>4 DEF Rec, ProcFields
        <4> QED BY <4>1, <4>3, <4>5 DEF Moved, Free, ProcFields
      <3>4. Rec(d, DocFields) /\ d.start = q /\ d.obs = "unknown" /\ d.out = "unknown"
        BY <1>5, <3>1
      <3>6. DocOK(d)'
        BY <3>4 DEF DocOK
      <3> QED BY <1>2, <1>3, <2>2, <3>3, <3>4, <3>6, ObservedKeeps
    <2> QED BY <2>3, <2>4
  <1>8. CASE /\ proc' = [proc EXCEPT ![p].pc = "replay", ![p].doc = Document(q, Observed(child[q]), "unknown")]
             /\ UNCHANGED child
    <2>1. PICK o : o = Observed(child[q])
      OBVIOUS
    <2>2. PICK d : d = Document(q, o, "unknown")
      OBVIOUS
    <2>3. proc' = [proc EXCEPT ![p].pc = "replay", ![p].doc = d]
      BY <1>8, <2>1, <2>2
    <2>4. /\ Moved(p, Free)
         /\ proc'[p].pc = "replay" /\ proc'[p].doc = d
         /\ proc'[p].ok = proc[p].ok /\ proc'[p].no = proc[p].no /\ proc'[p].lost = proc[p].lost /\ proc'[p].report = proc[p].report /\ proc'[p].then = proc[p].then
      <3>1. PICK s, t : s = proc[p] /\ t = proc'[p]
        OBVIOUS
      <3>2. Rec(proc, Procs) /\ Rec(proc[p], ProcFields)
        BY DEF NativeInv, Shaped, IsProc
      <3>3. /\ Rec(proc', Procs) /\ \A m \in Procs \ {p} : proc'[m] = proc[m]
            /\ proc'[p] = [proc[p] EXCEPT !.pc = "replay", !.doc = d]
        BY <2>3, <3>2 DEF Rec
      <3>4. Rec(s, ProcFields) /\ t = [s EXCEPT !.pc = "replay", !.doc = d]
        BY <3>1, <3>2, <3>3
      <3>5. /\ Rec(t, ProcFields) /\ t.pc = "replay" /\ t.doc = d
            /\ \A f \in ProcFields \ {"pc", "doc"} : t[f] = s[f]
        BY ONLY Zenon, <3>4 DEF Rec, ProcFields
      <3> QED BY <3>1, <3>3, <3>5 DEF Moved, Free, ProcFields
    <2>5. Rec(d, DocFields) /\ d.start = q /\ d.obs = o /\ d.out = "unknown"
      BY <1>5, <2>2
    <2>6. o = "exited" => child[q].state = "exited"
      BY <1>4, <2>1 DEF Observed, Alive
    <2>7. proc'[q] = proc[q] /\ ChildMono(p) /\ child'[p] = child[p] /\ child'[q] = child[q]
      BY Zenon, <1>4, <1>8, <2>4, ChildSame DEF Moved
    <2>8. DocOK(d)'
      BY <1>4, <2>5, <2>6, <2>7 DEF DocOK, Exited
    <2> QED BY <1>2, <1>3, <2>4, <2>5, <2>7, <2>8, ObservedKeeps
  <1> QED BY Zenon, <1>1, <1>7, <1>8 DEF ReconcileObserve

LEMMA ReplayKeeps ==
    ASSUME NativeInv, NEW p \in Procs, Replay(p)
    PROVE  NativeInv'
  <1>1. proc[p].pc = "replay" /\ UNCHANGED <<ctl, host, child>>
    BY DEF Replay, At
  <1>2. HostMono(p) /\ Held(p) /\ ChildMono(p) /\ child'[p] = child[p]
    BY <1>1, ReportFrame
  <1>3. proc[p].op = "reconcile"
    BY Zenon, <1>1 DEF NativeInv, OwnOK, FlowOK
  <1>4. /\ Rec(proc[p].doc, DocFields) /\ Rec(proc[p].report, DocFields) /\ DocOK(proc[p].doc) /\ DocOK(proc[p].report)
        /\ proc[p].then \in {"leave", "publish"}
    BY <1>3, Docs
  <1>5. CASE Goto(p, "leave")
    <2>1. Turns(p) /\ proc'[p].pc = "leave" /\ proc'[p].then = proc[p].then
      BY <1>2, <1>5, GotoTurns
    <2> QED BY <1>1, <1>2, <1>4, <2>1, ReportTurns
  <1>6. ASSUME NEW kept \in {H(p).cancelled, H(p).outcome}, kept # None,
               proc' = [proc EXCEPT ![p].pc = "publish", ![p].doc = kept, ![p].then = "leave"]
        PROVE  NativeInv'
    <2>1. Rec(kept, DocFields) /\ DocOK(kept)
      BY <1>6 DEF NativeInv, KeptOK, Shaped, IsProc, H
    <2>2. /\ Moved(p, Free)
         /\ proc'[p].pc = "publish" /\ proc'[p].doc = kept /\ proc'[p].then = "leave"
         /\ proc'[p].ok = proc[p].ok /\ proc'[p].no = proc[p].no /\ proc'[p].lost = proc[p].lost /\ proc'[p].report = proc[p].report
      <3>1. PICK s, t : s = proc[p] /\ t = proc'[p]
        OBVIOUS
      <3>2. Rec(proc, Procs) /\ Rec(proc[p], ProcFields)
        BY DEF NativeInv, Shaped, IsProc
      <3>3. /\ Rec(proc', Procs) /\ \A q \in Procs \ {p} : proc'[q] = proc[q]
            /\ proc'[p] = [proc[p] EXCEPT !.pc = "publish", !.doc = kept, !.then = "leave"]
        BY Zenon, <1>6, <3>2 DEF Rec
      <3>4. Rec(s, ProcFields) /\ t = [s EXCEPT !.pc = "publish", !.doc = kept, !.then = "leave"]
        BY <3>1, <3>2, <3>3
      <3>5. /\ Rec(t, ProcFields) /\ t.pc = "publish" /\ t.doc = kept /\ t.then = "leave"
            /\ \A f \in ProcFields \ {"pc", "doc", "then"} : t[f] = s[f]
        BY ONLY Zenon, <3>4 DEF Rec, ProcFields
      <3> QED BY <3>1, <3>3, <3>5 DEF Moved, Free, ProcFields
    <2>3. Turns(p)
      BY <1>2, <1>4, <2>1, <2>2, TurningDocs
    <2> QED BY <1>1, <1>2, <2>2, <2>3, ReportTurns
  <1>7. CASE proc' = [proc EXCEPT ![p].pc = "publish", ![p].then = "leave"]
    <2>1. /\ Moved(p, Free)
         /\ proc'[p].pc = "publish" /\ proc'[p].then = "leave"
         /\ proc'[p].ok = proc[p].ok /\ proc'[p].no = proc[p].no /\ proc'[p].lost = proc[p].lost /\ proc'[p].doc = proc[p].doc /\ proc'[p].report = proc[p].report
      <3>1. PICK s, t : s = proc[p] /\ t = proc'[p]
        OBVIOUS
      <3>2. Rec(proc, Procs) /\ Rec(proc[p], ProcFields)
        BY DEF NativeInv, Shaped, IsProc
      <3>3. /\ Rec(proc', Procs) /\ \A q \in Procs \ {p} : proc'[q] = proc[q]
            /\ proc'[p] = [proc[p] EXCEPT !.pc = "publish", !.then = "leave"]
        BY <1>7, <3>2 DEF Rec
      <3>4. Rec(s, ProcFields) /\ t = [s EXCEPT !.pc = "publish", !.then = "leave"]
        BY <3>1, <3>2, <3>3
      <3>5. /\ Rec(t, ProcFields) /\ t.pc = "publish" /\ t.then = "leave"
            /\ \A f \in ProcFields \ {"pc", "then"} : t[f] = s[f]
        BY ONLY Zenon, <3>4 DEF Rec, ProcFields
      <3> QED BY <3>1, <3>3, <3>5 DEF Moved, Free, ProcFields
    <2>2. Turns(p)
      BY <1>2, <2>1, TurningAsBefore DEF DocsStill
    <2> QED BY <1>1, <1>2, <2>1, <2>2, ReportTurns
  <1> QED BY <1>5, <1>6, <1>7 DEF Replay

LEMMA RayKeeps ==
    ASSUME NativeInv, NEW p \in Procs, proc[p].pc \in {"begin", "post"}, proc[p].op = "ray", NEW x \in {"post", "done"},
           Goto(p, x), UNCHANGED <<ctl, child>>, HostMono(p), Held(p)
    PROVE  NativeInv'
  <1>1. ChildMono(p)
    BY ChildSame
  <1>2. Turns(p) /\ proc'[p].pc = x /\ CallStill(p) /\ DocsStill(p) /\ proc'[p].then = proc[p].then
    BY <1>1, GotoTurns
  <1>3. CtlStep /\ LockMono(p)
    BY SameCtl
  <1>4. ~proc[p].claimed /\ child[p] = NoChild
    BY DEF NativeInv, OwnOK, FlowOK, ChildOK
  <1>5. OwnOK(p)'
    <2>1. FlowOK(proc[p])'
      BY <1>2, <1>3, <1>4 DEF Turns, OwnOK, FlowOK, CallStill, DocsStill, Held, NoChild
    <2>2. LaunchOK(proc[p])'
      BY <1>2, <1>3, <1>4
      DEF Turns, OwnOK, LaunchOK, Recorded, Fact, CtlStep, CtlMono, CallStill, DocsStill, Held, NoChild
    <2>3. ChildOK(proc[p], child[p])'
      BY <1>2, <1>3, <1>4 DEF Turns, OwnOK, ChildOK, CallStill, DocsStill, Held, NoChild
    <2>4. RecordedOK(p, proc[p], child[p])'
      BY Zenon, <1>2, <1>3, <1>4
      DEF Turns, OwnOK, RecordedOK, Recorded, Fact, CtlStep, CtlMono, CallStill, DocsStill, Held, NoChild
    <2>5. FilesOK(p, proc[p], H(p), child[p])'
      BY Zenon, <1>2, <1>3, <1>4
      DEF Turns, OwnOK, FilesOK, PreIntent, PastIntent, H, Put, CallStill, DocsStill, Held, NoChild
    <2>6. CarryOK(proc[p], H(p))'
      BY <1>2, <1>3, <1>4 DEF Turns, OwnOK, CarryOK, H, Put, CallStill, DocsStill, Held, NoChild
    <2>7. EvidenceOK(proc[p])'
      BY Zenon, <1>2, <1>3, <1>4
      DEF Turns, OwnOK, EvidenceOK, SettledAs, DocsOK, CtlStep, CtlMono, H, Put, CallStill, DocsStill, Held, NoChild
    <2> QED BY <2>1, <2>2, <2>3, <2>4, <2>5, <2>6, <2>7 DEF OwnOK
  <1> QED BY <1>2, <1>3, <1>5, TurnEnds

LEMMA RayPut ==
    ASSUME NativeInv, NEW p \in Procs, NEW v, Write(p, "ray", v) \/ UNCHANGED host
    PROVE  HostMono(p) /\ Held(p)
  <1>1. CASE Write(p, "ray", v)
    BY Zenon, <1>1, FilePut DEF Put, Held
  <1>2. CASE UNCHANGED host
    BY <1>2, HostSame DEF Held
  <1> QED BY <1>1, <1>2

LEMMA SubmitOnceKeeps ==
    ASSUME NativeInv, NEW p \in Procs, SubmitOnce(p)
    PROVE  NativeInv'
  BY RayPut, RayKeeps DEF SubmitOnce, At

LEMMA PostKeeps ==
    ASSUME NativeInv, NEW p \in Procs, Post(p)
    PROVE  NativeInv'
  <1>1. proc[p].op = "ray" /\ proc[p].pc = "post"
    BY DEF Post, At, NativeInv, OwnOK, FlowOK
  <1> QED BY <1>1, RayPut, RayKeeps DEF Post

LEMMA RunDriverKeeps ==
    ASSUME NativeInv, NEW p \in Procs, RunDriver(p)
    PROVE  NativeInv'
  <1>1. /\ proc[p].pc = "begin" /\ proc[p].op = "driver" /\ UNCHANGED <<ctl, child>> /\ Write(p, "ray", "driven")
        /\ proc' = [proc EXCEPT ![p].op = "execute"]
    BY Zenon DEF RunDriver, At, Write
  <1>2. /\ Rec(proc, Procs) /\ IsProc(proc[p]) /\ OwnOK(p) /\ ~proc[p].claimed /\ child[p] = NoChild /\ ~(proc[p].row > 1)
        /\ proc[p].root \in Roots
    BY <1>1 DEF NativeInv, Shaped, OwnOK, FlowOK, ChildOK, IsProc
  <1>3. HostMono(p) /\ Held(p) /\ ChildMono(p)
    BY <1>1, RayPut, ChildSame
  <1>4. /\ Rec(proc', Procs) /\ \A q \in Procs \ {p} : proc'[q] = proc[q]
        /\ proc'[p] = [proc[p] EXCEPT !.op = "execute"]
    BY Zenon, <1>1, <1>2 DEF Rec
  <1>5. PICK s, t : s = proc[p] /\ t = proc'[p]
    OBVIOUS
  <1>6. Rec(s, ProcFields) /\ t = [s EXCEPT !.op = "execute"]
    BY <1>2, <1>4, <1>5 DEF IsProc
  <1>7. Rec(t, ProcFields) /\ t.op = "execute" /\ \A f \in ProcFields \ {"op"} : t[f] = s[f]
    BY ONLY Zenon, <1>6 DEF Rec, ProcFields
  <1>8. /\ CallStill(p) /\ DocsStill(p) /\ proc'[p].then = proc[p].then /\ proc'[p].pc = "begin" /\ proc'[p].op = "execute"
        /\ proc'[p].root = proc[p].root /\ proc'[p].lease = proc[p].lease /\ proc'[p].fresh = proc[p].fresh
        /\ proc'[p].claimed = proc[p].claimed /\ proc'[p].carried = proc[p].carried /\ proc'[p].row = proc[p].row
        /\ proc'[p].j = proc[p].j /\ Rec(proc'[p], ProcFields)
    BY <1>1, <1>5, <1>7 DEF ProcFields, CallStill, DocsStill
  <1>9. ProcMono(p)
    BY <1>1, <1>2, <1>4, <1>8 DEF ProcMono, IsProc, DocsStill, Contender
  <1>10. DocsOK(p)'
    <2>1. \A d : DocOK(d) => DocOK(d)'
      BY <1>3, <1>9, DocStays DEF NativeInv
    <2> QED BY <1>1, <1>2, <1>8, <2>1 DEF OwnOK, EvidenceOK, DocsOK, DocOK, Exited, DocsStill
  <1>11. CtlStep /\ LockMono(p) /\ H(p)' = host'[proc[p].root] /\ child' = child /\ proc[p].pc = "begin" /\ proc[p].op = "driver"
    BY <1>1, <1>8, SameCtl DEF H
  <1>12. OwnOK(p)'
    <2>1. FlowOK(proc[p])'
      BY <1>2, <1>3, <1>8, <1>10, <1>11 DEF Turns, OwnOK, FlowOK, CallStill, DocsStill, Held, NoChild, Ops
    <2>2. LaunchOK(proc[p])'
      BY Zenon, <1>2, <1>3, <1>8, <1>10, <1>11
      DEF Turns, OwnOK, LaunchOK, Recorded, Fact, CtlStep, CtlMono, CallStill, DocsStill, Held, NoChild, Ops
    <2>3. ChildOK(proc[p], child[p])'
      BY Zenon, <1>2, <1>3, <1>8, <1>10, <1>11 DEF Turns, OwnOK, ChildOK, CallStill, DocsStill, Held, NoChild, Ops
    <2>4. RecordedOK(p, proc[p], child[p])'
      BY <1>2, <1>3, <1>8, <1>10, <1>11
      DEF Turns, OwnOK, RecordedOK, Recorded, Fact, CtlStep, CtlMono, CallStill, DocsStill, Held, NoChild, Ops
    <2>5. FilesOK(p, proc[p], H(p), child[p])'
      BY <1>2, <1>3, <1>8, <1>10, <1>11
      DEF Turns, OwnOK, FilesOK, PreIntent, PastIntent, H, Put, CallStill, DocsStill, Held, NoChild, Ops
    <2>6. CarryOK(proc[p], H(p))'
      BY <1>2, <1>3, <1>8, <1>10, <1>11 DEF Turns, OwnOK, CarryOK, H, Put, CallStill, DocsStill, Held, NoChild, Ops
    <2>7. EvidenceOK(proc[p])'
      BY Zenon, <1>3, <1>8, <1>10, <1>11
      DEF Turns, OwnOK, EvidenceOK, SettledAs, DocsOK, CtlStep, CtlMono, H, Put, CallStill, DocsStill, Held, NoChild,
          Ops
    <2> QED BY <2>1, <2>2, <2>3, <2>4, <2>5, <2>6, <2>7 DEF OwnOK
  <1> QED BY <1>3, <1>9, <1>11, <1>12, StepOK

LEMMA RemoteStepKeeps ==
    ASSUME NativeInv, NEW p \in Procs, RemoteStep(p)
    PROVE  NativeInv'
  BY BeginKeeps, WriteIntentKeeps, WriteClaimKeeps, SpawnKeeps, WriteIdentityKeeps, WriteStartKeeps, BarrierKeeps, BarrierFetchKeeps, ReleaseKeeps, MonitorKeeps, CollectKeeps, AbortKeeps, WriteResultKeeps, WriteOutcomeKeeps, PublishOutcomeKeeps, OutputRefusedKeeps, ReportKeeps, WriteCancelledKeeps, ReconcileKeeps, ReconcileObserveKeeps, ReplayKeeps, SubmitOnceKeeps, PostKeeps, RunDriverKeeps, LeaveKeeps
  DEF RemoteStep
-----------------------------------------------------------------------------
(* execute_reviewed_native.                                                *)
LocalPcs == LocalEarly \cup LocalLaunch \cup LocalLast \cup Reconciling

(* Ways out: an error, the last facts or the end.                          *)
LEMMA LocalTurns ==
    ASSUME NativeInv, NEW p \in Procs, HostMono(p), Held(p), Turns(p), CtlStep, LockMono(p), proc[p].pc \in LocalPcs,
           \/ child'[p] = child[p]
           \/ /\ child[p].state # "none" /\ child'[p].released = child[p].released /\ child'[p].loaded = child[p].loaded
              /\ child'[p].state = "exited",
           proc'[p].then = proc[p].then,
           NEW x \in {"done"} \cup LocalLast, proc'[p].pc = x, x \in LocalLast => proc[p].op = "local"
    PROVE  NativeInv'
  <1>1. proc[p].op \in {"local", "localreconcile"} /\ (child[p].state # "none" => child[p] # NoChild)
    BY DEF NativeInv, OwnOK, FlowOK, LocalPcs, NoChild
  <1>2. OwnOK(p)'
    <2>1. FlowOK(proc[p])'
      BY DEF Turns, OwnOK, FlowOK, CallStill, DocsStill, Held, LocalPcs
    <2>2. LaunchOK(proc[p])'
      BY DEF Turns, OwnOK, LaunchOK, Recorded, Fact, CtlStep, CtlMono, CallStill, DocsStill, Held, LocalPcs
    <2>3. ChildOK(proc[p], child[p])'
      BY <1>1 DEF Turns, OwnOK, ChildOK, CallStill, DocsStill, Held, LocalPcs
    <2>4. RecordedOK(p, proc[p], child[p])'
      BY <1>1 DEF Turns, OwnOK, RecordedOK, Recorded, Fact, CtlStep, CtlMono, CallStill, DocsStill, Held, LocalPcs
    <2>5. FilesOK(p, proc[p], H(p), child[p])'
      BY ControlAssumption
      DEF Turns, OwnOK, FilesOK, PreIntent, PastIntent, H, Put, CallStill, DocsStill, Held, LocalPcs
    <2>6. CarryOK(proc[p], H(p))'
      BY DEF Turns, OwnOK, CarryOK, H, Put, CallStill, DocsStill, Held, LocalPcs
    <2>7. EvidenceOK(proc[p])'
      BY Zenon
      DEF Turns, OwnOK, EvidenceOK, SettledAs, DocsOK, CtlStep, CtlMono, H, Put, CallStill, DocsStill, Held, LocalPcs
    <2> QED BY <2>1, <2>2, <2>3, <2>4, <2>5, <2>6, <2>7 DEF OwnOK
  <1> QED BY <1>2, TurnEnds

LEMMA LocalLeaves ==
    ASSUME NativeInv, NEW p \in Procs, proc[p].pc \in LocalPcs, NEW x \in {"done"} \cup LocalLast,
           Goto(p, x), x \in LocalLast => proc[p].op = "local", UNCHANGED <<ctl, host, child>>
    PROVE  NativeInv'
  <1>1. HostMono(p) /\ Held(p) /\ ChildMono(p) /\ child'[p] = child[p]
    BY ReportFrame
  <1>2. Turns(p) /\ proc'[p].pc = x /\ proc'[p].then = proc[p].then
    BY <1>1, GotoTurns
  <1>3. CtlStep /\ LockMono(p)
    BY SameCtl DEF LocalPcs
  <1> QED BY <1>1, <1>2, <1>3, LocalTurns

LEMMA LocalRecords ==
    ASSUME NativeInv, NEW p \in Procs, proc[p].pc \in LocalPcs, NEW x \in {"done"} \cup LocalLast,
           Goto(p, x), x \in LocalLast => proc[p].op = "local", UNCHANGED <<host, child>>,
           NEW type \in DraftTypes, Backed(type), CanAppend("local", type), ctl' = Appended("local", type)
    PROVE  NativeInv'
  <1>1. Glides(p, x) /\ CtlStep /\ LockMono(p)
    BY AppendGlides DEF LocalPcs
  <1>2. ChildMono(p) /\ HostMono(p) /\ child'[p] = child[p] /\ Held(p)
    BY ChildSame, HostSame DEF Held
  <1>3. Turns(p) /\ proc'[p].pc = x /\ proc'[p].then = proc[p].then
    BY <1>2, GotoTurns
  <1> QED BY <1>1, <1>2, <1>3, LocalTurns

LEMMA VerifiedAgrees ==
    ASSUME NEW d \in SUBSET Facets, Verify(d)
    PROVE  d = {}
  <1>1. Refusal(d) = "none" => IdentityAgrees(d) /\ MaterialAgrees(d) /\ CeilingsEnforced(d)
    BY DEF Refusal
  <1>2. \A f \in Facets : f \notin d
    BY <1>1
    DEF Verify, AuthorizationFound, GrantBound, ObjectsStored, DocumentsAgree, DependenciesInstalled, HostMatches,
        IdentityAgrees, MaterialAgrees, CeilingsEnforced, Facets
  <1> QED BY <1>2

LEMMA LocalCheckKeeps ==
    ASSUME NativeInv, NEW p \in Procs, LocalCheck(p)
    PROVE  NativeInv'
  <1>1. proc[p].pc = "begin" /\ proc[p].op = "local" /\ UNCHANGED <<ctl, host, child>>
    BY DEF LocalCheck, LocalGo, At
  <1>2. CASE Goto(p, "refused")
    BY <1>1, <1>2, BeginRests
  <1>3. CASE BeforeUserCode(p) /\ Goto(p, "local.intent")
    <2>1. Glides(p, "local.intent")
      BY <1>1, <1>3, GotoGlides
    <2>2. CtlStep /\ LockMono(p)
      BY <1>1, SameCtl
    <2>3. H(p).differs \in SUBSET Facets
      BY Zenon DEF NativeInv, Shaped, IsProc, RootOK, H
    <2>4. H(p).differs = {}
      BY <1>3, <2>3, VerifiedAgrees DEF BeforeUserCode
    <2>5. OwnOK(p)'
      BY <1>1, <2>1, <2>2, <2>4
      DEF Glides, OwnOK, FlowOK, LaunchOK, ChildOK, FilesOK, RecordedOK, CarryOK, EvidenceOK, DocsOK, PreIntent,
          PastIntent, Recorded, Fact, CtlStep, CtlMono, Still, CallStill, DocsStill, SettledAs
    <2> QED BY <2>1, <2>2, <2>5, Lands
  <1> QED BY <1>2, <1>3 DEF LocalCheck, LocalGo

LEMMA LocalIntentKeeps ==
    ASSUME NativeInv, NEW p \in Procs, LocalIntent(p)
    PROVE  NativeInv'
  <1>1. proc[p].pc = "local.intent" /\ UNCHANGED <<ctl, child>>
    BY DEF LocalIntent, At
  <1>2. CASE Goto(p, "refused") /\ UNCHANGED host
    BY <1>1, <1>2, BeginRests
  <1>3. CASE H(p).intent = NoProc /\ Write(p, "intent", p) /\ Goto(p, "local.queue")
    <2>1. /\ proc[p].op = "local" /\ ~proc[p].claimed /\ host[proc[p].root].differs = {} /\ child[p] = NoChild
          /\ ChildMono(p)
      BY <1>1, ChildSame DEF NativeInv, OwnOK, FlowOK, FilesOK, ChildOK, H
    <2>2. HostMono(p) /\ Put(p, "intent", p)
      BY <1>3, <2>1, FilePut DEF H
    <2>3. Turns(p) /\ proc'[p].pc = "local.queue" /\ CallStill(p) /\ DocsStill(p) /\ proc'[p].then = proc[p].then
      BY <1>3, <2>1, GotoTurns
    <2>4. CtlStep /\ LockMono(p)
      BY Zenon, <1>1, SameCtl
    <2>5. OwnOK(p)'
      <3>1. FlowOK(proc[p])'
        BY <2>1, <2>2, <2>3, <2>4 DEF Turns, OwnOK, FlowOK, CallStill, DocsStill, NoChild
      <3>2. LaunchOK(proc[p])'
        BY <2>1, <2>2, <2>3, <2>4
        DEF Turns, OwnOK, LaunchOK, Recorded, Fact, CtlStep, CtlMono, CallStill, DocsStill, NoChild
      <3>3. ChildOK(proc[p], child[p])'
        BY <1>1, <2>1, <2>2, <2>3, <2>4 DEF Turns, OwnOK, ChildOK, CallStill, DocsStill, NoChild
      <3>4. RecordedOK(p, proc[p], child[p])'
        BY <1>1, <2>1, <2>2, <2>3, <2>4
        DEF Turns, OwnOK, RecordedOK, Recorded, Fact, CtlStep, CtlMono, CallStill, DocsStill, NoChild
      <3>5. FilesOK(p, proc[p], H(p), child[p])'
        BY Zenon, <1>1, <2>1, <2>2, <2>3, <2>4
        DEF Turns, OwnOK, FilesOK, PreIntent, PastIntent, H, Put, CallStill, DocsStill, NoChild
      <3>6. CarryOK(proc[p], H(p))'
        BY <2>1, <2>2, <2>3, <2>4 DEF Turns, OwnOK, CarryOK, H, Put, CallStill, DocsStill, NoChild
      <3>7. EvidenceOK(proc[p])'
        BY Zenon, <2>1, <2>2, <2>3, <2>4
        DEF Turns, OwnOK, EvidenceOK, SettledAs, DocsOK, CtlStep, CtlMono, H, Put, CallStill, DocsStill, NoChild
      <3> QED BY <3>1, <3>2, <3>3, <3>4, <3>5, <3>6, <3>7 DEF OwnOK
    <2> QED BY <2>2, <2>3, <2>4, <2>5, TurnEnds
  <1> QED BY <1>2, <1>3 DEF LocalIntent
(* The lock is not this process's, and a fact recorded leaves it so.       *)
LEMMA AppendsUnlocked ==
    ASSUME NativeInv, NEW p \in Procs, proc[p].pc \notin Locked, NEW kind \in {"remote", "local"}, NEW type \in DraftTypes,
           Backed(type), CanAppend(kind, type), ctl' = Appended(kind, type)
    PROVE  CtlStep /\ LockMono(p) /\ Recorded(kind, type)' /\ ctl'.lease = ctl.lease /\ ctl'.reason = ctl.reason
  <1>1. ctl'.lock = ctl.lock
    BY AppendedLock
  <1>2. ctl.lock # p
    BY ControlAssumption DEF NativeInv, LockOK
  <1> QED BY <1>1, <1>2, AppendedStep DEF LockMono

LEMMA LocalRowKeeps ==
    ASSUME NativeInv, NEW p \in Procs, proc[p].pc = "local.queue", proc[p].row <= Len(QueueRows),
           ~Recorded("local", QueueRows[proc[p].row]), NextRun(QueueRows[proc[p].row]) # Rejected,
           ctl' = Appended("local", QueueRows[proc[p].row]), proc' = [proc EXCEPT ![p].row = @ + 1],
           UNCHANGED <<host, child>>
    PROVE  NativeInv'
  <1>1. PICK n : n = proc[p].row
    OBVIOUS
  <1>2. PICK t : t = QueueRows[n]
    OBVIOUS
  <1>3. /\ Rec(proc, Procs) /\ IsProc(proc[p]) /\ OwnOK(p) /\ proc[p].op = "local" /\ ~proc[p].claimed /\ child[p] = NoChild
        /\ n \in Nat \ {0} /\ proc[p].root \in Roots
    BY <1>1 DEF NativeInv, Shaped, IsProc, OwnOK, FlowOK, ChildOK
  <1>4. n \in {1, 2, 3} /\ t \in DraftTypes /\ Backed(t) /\ (n = 1 => t = "run.queued") /\ ~Recorded("local", t)
    <2>1. n \in {1, 2, 3}
      BY <1>1, <1>3 DEF QueueRows
    <2> QED BY <1>1, <1>2, <2>1 DEF QueueRows, DraftTypes, Backed
  <1>5. CtlStep /\ LockMono(p) /\ Recorded("local", t)'
    <2>1. CanAppend("local", t) /\ ctl' = Appended("local", t)
      BY <1>1, <1>2 DEF CanAppend
    <2> QED BY <1>4, <2>1, AppendsUnlocked
  <1>6. /\ Rec(proc', Procs) /\ \A q \in Procs \ {p} : proc'[q] = proc[q]
        /\ proc'[p] = [proc[p] EXCEPT !.row = n + 1]
    BY Zenon, <1>1, <1>3 DEF Rec
  <1>7. PICK s, r : s = proc[p] /\ r = proc'[p]
    OBVIOUS
  <1>8. Rec(s, ProcFields) /\ r = [s EXCEPT !.row = n + 1]
    BY <1>3, <1>6, <1>7 DEF IsProc
  <1>9. Rec(r, ProcFields) /\ r.row = n + 1 /\ \A f \in ProcFields \ {"row"} : r[f] = s[f]
    BY ONLY Zenon, <1>8 DEF Rec, ProcFields
  <1>10. /\ CallStill(p) /\ DocsStill(p) /\ proc'[p].then = proc[p].then /\ proc'[p].pc = "local.queue" /\ proc'[p].op = "local"
         /\ proc'[p].root = proc[p].root /\ proc'[p].lease = proc[p].lease /\ proc'[p].fresh = proc[p].fresh
         /\ proc'[p].claimed = proc[p].claimed /\ proc'[p].carried = proc[p].carried
         /\ proc'[p].j = proc[p].j /\ Rec(proc'[p], ProcFields) /\ proc'[p].row = n + 1
    BY <1>3, <1>7, <1>9 DEF ProcFields, CallStill, DocsStill
  <1>11. proc[p].row > 1 \/ \A q \in Procs \ {p} : ~(proc[q].row > 1)
    <2>1. \A q \in Procs : proc[q].row > 1 => Recorded("local", "run.queued")
      BY DEF NativeInv, OwnOK, LaunchOK
    <2> QED BY <1>1, <1>4, <2>1
  <1>12. ProcMono(p)
    <2>1. IsProc(proc'[p])
      BY <1>3, <1>10 DEF IsProc, DocsStill
    <2> QED BY <1>6, <1>10, <1>11, <2>1 DEF ProcMono, Contender
  <1>13. HostMono(p) /\ ChildMono(p) /\ H(p)' = H(p)
    BY <1>10, HostSame, ChildSame DEF H
  <1>14. Recorded("local", "run.queued")'
    <2>1. CASE n = 1
      BY <1>4, <1>5, <2>1
    <2>2. CASE n # 1
      <3>1. Recorded("local", "run.queued")
        BY <1>1, <1>3, <2>2 DEF OwnOK, LaunchOK
      <3> QED BY Zenon, <1>5, <3>1 DEF CtlStep, CtlMono, Recorded, Fact
    <2> QED BY <2>1, <2>2
  <1>15. OwnOK(p)'
    <2>1. child' = child /\ proc[p].pc = "local.queue"
      OBVIOUS
    <2> HIDE DEF Appended, QueueRows
    <2>2. FlowOK(proc[p])'
      BY Zenon, <1>3, <1>10 DEF OwnOK, FlowOK
    <2>3. LaunchOK(proc[p])'
      BY Zenon, <1>3, <1>10, <1>14 DEF LaunchOK
    <2>4. ChildOK(proc[p], child[p])' /\ RecordedOK(p, proc[p], child[p])'
      BY <1>3, <2>1 DEF ChildOK, RecordedOK, OwnOK, NoChild
    <2>5. FilesOK(p, proc[p], H(p), child[p])'
      BY <1>3, <1>13, <2>1 DEF FilesOK, OwnOK, NoChild, PreIntent, PastIntent
    <2>6. CarryOK(proc[p], H(p))' /\ EvidenceOK(proc[p])'
      BY <1>3, <1>13 DEF CarryOK, EvidenceOK, OwnOK
    <2> QED BY <2>2, <2>3, <2>4, <2>5, <2>6 DEF OwnOK
  <1> QED BY <1>5, <1>12, <1>13, <1>15, StepOK

LEMMA LocalQueueKeeps ==
    ASSUME NativeInv, NEW p \in Procs, LocalQueue(p)
    PROVE  NativeInv'
  <1>1. /\ proc[p].pc = "local.queue" /\ proc[p].op = "local" /\ ~proc[p].claimed /\ child[p] = NoChild
        /\ proc[p].row \in Nat
    BY DEF LocalQueue, At, NativeInv, Shaped, IsProc, OwnOK, FlowOK, ChildOK
  <1>2. CASE Goto(p, "local.except") /\ UNCHANGED <<ctl, host, child>>
    BY <1>1, <1>2, LocalLeaves DEF LocalPcs
  <1>3. CASE /\ proc[p].row <= Len(QueueRows) /\ ~Recorded("local", QueueRows[proc[p].row])
             /\ NextRun(QueueRows[proc[p].row]) # Rejected /\ ctl' = Appended("local", QueueRows[proc[p].row])
             /\ proc' = [proc EXCEPT ![p].row = @ + 1] /\ UNCHANGED <<host, child>>
    BY Zenon, <1>1, <1>3, LocalRowKeeps
  <1>4. CASE /\ ~(proc[p].row <= Len(QueueRows))
             /\ Call(p, "claim.open", "local.started", "local.except", "local.except") /\ UNCHANGED <<ctl, host, child>>
    <2>1. /\ Moved(p, Free) /\ DocsStill(p) /\ proc'[p].then = proc[p].then
          /\ proc'[p].pc = "claim.open" /\ proc'[p].ok = "local.started" /\ proc'[p].no = "local.except"
          /\ proc'[p].lost = "local.except"
      BY <1>4, CallMoves
    <2>2. HostMono(p) /\ Held(p) /\ ChildMono(p) /\ child'[p] = child[p]
      BY <1>4, ReportFrame
    <2>3. Turns(p)
      BY <2>1, <2>2, TurningAsBefore
    <2>4. proc[p].row > 1
      BY <1>1, <1>4 DEF QueueRows
    <2>5. CtlStep /\ LockMono(p)
      <3>1. CtlKeeps(ctl') /\ ctl' = ctl /\ ctl.lock # p
        BY <1>1, <1>4, ControlAssumption DEF NativeInv, Shaped, CtlKeeps, LockOK
      <3> QED BY <3>1, KeepsStep DEF LockMono
    <2>6. OwnOK(p)'
      <3>1. FlowOK(proc[p])'
        BY <1>1, <2>1, <2>2, <2>3, <2>4, <2>5 DEF Turns, OwnOK, FlowOK, CallStill, DocsStill, Held, NoChild
      <3>2. LaunchOK(proc[p])'
        BY Zenon, <1>1, <2>1, <2>2, <2>3, <2>4, <2>5
        DEF Turns, OwnOK, LaunchOK, Recorded, Fact, CtlStep, CtlMono, CallStill, DocsStill, Held, NoChild
      <3>3. ChildOK(proc[p], child[p])'
        BY <2>1, <2>2, <2>3, <2>4, <2>5 DEF Turns, OwnOK, ChildOK, CallStill, DocsStill, Held, NoChild
      <3>4. RecordedOK(p, proc[p], child[p])'
        BY <1>1, <2>1, <2>2, <2>3, <2>4, <2>5
        DEF Turns, OwnOK, RecordedOK, Recorded, Fact, CtlStep, CtlMono, CallStill, DocsStill, Held, NoChild
      <3>5. FilesOK(p, proc[p], H(p), child[p])'
        BY <1>1, <2>1, <2>2, <2>3, <2>4, <2>5
        DEF Turns, OwnOK, FilesOK, PreIntent, PastIntent, H, Put, CallStill, DocsStill, Held, NoChild
      <3>6. CarryOK(proc[p], H(p))'
        BY <2>1, <2>2, <2>3, <2>4, <2>5 DEF Turns, OwnOK, CarryOK, H, Put, CallStill, DocsStill, Held, NoChild
      <3>7. EvidenceOK(proc[p])'
        BY <2>1, <2>2, <2>3, <2>4, <2>5
        DEF Turns, OwnOK, EvidenceOK, SettledAs, DocsOK, CtlStep, CtlMono, H, Put, CallStill, DocsStill, Held,
            NoChild
      <3> QED BY <3>1, <3>2, <3>3, <3>4, <3>5, <3>6, <3>7 DEF OwnOK
    <2> QED BY <2>2, <2>3, <2>5, <2>6, TurnEnds
  <1> QED BY <1>2, <1>3, <1>4 DEF LocalQueue

LEMMA LocalStartedKeeps ==
    ASSUME NativeInv, NEW p \in Procs, LocalStarted(p)
    PROVE  NativeInv'
  <1>1. proc[p].pc = "local.started" /\ proc[p].op = "local" /\ proc[p].claimed /\ child[p] = NoChild /\ UNCHANGED <<host, child>>
    BY DEF LocalStarted, At, NativeInv, OwnOK, FlowOK, ChildOK
  <1>2. CASE Goto(p, "local.except") /\ UNCHANGED ctl
    BY <1>1, <1>2, LocalLeaves DEF LocalPcs
  <1>3. CASE /\ NextRun("attempt.started") # Rejected /\ ctl' = Appended("local", "attempt.started")
             /\ proc' = [proc EXCEPT ![p].pc = "local.spawn", ![p].started = TRUE]
    <2>1. /\ Moved(p, Free)
         /\ proc'[p].pc = "local.spawn" /\ proc'[p].started = TRUE
         /\ proc'[p].ok = proc[p].ok /\ proc'[p].no = proc[p].no /\ proc'[p].lost = proc[p].lost /\ proc'[p].doc = proc[p].doc /\ proc'[p].report = proc[p].report /\ proc'[p].then = proc[p].then
      <3>1. PICK s, t : s = proc[p] /\ t = proc'[p]
        OBVIOUS
      <3>2. Rec(proc, Procs) /\ Rec(proc[p], ProcFields)
        BY DEF NativeInv, Shaped, IsProc
      <3>3. /\ Rec(proc', Procs) /\ \A q \in Procs \ {p} : proc'[q] = proc[q]
            /\ proc'[p] = [proc[p] EXCEPT !.pc = "local.spawn", !.started = TRUE]
        BY <1>3, <3>2 DEF Rec
      <3>4. Rec(s, ProcFields) /\ t = [s EXCEPT !.pc = "local.spawn", !.started = TRUE]
        BY <3>1, <3>2, <3>3
      <3>5. /\ Rec(t, ProcFields) /\ t.pc = "local.spawn" /\ t.started = TRUE
            /\ \A f \in ProcFields \ {"pc", "started"} : t[f] = s[f]
        BY ONLY Zenon, <3>4 DEF Rec, ProcFields
      <3> QED BY <3>1, <3>3, <3>5 DEF Moved, Free, ProcFields
    <2>2. CtlStep /\ LockMono(p) /\ Recorded("local", "attempt.started")'
      <3>1. CanAppend("local", "attempt.started") /\ Backed("attempt.started") /\ "attempt.started" \in DraftTypes
        BY <1>3 DEF CanAppend, Backed, DraftTypes
      <3> QED BY <1>1, <1>3, <3>1, AppendsUnlocked
    <2>3. HostMono(p) /\ Held(p) /\ ChildMono(p) /\ child'[p] = child[p]
      BY <1>1, HostSame, ChildSame DEF Held
    <2>4. Turns(p)
      BY <2>1, <2>3, TurningAsBefore DEF DocsStill
    <2>5. OwnOK(p)'
      <3>1. FlowOK(proc[p])'
        BY <1>1, <2>1, <2>2, <2>3, <2>4 DEF Turns, OwnOK, FlowOK, CallStill, DocsStill, Held, NoChild
      <3>2. LaunchOK(proc[p])'
        BY <2>1, <2>2, <2>3, <2>4
        DEF Turns, OwnOK, LaunchOK, Recorded, Fact, CtlStep, CtlMono, CallStill, DocsStill, Held, NoChild
      <3>3. ChildOK(proc[p], child[p])'
        BY Zenon, <1>1, <2>1, <2>2, <2>3, <2>4 DEF Turns, OwnOK, ChildOK, CallStill, DocsStill, Held, NoChild
      <3>4. RecordedOK(p, proc[p], child[p])'
        BY <1>1, <2>1, <2>2, <2>3, <2>4
        DEF Turns, OwnOK, RecordedOK, Recorded, Fact, CtlStep, CtlMono, CallStill, DocsStill, Held, NoChild
      <3>5. FilesOK(p, proc[p], H(p), child[p])'
        BY <1>1, <2>1, <2>2, <2>3, <2>4
        DEF Turns, OwnOK, FilesOK, PreIntent, PastIntent, H, Put, CallStill, DocsStill, Held, NoChild
      <3>6. CarryOK(proc[p], H(p))'
        BY <2>1, <2>2, <2>3, <2>4 DEF Turns, OwnOK, CarryOK, H, Put, CallStill, DocsStill, Held, NoChild
      <3>7. EvidenceOK(proc[p])'
        BY <2>1, <2>2, <2>3, <2>4
        DEF Turns, OwnOK, EvidenceOK, SettledAs, DocsOK, CtlStep, CtlMono, H, Put, CallStill, DocsStill, Held,
            NoChild
      <3> QED BY <3>1, <3>2, <3>3, <3>4, <3>5, <3>6, <3>7 DEF OwnOK
    <2> QED BY <2>2, <2>3, <2>4, <2>5, TurnEnds
  <1> QED BY <1>2, <1>3 DEF LocalStarted

LEMMA LocalSpawnKeeps ==
    ASSUME NativeInv, NEW p \in Procs, LocalSpawn(p)
    PROVE  NativeInv'
  <1>1. /\ proc[p].pc = "local.spawn" /\ Goto(p, "local.identity") /\ child' = [child EXCEPT ![p].state = "blocked"]
        /\ UNCHANGED <<ctl, host>>
    BY DEF LocalSpawn, At
  <1>2. proc[p].pc = "local.spawn" /\ proc[p].op = "local" /\ proc[p].claimed /\ child[p] = NoChild /\ host' = host
    BY <1>1 DEF NativeInv, OwnOK, FlowOK, ChildOK
  <1>3. ChildMono(p) /\ child'[p].state = "blocked" /\ child'[p].released = FALSE
    BY Zenon, <1>1, <1>2, SpawnedChild
  <1>4. Turns(p) /\ proc'[p].pc = "local.identity" /\ CallStill(p) /\ DocsStill(p) /\ proc'[p].then = proc[p].then
    BY <1>1, <1>3, GotoTurns
  <1>5. HostMono(p) /\ CtlStep /\ LockMono(p)
    BY <1>1, HostSame, SameCtl
  <1>6. OwnOK(p)'
    <2>1. FlowOK(proc[p])'
      BY <1>2, <1>3, <1>4, <1>5 DEF Turns, OwnOK, FlowOK, CallStill, DocsStill
    <2>2. LaunchOK(proc[p])'
      BY <1>3, <1>4, <1>5 DEF Turns, OwnOK, LaunchOK, Recorded, Fact, CtlStep, CtlMono, CallStill, DocsStill
    <2>3. ChildOK(proc[p], child[p])'
      BY Zenon, <1>2, <1>3, <1>4, <1>5 DEF Turns, OwnOK, ChildOK, CallStill, DocsStill
    <2>4. RecordedOK(p, proc[p], child[p])'
      BY <1>2, <1>3, <1>4, <1>5 DEF Turns, OwnOK, RecordedOK, Recorded, Fact, CtlStep, CtlMono, CallStill, DocsStill
    <2>5. FilesOK(p, proc[p], H(p), child[p])'
      BY <1>2, <1>3, <1>4, <1>5 DEF Turns, OwnOK, FilesOK, PreIntent, PastIntent, H, Put, CallStill, DocsStill
    <2>6. CarryOK(proc[p], H(p))'
      BY <1>2, <1>3, <1>4, <1>5 DEF Turns, OwnOK, CarryOK, H, Put, CallStill, DocsStill
    <2>7. EvidenceOK(proc[p])'
      BY <1>3, <1>4, <1>5
      DEF Turns, OwnOK, EvidenceOK, SettledAs, DocsOK, CtlStep, CtlMono, H, Put, CallStill, DocsStill
    <2> QED BY <2>1, <2>2, <2>3, <2>4, <2>5, <2>6, <2>7 DEF OwnOK
  <1> QED BY <1>4, <1>5, <1>6, TurnEnds

LEMMA LocalIdentityKeeps ==
    ASSUME NativeInv, NEW p \in Procs, LocalIdentity(p)
    PROVE  NativeInv'
  <1>1. proc[p].pc = "local.identity" /\ UNCHANGED <<ctl, child>> /\ Write(p, "identity", p)
    BY DEF LocalIdentity, At
  <1>2. PICK x \in {"local.release", "local.except"} : Goto(p, x)
    BY DEF LocalIdentity
  <1>3. /\ proc[p].op = "local" /\ proc[p].claimed /\ child[p].state \in {"blocked", "exited"} /\ ~child[p].released /\ ChildMono(p)
    BY <1>1, ChildSame DEF NativeInv, OwnOK, FlowOK, ChildOK
  <1>4. HostMono(p) /\ Put(p, "identity", p)
    BY <1>1, <1>3, FilePut
  <1>5. Turns(p) /\ proc'[p].pc = x /\ CallStill(p) /\ DocsStill(p) /\ proc'[p].then = proc[p].then
    BY <1>2, <1>3, GotoTurns
  <1>6. CtlStep /\ LockMono(p)
    BY <1>1, SameCtl
  <1>7. child' = child /\ proc[p].pc = "local.identity" /\ x \in {"local.release", "local.except"}
    BY <1>1
  <1>8. OwnOK(p)'
    <2>1. FlowOK(proc[p])'
      BY <1>4, <1>5, <1>6, <1>7 DEF Turns, OwnOK, FlowOK, CallStill, DocsStill
    <2>2. LaunchOK(proc[p])'
      BY <1>4, <1>5, <1>6, <1>7 DEF Turns, OwnOK, LaunchOK, Recorded, Fact, CtlStep, CtlMono, CallStill, DocsStill
    <2>3. ChildOK(proc[p], child[p])'
      BY <1>4, <1>5, <1>6, <1>7 DEF Turns, OwnOK, ChildOK, CallStill, DocsStill
    <2>4. RecordedOK(p, proc[p], child[p])'
      BY <1>3, <1>4, <1>5, <1>6, <1>7
      DEF Turns, OwnOK, RecordedOK, Recorded, Fact, CtlStep, CtlMono, CallStill, DocsStill
    <2>5. FilesOK(p, proc[p], H(p), child[p])'
      BY <1>4, <1>5, <1>6, <1>7 DEF Turns, OwnOK, FilesOK, PreIntent, PastIntent, H, Put, CallStill, DocsStill
    <2>6. CarryOK(proc[p], H(p))'
      BY <1>4, <1>5, <1>6, <1>7 DEF Turns, OwnOK, CarryOK, H, Put, CallStill, DocsStill
    <2>7. EvidenceOK(proc[p])'
      BY Zenon, <1>4, <1>5, <1>6, <1>7
      DEF Turns, OwnOK, EvidenceOK, SettledAs, DocsOK, CtlStep, CtlMono, H, Put, CallStill, DocsStill
    <2> QED BY <2>1, <2>2, <2>3, <2>4, <2>5, <2>6, <2>7 DEF OwnOK
  <1> QED BY <1>4, <1>5, <1>6, <1>8, TurnEnds

LEMMA LocalReleaseKeeps ==
    ASSUME NativeInv, NEW p \in Procs, LocalRelease(p)
    PROVE  NativeInv'
  <1>1. proc[p].pc = "local.release" /\ UNCHANGED <<ctl, host>> /\ proc[p].op = "local" /\ proc[p].claimed /\ ~child[p].released
    BY DEF LocalRelease, At, NativeInv, OwnOK, FlowOK, ChildOK
  <1>2. CASE Goto(p, "local.except") /\ UNCHANGED child
    BY <1>1, <1>2, LocalLeaves DEF LocalPcs
  <1>3. CASE /\ child[p].state = "blocked" /\ child' = [child EXCEPT ![p] = Loaded(child[p], H(p).workspace)]
             /\ Goto(p, "local.collect")
    <2>1. /\ ChildMono(p) /\ child'[p].state \in {"user", "exited"} /\ child'[p].released \in BOOLEAN
          /\ child'[p].released \/ child'[p].code = 70
          /\ child'[p].released => child'[p].loaded = AllGood
          /\ child'[p].state = "user" => child'[p].released
      BY Zenon, <1>1, <1>3, ReleasedChild
    <2>2. Turns(p) /\ proc'[p].pc = "local.collect" /\ CallStill(p) /\ DocsStill(p) /\ proc'[p].then = proc[p].then
      BY <1>3, <2>1, GotoTurns
    <2>3. HostMono(p) /\ CtlStep /\ LockMono(p)
      BY <1>1, HostSame, SameCtl
    <2>4. OwnOK(p)'
      <3>1. FlowOK(proc[p])'
        BY <1>1, <2>1, <2>2, <2>3 DEF Turns, OwnOK, FlowOK, CallStill, DocsStill
      <3>2. LaunchOK(proc[p])'
        BY <2>1, <2>2, <2>3 DEF Turns, OwnOK, LaunchOK, Recorded, Fact, CtlStep, CtlMono, CallStill, DocsStill
      <3>3. ChildOK(proc[p], child[p])'
        BY <1>1, <2>1, <2>2, <2>3 DEF Turns, OwnOK, ChildOK, CallStill, DocsStill
      <3>4. RecordedOK(p, proc[p], child[p])'
        BY <1>1, <2>1, <2>2, <2>3 DEF Turns, OwnOK, RecordedOK, Recorded, Fact, CtlStep, CtlMono, CallStill, DocsStill
      <3>5. FilesOK(p, proc[p], H(p), child[p])'
        BY <1>1, <2>1, <2>2, <2>3 DEF Turns, OwnOK, FilesOK, PreIntent, PastIntent, H, Put, CallStill, DocsStill
      <3>6. CarryOK(proc[p], H(p))'
        BY <1>1, <2>1, <2>2, <2>3 DEF Turns, OwnOK, CarryOK, H, Put, CallStill, DocsStill
      <3>7. EvidenceOK(proc[p])'
        BY <2>1, <2>2, <2>3
        DEF Turns, OwnOK, EvidenceOK, SettledAs, DocsOK, CtlStep, CtlMono, H, Put, CallStill, DocsStill
      <3> QED BY <3>1, <3>2, <3>3, <3>4, <3>5, <3>6, <3>7 DEF OwnOK
    <2> QED BY <2>2, <2>3, <2>4, TurnEnds
  <1> QED BY <1>2, <1>3 DEF LocalRelease

LEMMA LocalCollectKeeps ==
    ASSUME NativeInv, NEW p \in Procs, LocalCollect(p)
    PROVE  NativeInv'
  <1>1. proc[p].pc = "local.collect" /\ UNCHANGED <<ctl, host, child>> /\ proc[p].op = "local" /\ proc[p].claimed
    BY DEF LocalCollect, LocalGo, At, NativeInv, OwnOK, FlowOK
  <1>2. CASE Goto(p, "local.except")
    BY <1>1, <1>2, LocalLeaves DEF LocalPcs
  <1>3. CASE /\ child[p].state \in {"lingering", "exited"} /\ Observed(child[p]) = "exited" /\ Goto(p, "local.settle")
    <2>1. child[p].state = "exited"
      BY <1>3 DEF Observed, Alive
    <2>2. Glides(p, "local.settle")
      BY <1>1, <1>3, GotoGlides
    <2>3. CtlStep /\ LockMono(p)
      BY <1>1, SameCtl
    <2>4. OwnOK(p)'
      BY <1>1, <2>1, <2>2, <2>3
      DEF Glides, OwnOK, FlowOK, LaunchOK, ChildOK, FilesOK, RecordedOK, CarryOK, EvidenceOK, DocsOK, PreIntent,
          PastIntent, Recorded, Fact, CtlStep, CtlMono, Still, CallStill, DocsStill, SettledAs
    <2> QED BY <2>2, <2>3, <2>4, Lands
  <1> QED BY <1>2, <1>3 DEF LocalCollect, LocalGo
(* Ways on: the facts of a settled lease, or the reconciler.               *)
LEMMA LocalForward ==
    ASSUME NativeInv, NEW p \in Procs, HostMono(p), Held(p), Turns(p), CtlMono, CtlStep \/ ControlOK', LockMono(p),
           proc[p].pc \in LocalPcs \cup {"begin"}, proc[p].op \in {"local", "localreconcile"},
           child'[p] = child[p], proc'[p].then = proc[p].then,
           NEW x \in {"local.attempt", "local.run", "lr", "lr.attempt", "lr.run", "lr.started", "lr.unknown"}, proc'[p].pc = x,
           x \in {"local.attempt", "local.run"} => proc[p].op = "local" /\ proc[p].claimed,
           x \in Reconciling => \/ proc[p].op = "local" /\ proc'[p].ok = "local.except" /\ proc'[p].no = "local.except"
                                \/ proc[p].op = "localreconcile" /\ proc'[p].ok = "done" /\ proc'[p].no = "done",
           NEW out, proc'[p].doc.out = out,
           x \in {"local.attempt", "local.run", "lr.attempt", "lr.run"} => SettledAs(out)'
    PROVE  NativeInv'
  <1>1. OwnOK(p)'
    <2>1. FlowOK(proc[p])'
      BY DEF Turns, OwnOK, FlowOK, CallStill, DocsStill, Held, LocalPcs
    <2>2. LaunchOK(proc[p])'
      BY DEF Turns, OwnOK, LaunchOK, Recorded, Fact, CtlStep, CtlMono, CallStill, DocsStill, Held, LocalPcs
    <2>3. ChildOK(proc[p], child[p])'
      BY DEF Turns, OwnOK, ChildOK, CallStill, DocsStill, Held, LocalPcs
    <2>4. RecordedOK(p, proc[p], child[p])'
      BY Zenon DEF Turns, OwnOK, RecordedOK, Recorded, Fact, CtlStep, CtlMono, CallStill, DocsStill, Held, LocalPcs
    <2>5. FilesOK(p, proc[p], H(p), child[p])'
      BY DEF Turns, OwnOK, FilesOK, PreIntent, PastIntent, H, Put, CallStill, DocsStill, Held, LocalPcs
    <2>6. CarryOK(proc[p], H(p))'
      BY DEF Turns, OwnOK, CarryOK, H, Put, CallStill, DocsStill, Held, LocalPcs
    <2>7. EvidenceOK(proc[p])'
      BY Zenon
      DEF Turns, OwnOK, EvidenceOK, SettledAs, DocsOK, CtlStep, CtlMono, H, Put, CallStill, DocsStill, Held, LocalPcs
    <2> QED BY <2>1, <2>2, <2>3, <2>4, <2>5, <2>6, <2>7 DEF OwnOK
  <1> QED BY <1>1, Settles DEF Turns

LEMMA LocalSettleKeeps ==
    ASSUME NativeInv, NEW p \in Procs, LocalSettle(p)
    PROVE  NativeInv'
  <1>1. /\ proc[p].pc = "local.settle" /\ UNCHANGED <<host, child>> /\ proc[p].op = "local" /\ proc[p].claimed
        /\ child[p].state = "exited" /\ (child[p].released \/ child[p].code = 70) /\ Rec(ctl, CtlFields)
    BY Zenon DEF LocalSettle, At, NativeInv, Shaped, OwnOK, FlowOK, ChildOK
  <1>2. HostMono(p) /\ Held(p) /\ ChildMono(p) /\ child'[p] = child[p] /\ Exited(p) /\ ctl.lock # p
    BY <1>1, HostSame, ChildSame, ControlAssumption DEF Held, Exited, NativeInv, LockOK
  <1>3. CASE /\ UNCHANGED ctl
             /\ proc' = [proc EXCEPT ![p].pc = "lr", ![p].ok = "local.except", ![p].no = "local.except"]
    <2>1. /\ Moved(p, Free)
         /\ proc'[p].pc = "lr" /\ proc'[p].ok = "local.except" /\ proc'[p].no = "local.except"
         /\ proc'[p].lost = proc[p].lost /\ proc'[p].doc = proc[p].doc /\ proc'[p].report = proc[p].report /\ proc'[p].then = proc[p].then
      <3>1. PICK s, t : s = proc[p] /\ t = proc'[p]
        OBVIOUS
      <3>2. Rec(proc, Procs) /\ Rec(proc[p], ProcFields)
        BY DEF NativeInv, Shaped, IsProc
      <3>3. /\ Rec(proc', Procs) /\ \A q \in Procs \ {p} : proc'[q] = proc[q]
            /\ proc'[p] = [proc[p] EXCEPT !.pc = "lr", !.ok = "local.except", !.no = "local.except"]
        BY Zenon, <1>3, <3>2 DEF Rec
      <3>4. Rec(s, ProcFields) /\ t = [s EXCEPT !.pc = "lr", !.ok = "local.except", !.no = "local.except"]
        BY <3>1, <3>2, <3>3
      <3>5. /\ Rec(t, ProcFields) /\ t.pc = "lr" /\ t.ok = "local.except" /\ t.no = "local.except"
            /\ \A f \in ProcFields \ {"pc", "ok", "no"} : t[f] = s[f]
        BY ONLY Zenon, <3>4 DEF Rec, ProcFields
      <3> QED BY <3>1, <3>3, <3>5 DEF Moved, Free, ProcFields
    <2>2. Turns(p)
      BY <1>2, <2>1, TurningAsBefore DEF DocsStill
    <2>3. CtlStep /\ LockMono(p) /\ CtlMono
      BY Zenon, <1>1, <1>3, SameCtl DEF CtlStep
    <2>4. PICK out : out = proc'[p].doc.out
      OBVIOUS
    <2> QED BY <1>1, <1>2, <2>1, <2>2, <2>3, <2>4, LocalForward DEF LocalPcs
  <1>4. CASE Goto(p, "local.except") /\ UNCHANGED ctl
    BY <1>1, <1>4, LocalLeaves DEF LocalPcs
  <1>5. CASE /\ ResultLive /\ ctl' = [ctl EXCEPT !.lease = "failed", !.reason = "native-task-failed"]
             /\ proc' = [proc EXCEPT ![p].pc = "local.attempt", ![p].doc = Document(p, "exited", "failed")]
    <2>1. PICK d : d = Document(p, "exited", "failed")
      OBVIOUS
    <2>2. Rec(d, DocFields) /\ d.out = "failed"
      BY <2>1 DEF Document, Rec, DocFields
    <2>3. proc' = [proc EXCEPT ![p].pc = "local.attempt", ![p].doc = d]
      BY <1>5, <2>1
    <2>4. /\ Moved(p, Free)
         /\ proc'[p].pc = "local.attempt" /\ proc'[p].doc = d
         /\ proc'[p].ok = proc[p].ok /\ proc'[p].no = proc[p].no /\ proc'[p].lost = proc[p].lost /\ proc'[p].report = proc[p].report /\ proc'[p].then = proc[p].then
      <3>1. PICK s, t : s = proc[p] /\ t = proc'[p]
        OBVIOUS
      <3>2. Rec(proc, Procs) /\ Rec(proc[p], ProcFields)
        BY DEF NativeInv, Shaped, IsProc
      <3>3. /\ Rec(proc', Procs) /\ \A q \in Procs \ {p} : proc'[q] = proc[q]
            /\ proc'[p] = [proc[p] EXCEPT !.pc = "local.attempt", !.doc = d]
        BY <2>3, <3>2 DEF Rec
      <3>4. Rec(s, ProcFields) /\ t = [s EXCEPT !.pc = "local.attempt", !.doc = d]
        BY <3>1, <3>2, <3>3
      <3>5. /\ Rec(t, ProcFields) /\ t.pc = "local.attempt" /\ t.doc = d
            /\ \A f \in ProcFields \ {"pc", "doc"} : t[f] = s[f]
        BY ONLY Zenon, <3>4 DEF Rec, ProcFields
      <3> QED BY <3>1, <3>3, <3>5 DEF Moved, Free, ProcFields
    <2>5. PICK r : r = proc[p].report
      OBVIOUS
    <2>6. Rec(r, DocFields)
      BY <2>5 DEF NativeInv, Shaped, IsProc
    <2>7. Turns(p)
      BY <1>1, <1>2, <2>2, <2>4, <2>5, <2>6, Turning
    <2>8. /\ Rec(ctl', CtlFields) /\ ctl'.lease = "failed" /\ ctl'.reason = "native-task-failed" /\ ctl'.lock = ctl.lock
          /\ ctl'.run = ctl.run /\ ctl'.facts = ctl.facts /\ ctl'.cas = ctl.cas /\ ctl'.journal = ctl.journal
      BY Zenon, <1>1, <1>5 DEF Rec, CtlFields
    <2>9. CtlSettles(ctl')
      BY <1>5, <2>8 DEF CtlSettles, ResultLive
    <2>10. CtlMono /\ ControlOK'
      BY <1>2, <2>7, <2>8, <2>9, SettlesFailed DEF Turns
    <2>11. LockMono(p) /\ SettledAs("failed")'
      BY <1>2, <2>8 DEF LockMono, SettledAs
    <2>12. proc'[p].doc.out = "failed"
      BY <2>2, <2>4
    <2> QED BY <1>1, <1>2, <2>4, <2>7, <2>10, <2>11, <2>12, LocalForward DEF LocalPcs
  <1>6. CASE /\ ResultLive /\ child[p].code = 0
             /\ ctl' = [ctl EXCEPT !.lease = "completed", !.artifact = p, !.cas = @ \cup {p}]
             /\ proc' = [proc EXCEPT ![p].pc = "local.attempt", ![p].doc = Document(p, "exited", "completed")]
    <2>1. PICK d : d = Document(p, "exited", "completed")
      OBVIOUS
    <2>2. Rec(d, DocFields) /\ d.out = "completed"
      BY <2>1 DEF Document, Rec, DocFields
    <2>3. proc' = [proc EXCEPT ![p].pc = "local.attempt", ![p].doc = d]
      BY <1>6, <2>1
    <2>4. /\ Moved(p, Free)
         /\ proc'[p].pc = "local.attempt" /\ proc'[p].doc = d
         /\ proc'[p].ok = proc[p].ok /\ proc'[p].no = proc[p].no /\ proc'[p].lost = proc[p].lost /\ proc'[p].report = proc[p].report /\ proc'[p].then = proc[p].then
      <3>1. PICK s, t : s = proc[p] /\ t = proc'[p]
        OBVIOUS
      <3>2. Rec(proc, Procs) /\ Rec(proc[p], ProcFields)
        BY DEF NativeInv, Shaped, IsProc
      <3>3. /\ Rec(proc', Procs) /\ \A q \in Procs \ {p} : proc'[q] = proc[q]
            /\ proc'[p] = [proc[p] EXCEPT !.pc = "local.attempt", !.doc = d]
        BY <2>3, <3>2 DEF Rec
      <3>4. Rec(s, ProcFields) /\ t = [s EXCEPT !.pc = "local.attempt", !.doc = d]
        BY <3>1, <3>2, <3>3
      <3>5. /\ Rec(t, ProcFields) /\ t.pc = "local.attempt" /\ t.doc = d
            /\ \A f \in ProcFields \ {"pc", "doc"} : t[f] = s[f]
        BY ONLY Zenon, <3>4 DEF Rec, ProcFields
      <3> QED BY <3>1, <3>3, <3>5 DEF Moved, Free, ProcFields
    <2>5. PICK r : r = proc[p].report
      OBVIOUS
    <2>6. Rec(r, DocFields)
      BY <2>5 DEF NativeInv, Shaped, IsProc
    <2>7. Turns(p)
      BY <1>1, <1>2, <2>2, <2>4, <2>5, <2>6, Turning
    <2>8. /\ Rec(ctl', CtlFields) /\ ctl'.lease = "completed" /\ ctl'.artifact = p /\ ctl'.lock = ctl.lock
          /\ ctl'.run = ctl.run /\ ctl'.facts = ctl.facts /\ ctl'.cas = ctl.cas \cup {p} /\ ctl'.journal = ctl.journal
      BY Zenon, <1>1, <1>6 DEF Rec, CtlFields
    <2>9. CtlSettles(ctl')
      BY <1>6, <2>8 DEF CtlSettles, ResultLive
    <2>10. CtlMono /\ ControlOK' /\ SettledAs("completed")'
      BY <1>1, <1>2, <1>6, <2>7, <2>8, <2>9, SettlesCompleted DEF Turns
    <2>11. LockMono(p)
      BY <1>2, <2>8 DEF LockMono
    <2>12. proc'[p].doc.out = "completed"
      BY <2>2, <2>4
    <2> QED BY <1>1, <1>2, <2>4, <2>7, <2>10, <2>11, <2>12, LocalForward DEF LocalPcs
  <1> QED BY <1>3, <1>4, <1>5, <1>6 DEF LocalSettle

LEMMA LocalAttemptKeeps ==
    ASSUME NativeInv, NEW p \in Procs, LocalAttempt(p)
    PROVE  NativeInv'
  <1>1. PICK out, t : out = proc[p].doc.out /\ t = FinalTypes(out)[1]
    OBVIOUS
  <1>2. /\ proc[p].pc = "local.attempt" /\ UNCHANGED <<host, child>> /\ SettledAs(out) /\ proc[p].op = "local" /\ proc[p].claimed
    BY <1>1 DEF LocalAttempt, Lifecycle, At, NativeInv, OwnOK, EvidenceOK, FlowOK
  <1>3. t \in DraftTypes /\ Backed(t)
    BY <1>1, <1>2, FinalTypesBacked
  <1>4. CASE Goto(p, "local.except") /\ UNCHANGED ctl
    BY <1>2, <1>4, LocalLeaves DEF LocalPcs
  <1>5. CASE NextRun(t) # Rejected /\ ctl' = Appended("local", t) /\ Goto(p, "local.run")
    <2>1. /\ CtlStep /\ LockMono(p) /\ ctl'.lease = ctl.lease /\ ctl'.reason = ctl.reason /\ CtlMono
      BY <1>2, <1>3, <1>5, AppendsUnlocked DEF CanAppend, CtlStep
    <2>2. HostMono(p) /\ Held(p) /\ ChildMono(p) /\ child'[p] = child[p]
      BY <1>2, HostSame, ChildSame DEF Held
    <2>3. Turns(p) /\ proc'[p].pc = "local.run" /\ DocsStill(p) /\ proc'[p].then = proc[p].then
      BY <1>5, <2>2, GotoTurns
    <2>4. SettledAs(out)' /\ proc'[p].doc.out = out
      BY <1>1, <1>2, <2>1, <2>3 DEF SettledAs, DocsStill
    <2> QED BY <1>2, <2>1, <2>2, <2>3, <2>4, LocalForward DEF LocalPcs
  <1> QED BY <1>1, <1>4, <1>5 DEF LocalAttempt, Lifecycle

LEMMA LocalRunKeeps ==
    ASSUME NativeInv, NEW p \in Procs, LocalRun(p)
    PROVE  NativeInv'
  <1>1. PICK out, t : out = proc[p].doc.out /\ t = FinalTypes(out)[2]
    OBVIOUS
  <1>2. /\ proc[p].pc = "local.run" /\ UNCHANGED <<host, child>> /\ SettledAs(out) /\ proc[p].op = "local"
    BY Zenon, <1>1 DEF LocalRun, Lifecycle, At, NativeInv, OwnOK, EvidenceOK, FlowOK
  <1>3. t \in DraftTypes /\ Backed(t)
    BY <1>1, <1>2, FinalTypesBacked
  <1>4. CASE Goto(p, "local.except") /\ UNCHANGED ctl
    BY <1>2, <1>4, LocalLeaves DEF LocalPcs
  <1>5. CASE NextRun(t) # Rejected /\ ctl' = Appended("local", t) /\ Goto(p, "done")
    BY <1>2, <1>3, <1>5, LocalRecords DEF CanAppend, LocalPcs
  <1> QED BY <1>1, <1>4, <1>5 DEF LocalRun, Lifecycle

LEMMA LocalExceptKeeps ==
    ASSUME NativeInv, NEW p \in Procs, LocalExcept(p)
    PROVE  NativeInv'
  <1>1. /\ proc[p].pc = "local.except" /\ UNCHANGED <<ctl, host>> /\ proc[p].op = "local" /\ Rec(child[p], ChildFields)
        /\ child' = [child EXCEPT ![p] = Stopped(child[p], TRUE)]
    BY DEF LocalExcept, At, NativeInv, Shaped, OwnOK, FlowOK
  <1>2. PICK x \in {"done", "local.unknown", "local.late"} : Goto(p, x)
    BY DEF LocalExcept
  <1>3. ChildMono(p) /\ child'[p] = Stopped(child[p], TRUE)
    BY Zenon, <1>1, StoppedChild
  <1>4. \/ child'[p] = child[p]
        \/ /\ child[p].state # "none" /\ child'[p].released = child[p].released /\ child'[p].loaded = child[p].loaded
           /\ child'[p].state = "exited"
    <2>1. PICK s, c : s = Stopped(child[p], TRUE) /\ c = child[p]
      BY Zenon
    <2>2. Rec(c, ChildFields) /\ s = Stopped(c, TRUE)
      BY <1>1, <2>1
    <2>3. (s = c \/ s = [c EXCEPT !.state = "exited"]) /\ (c.state = "none" => s = c)
      BY ONLY <2>2 DEF Rec, ChildFields, Stopped
    <2>4. s = [c EXCEPT !.state = "exited"] => s.state = "exited" /\ s.released = c.released /\ s.loaded = c.loaded
      BY ONLY Zenon, <2>2 DEF Rec, ChildFields
    <2> QED BY Zenon, <1>3, <2>1, <2>2, <2>3, <2>4
  <1>5. HostMono(p) /\ Held(p)
    BY <1>1, HostSame DEF Held
  <1>6. Turns(p) /\ proc'[p].pc = x /\ proc'[p].then = proc[p].then
    BY <1>2, <1>3, GotoTurns
  <1>7. CtlStep /\ LockMono(p)
    BY <1>1, SameCtl
  <1> QED BY Zenon, <1>1, <1>4, <1>5, <1>6, <1>7, LocalTurns DEF LocalPcs

LEMMA LocalLateKeeps ==
    ASSUME NativeInv, NEW p \in Procs, LocalLate(p)
    PROVE  NativeInv'
  <1>1. proc[p].pc = "local.late" /\ proc[p].op = "local"
    BY DEF LocalLate, At, NativeInv, OwnOK, FlowOK
  <1>2. "attempt.started" \in DraftTypes /\ Backed("attempt.started")
    BY DEF DraftTypes, Backed
  <1> QED BY <1>1, <1>2, LocalLeaves, LocalRecords DEF LocalLate, Lifecycle, CanAppend, LocalPcs

LEMMA LocalUnknownKeeps ==
    ASSUME NativeInv, NEW p \in Procs, LocalUnknown(p)
    PROVE  NativeInv'
  <1>1. proc[p].pc = "local.unknown" /\ proc[p].op = "local"
    BY DEF LocalUnknown, At, NativeInv, OwnOK, FlowOK
  <1>2. "attempt.unknown" \in DraftTypes /\ Backed("attempt.unknown")
    BY DEF DraftTypes, Backed
  <1> QED BY <1>1, <1>2, LocalLeaves, LocalRecords DEF LocalUnknown, LocalGo, Lifecycle, CanAppend, LocalPcs

-----------------------------------------------------------------------------
(* reconcile_reviewed_native.  It acts on what it saw, which stays true.   *)
Sees(p, x, s) ==
    Moved(p, {"pc", "seen"}) /\ proc'[p].pc = x /\ proc'[p].seen = s /\ Rec(s, SeenFields)

LEMMA SeesStep ==
    ASSUME NativeInv, NEW p \in Procs, NEW x, NEW s, Rec(s, SeenFields), Rec(proc', Procs),
           \A q \in Procs \ {p} : proc'[q] = proc[q], proc'[p] = [proc[p] EXCEPT !.pc = x, !.seen = s]
    PROVE  Sees(p, x, s)
  <1>1. PICK r, t : r = proc[p] /\ t = proc'[p]
    OBVIOUS
  <1>2. Rec(r, ProcFields) /\ t = [r EXCEPT !.pc = x, !.seen = s]
    BY <1>1 DEF NativeInv, Shaped, IsProc
  <1>3. Rec(t, ProcFields) /\ t.pc = x /\ t.seen = s /\ \A f \in ProcFields \ {"pc", "seen"} : t[f] = r[f]
    BY ONLY Zenon, <1>2 DEF Rec, ProcFields
  <1> QED BY <1>1, <1>3 DEF Sees, Moved

LEMMA SeesMono ==
    ASSUME NativeInv, NEW p \in Procs, NEW x \in Seeing, NEW s, Sees(p, x, s)
    PROVE  ProcMono(p)
  <1>1. /\ Rec(proc', Procs) /\ Rec(proc'[p], ProcFields) /\ \A q \in Procs \ {p} : proc'[q] = proc[q]
        /\ proc'[p].op = proc[p].op /\ proc'[p].root = proc[p].root /\ proc'[p].claimed = proc[p].claimed
        /\ proc'[p].carried = proc[p].carried /\ proc'[p].row = proc[p].row /\ proc'[p].j = proc[p].j
        /\ proc'[p].doc = proc[p].doc /\ proc'[p].report = proc[p].report
        /\ proc'[p].pc = x /\ proc'[p].seen = s
    BY DEF Sees, Moved, ProcFields
  <1>2. IsProc(proc'[p])
    BY <1>1 DEF NativeInv, Shaped, IsProc, Sees
  <1>3. x \notin {"claim.claim", "claim.consume"}
    OBVIOUS
  <1> QED BY <1>1, <1>2, <1>3 DEF ProcMono, Contender

LEMMA SeesKeeps ==
    ASSUME NativeInv, NEW p \in Procs, proc[p].pc \in Seeing \cup {"lr"}, NEW x \in Seeing, NEW s, Sees(p, x, s),
           UNCHANGED host, ChildMono(p), CtlMono, CtlStep \/ ControlOK', LockMono(p),
           \/ child'[p] = child[p]
           \/ /\ child[p].state # "none" /\ child'[p].released = child[p].released /\ child'[p].loaded = child[p].loaded
              /\ child'[p].state = "exited",
           s.obs = "exited" => \E q \in Procs : proc[q].claimed /\ child'[q].state = "exited",
           s.obs = "running" => H(p).identity # NoProc,
           s.lease \in {"completed", "failed"} => ctl'.lease = s.lease /\ ctl'.reason = s.reason
    PROVE  NativeInv'
  <1>1. ProcMono(p)
    BY SeesMono
  <1>2. /\ proc'[p].op = proc[p].op /\ proc'[p].root = proc[p].root /\ proc'[p].lease = proc[p].lease
        /\ proc'[p].claimed = proc[p].claimed /\ proc'[p].carried = proc[p].carried /\ proc'[p].row = proc[p].row
        /\ proc'[p].fresh = proc[p].fresh /\ proc'[p].ok = proc[p].ok /\ proc'[p].no = proc[p].no
        /\ proc'[p].then = proc[p].then /\ proc'[p].pc = x /\ proc'[p].seen = s
    BY DEF Sees, Moved, ProcFields
  <1>3. /\ OwnOK(p) /\ HostMono(p) /\ proc[p].op \in {"local", "localreconcile"}
        /\ (child[p].state # "none" => child[p] # NoChild)
    BY HostSame DEF NativeInv, OwnOK, FlowOK, NoChild
  <1>4. s.obs = "exited" => \E q \in Procs : Exited(q)'
    BY <1>1, <1>2 DEF Exited, ProcMono
  <1>5. OwnOK(p)'
    <2>1. FlowOK(proc[p])'
      BY <1>2, <1>3, <1>4 DEF Turns, OwnOK, FlowOK, CallStill, DocsStill
    <2>2. LaunchOK(proc[p])'
      BY <1>2, <1>3, <1>4 DEF Turns, OwnOK, LaunchOK, Recorded, Fact, CtlStep, CtlMono, CallStill, DocsStill
    <2>3. ChildOK(proc[p], child[p])'
      BY <1>2, <1>3, <1>4 DEF Turns, OwnOK, ChildOK, CallStill, DocsStill
    <2>4. RecordedOK(p, proc[p], child[p])'
      BY <1>2, <1>3, <1>4 DEF Turns, OwnOK, RecordedOK, Recorded, Fact, CtlStep, CtlMono, CallStill, DocsStill
    <2>5. FilesOK(p, proc[p], H(p), child[p])'
      BY <1>2, <1>3, <1>4 DEF Turns, OwnOK, FilesOK, PreIntent, PastIntent, H, Put, CallStill, DocsStill
    <2>6. CarryOK(proc[p], H(p))'
      BY <1>2, <1>3, <1>4 DEF Turns, OwnOK, CarryOK, H, Put, CallStill, DocsStill
    <2>7. EvidenceOK(proc[p])'
      BY <1>2, <1>3, <1>4
      DEF Turns, OwnOK, EvidenceOK, SettledAs, DocsOK, CtlStep, CtlMono, H, Put, CallStill, DocsStill
    <2> QED BY <2>1, <2>2, <2>3, <2>4, <2>5, <2>6, <2>7 DEF OwnOK
  <1> QED BY <1>1, <1>3, <1>5, Settles

(* What it saw, and then nothing but the counter moves.                    *)
LEMMA SeesOn ==
    ASSUME NativeInv, NEW p \in Procs, proc[p].pc \in Seeing, NEW x \in Seeing, Goto(p, x), UNCHANGED <<ctl, host, child>>
    PROVE  NativeInv'
  <1>1. PICK s : s = proc[p].seen
    OBVIOUS
  <1>2. Sees(p, x, s)
    BY Zenon, <1>1, GotoMoves DEF Sees, Moved, ProcFields, NativeInv, Shaped, IsProc
  <1>3. CtlStep /\ LockMono(p) /\ ChildMono(p) /\ child'[p] = child[p]
    BY SameCtl, ChildSame
  <1>4. /\ s.obs = "exited" => \E q \in Procs : Exited(q)
        /\ s.obs = "running" => H(p).identity # NoProc
        /\ s.lease \in {"completed", "failed"} => ctl.lease = s.lease /\ ctl.reason = s.reason
    BY <1>1 DEF NativeInv, OwnOK, EvidenceOK, H
  <1> QED BY <1>2, <1>3, <1>4, SeesKeeps DEF Exited, CtlStep

LEMMA LocalReconcileKeeps ==
    ASSUME NativeInv, NEW p \in Procs, LocalReconcile(p)
    PROVE  NativeInv'
  <1>1. /\ proc[p].pc = "begin" /\ proc[p].op = "localreconcile" /\ UNCHANGED <<ctl, host, child>>
        /\ ~proc[p].claimed /\ child[p] = NoChild
    BY DEF LocalReconcile, At, NativeInv, OwnOK, FlowOK, ChildOK
  <1>2. PICK x \in {"refused", "lr"} : proc' = [proc EXCEPT ![p].pc = x, ![p].ok = "done", ![p].no = "done"]
    BY Zenon DEF LocalReconcile
  <1>3. /\ Moved(p, Free)
       /\ proc'[p].pc = x /\ proc'[p].ok = "done" /\ proc'[p].no = "done"
       /\ proc'[p].lost = proc[p].lost /\ proc'[p].doc = proc[p].doc /\ proc'[p].report = proc[p].report /\ proc'[p].then = proc[p].then
    <2>1. PICK s, t : s = proc[p] /\ t = proc'[p]
      OBVIOUS
    <2>2. Rec(proc, Procs) /\ Rec(proc[p], ProcFields)
      BY DEF NativeInv, Shaped, IsProc
    <2>3. /\ Rec(proc', Procs) /\ \A q \in Procs \ {p} : proc'[q] = proc[q]
          /\ proc'[p] = [proc[p] EXCEPT !.pc = x, !.ok = "done", !.no = "done"]
      BY Zenon, <1>2, <2>2 DEF Rec
    <2>4. Rec(s, ProcFields) /\ t = [s EXCEPT !.pc = x, !.ok = "done", !.no = "done"]
      BY <2>1, <2>2, <2>3
    <2>5. /\ Rec(t, ProcFields) /\ t.pc = x /\ t.ok = "done" /\ t.no = "done"
          /\ \A f \in ProcFields \ {"pc", "ok", "no"} : t[f] = s[f]
      BY ONLY Zenon, <2>4 DEF Rec, ProcFields
    <2> QED BY <2>1, <2>3, <2>5 DEF Moved, Free, ProcFields
  <1>4. HostMono(p) /\ Held(p) /\ ChildMono(p) /\ child'[p] = child[p]
    BY <1>1, ReportFrame
  <1>5. Turns(p)
    BY <1>3, <1>4, TurningAsBefore DEF DocsStill
  <1>6. CtlStep /\ LockMono(p) /\ CtlMono
    BY <1>1, SameCtl DEF CtlStep
  <1>7. CASE x = "lr"
    <2>1. PICK out : out = proc'[p].doc.out
      OBVIOUS
    <2> QED BY Zenon, <1>1, <1>3, <1>4, <1>5, <1>6, <1>7, <2>1, LocalForward
  <1>8. CASE x = "refused"
    <2>1. OwnOK(p)'
      <3>1. FlowOK(proc[p])'
        BY <1>3, <1>4, <1>5, <1>6, <1>8 DEF Turns, OwnOK, FlowOK, CallStill, DocsStill, NoChild, Held
      <3>2. LaunchOK(proc[p])'
        BY <1>3, <1>4, <1>5, <1>6, <1>8
        DEF Turns, OwnOK, LaunchOK, Recorded, Fact, CtlStep, CtlMono, CallStill, DocsStill, NoChild, Held
      <3>3. ChildOK(proc[p], child[p])'
        BY <1>3, <1>4, <1>5, <1>6, <1>8 DEF Turns, OwnOK, ChildOK, CallStill, DocsStill, NoChild, Held
      <3>4. RecordedOK(p, proc[p], child[p])'
        BY <1>1, <1>3, <1>4, <1>5, <1>6, <1>8
        DEF Turns, OwnOK, RecordedOK, Recorded, Fact, CtlStep, CtlMono, CallStill, DocsStill, NoChild, Held
      <3>5. FilesOK(p, proc[p], H(p), child[p])'
        BY <1>3, <1>4, <1>5, <1>6, <1>8
        DEF Turns, OwnOK, FilesOK, PreIntent, PastIntent, H, Put, CallStill, DocsStill, NoChild, Held
      <3>6. CarryOK(proc[p], H(p))'
        BY <1>3, <1>4, <1>5, <1>6, <1>8 DEF Turns, OwnOK, CarryOK, H, Put, CallStill, DocsStill, NoChild, Held
      <3>7. EvidenceOK(proc[p])'
        BY <1>3, <1>4, <1>5, <1>6, <1>8
        DEF Turns, OwnOK, EvidenceOK, SettledAs, DocsOK, CtlStep, CtlMono, H, Put, CallStill, DocsStill, NoChild,
            Held
      <3> QED BY <3>1, <3>2, <3>3, <3>4, <3>5, <3>6, <3>7 DEF OwnOK
    <2> QED BY <1>4, <1>5, <1>6, <2>1, TurnEnds
  <1> QED BY <1>7, <1>8

LEMMA LocalObserveKeeps ==
    ASSUME NativeInv, NEW p \in Procs, LocalObserve(p)
    PROVE  NativeInv'
  <1>1. /\ proc[p].pc = "lr" /\ UNCHANGED <<ctl, host, child>> /\ proc[p].op \in {"local", "localreconcile"}
        /\ proc[p].ok \in {"done", "local.except"} /\ (proc[p].ok = "local.except" => proc[p].op = "local")
    BY DEF LocalObserve, At, NativeInv, OwnOK, FlowOK
  <1>2. CASE Goto(p, proc[p].ok)
    <2>1. PICK x : x = proc[p].ok
      OBVIOUS
    <2> QED BY <1>1, <1>2, <2>1, LocalLeaves DEF LocalPcs
  <1>3. CASE proc' = [proc EXCEPT ![p].pc = "lr.cancel", ![p].seen = Seen(p)]
    <2>1. PICK s : s = Seen(p)
      OBVIOUS
    <2>2. /\ Rec(s, SeenFields) /\ s.lease = ctl.lease /\ s.reason = ctl.reason
          /\ s.obs = IF H(p).identity = NoProc THEN "unknown" ELSE Observed(child[H(p).identity])
      BY <2>1 DEF Seen, Rec, SeenFields
    <2>3. Sees(p, "lr.cancel", s)
      <3>1. proc' = [proc EXCEPT ![p].pc = "lr.cancel", ![p].seen = s] /\ Rec(proc, Procs)
        BY <1>3, <2>1 DEF NativeInv, Shaped
      <3>2. /\ Rec(proc', Procs) /\ \A q \in Procs \ {p} : proc'[q] = proc[q]
            /\ proc'[p] = [proc[p] EXCEPT !.pc = "lr.cancel", !.seen = s]
        BY <3>1 DEF Rec
      <3> QED BY Zenon, <2>2, <3>2, SeesStep
    <2>4. CtlStep /\ LockMono(p) /\ ChildMono(p) /\ CtlMono
      BY <1>1, SameCtl, ChildSame DEF CtlStep
    <2>5. s.obs = "running" => H(p).identity # NoProc
      BY <2>2
    <2>6. s.obs = "exited" => \E q \in Procs : proc[q].claimed /\ child'[q].state = "exited"
      <3>1. SUFFICES ASSUME s.obs = "exited" PROVE \E q \in Procs : proc[q].claimed /\ child'[q].state = "exited"
        OBVIOUS
      <3>2. PICK q : q = H(p).identity
        OBVIOUS
      <3>3. q # NoProc /\ Observed(child[q]) = "exited"
        BY <2>2, <3>1, <3>2
      <3>4. q \in Procs /\ proc[q].claimed /\ child[q].state \in {"blocked", "user", "lingering", "exited"}
        BY <1>1, <3>2, <3>3, FoundProcess
      <3> QED BY <1>1, <3>3, <3>4 DEF Observed, Alive
    <2> QED BY <1>1, <2>2, <2>3, <2>4, <2>5, <2>6, SeesKeeps
  <1> QED BY <1>2, <1>3 DEF LocalObserve

LEMMA LocalCancelKeeps ==
    ASSUME NativeInv, NEW p \in Procs, LocalCancel(p)
    PROVE  NativeInv'
  <1>1. /\ proc[p].pc = "lr.cancel" /\ UNCHANGED <<host, child>> /\ proc[p].op \in {"local", "localreconcile"}
        /\ proc[p].no \in {"done", "local.except"} /\ (proc[p].no = "local.except" => proc[p].op = "local")
    BY DEF LocalCancel, LocalGo, At, NativeInv, OwnOK, FlowOK
  <1>2. CASE Goto(p, proc[p].no) /\ UNCHANGED ctl
    <2>1. PICK x : x = proc[p].no
      OBVIOUS
    <2> QED BY <1>1, <1>2, <2>1, LocalLeaves DEF LocalPcs
  <1>3. CASE LocalGo(p, "lr.stop")
    BY <1>1, <1>3, SeesOn DEF LocalGo
  <1>4. CASE /\ CanAppend("local", "run.cancel.requested") /\ ctl' = Appended("local", "run.cancel.requested")
             /\ proc' = [proc EXCEPT ![p].pc = "lr.stop", ![p].seen.requested = TRUE]
    <2>1. PICK r, s : r = proc[p].seen /\ s = [r EXCEPT !.requested = TRUE]
      BY Zenon
    <2>2. Rec(r, SeenFields) /\ Rec(proc, Procs) /\ Rec(proc[p], ProcFields)
      BY <1>1, <2>1 DEF NativeInv, Shaped, IsProc
    <2>3. Rec(s, SeenFields) /\ s.obs = r.obs /\ s.lease = r.lease /\ s.reason = r.reason
      BY ONLY Zenon, <2>1, <2>2 DEF Rec, SeenFields
    <2>4. /\ Rec(proc', Procs) /\ \A q \in Procs \ {p} : proc'[q] = proc[q]
          /\ proc'[p] = [proc[p] EXCEPT !.pc = "lr.stop", !.seen = s]
      BY Zenon, <1>4, <2>1, <2>2 DEF Rec, ProcFields
    <2>5. Sees(p, "lr.stop", s)
      BY Zenon, <2>3, <2>4, SeesStep
    <2>6. "run.cancel.requested" \in DraftTypes /\ Backed("run.cancel.requested")
      BY DEF DraftTypes, Backed
    <2>7. CtlStep /\ LockMono(p) /\ ctl'.lease = ctl.lease /\ ctl'.reason = ctl.reason /\ CtlMono
      BY <1>1, <1>4, <2>6, AppendsUnlocked DEF CtlStep
    <2>8. ChildMono(p) /\ child'[p] = child[p]
      BY <1>1, ChildSame
    <2>9. /\ s.obs = "exited" => \E q \in Procs : Exited(q)
          /\ s.obs = "running" => H(p).identity # NoProc
          /\ s.lease \in {"completed", "failed"} => ctl.lease = s.lease /\ ctl.reason = s.reason
      BY <1>1, <2>1, <2>3 DEF NativeInv, OwnOK, EvidenceOK, H
    <2>10. s.obs = "exited" => \E q \in Procs : proc[q].claimed /\ child'[q].state = "exited"
      BY <1>1, <2>9 DEF Exited
    <2> QED BY <1>1, <2>5, <2>7, <2>8, <2>9, <2>10, SeesKeeps
  <1> QED BY <1>2, <1>3, <1>4 DEF LocalCancel

LEMMA LocalStopKeeps ==
    ASSUME NativeInv, NEW p \in Procs, LocalStop(p)
    PROVE  NativeInv'
  <1>1. /\ proc[p].pc = "lr.stop" /\ UNCHANGED <<ctl, host>> /\ proc[p].op \in {"local", "localreconcile"}
    BY Zenon DEF LocalStop, At, NativeInv, OwnOK, FlowOK
  <1>2. PICK r, q : r = proc[p].seen /\ q = H(p).identity
    OBVIOUS
  <1>3. CASE Goto(p, "lr.fail") /\ UNCHANGED child
    BY <1>1, <1>3, SeesOn
  <1>4. ASSUME r.obs = "running", NEW seen \in BOOLEAN, child' = [child EXCEPT ![q] = Stopped(child[q], seen)],
               proc' = [proc EXCEPT ![p].pc = "lr.fail", ![p].seen.obs = IF seen THEN "exited" ELSE "unknown"]
        PROVE  NativeInv'
    <2>1. /\ Rec(r, SeenFields) /\ q # NoProc /\ Rec(proc, Procs) /\ Rec(proc[p], ProcFields)
          /\ r.lease \in {"completed", "failed"} => ctl.lease = r.lease /\ ctl.reason = r.reason
      BY Zenon, <1>1, <1>2, <1>4 DEF NativeInv, Shaped, IsProc, OwnOK, EvidenceOK, H
    <2>2. q \in Procs /\ proc[q].claimed /\ child[q].state # "none" /\ Rec(child[q], ChildFields) /\ proc[q].pc \notin Blocked
      BY <1>1, <1>2, <2>1, FoundProcess
    <2>3. PICK c, d : c = child[q] /\ d = Stopped(c, seen)
      OBVIOUS
    <2>4. /\ d = c \/ (d.state = "exited" /\ d.released = c.released /\ d.loaded = c.loaded)
          /\ seen => d.state = "exited"
      BY ONLY <2>2, <2>3 DEF Stopped, Rec, ChildFields
    <2>5. ChildMono(p) /\ child'[q] = d /\ \A u \in Procs \ {q} : child'[u] = child[u]
      <3>1. ChildMono(p) /\ child'[q] = Stopped(child[q], seen) /\ \A u \in Procs \ {q} : child'[u] = child[u]
        BY Zenon, <1>4, <2>2, StoppedChild
      <3> QED BY <2>3, <3>1
    <2>6. \/ child'[p] = child[p]
          \/ /\ child[p].state # "none" /\ child'[p].released = child[p].released /\ child'[p].loaded = child[p].loaded
             /\ child'[p].state = "exited"
      BY <2>2, <2>3, <2>4, <2>5
    <2>7. PICK o \in {"exited", "unknown"} : o = (IF seen THEN "exited" ELSE "unknown")
      OBVIOUS
    <2>8. PICK s : s = [r EXCEPT !.obs = o]
      BY Zenon
    <2>9. Rec(s, SeenFields) /\ s.obs = o /\ s.lease = r.lease /\ s.reason = r.reason
      BY ONLY <2>1, <2>8 DEF Rec, SeenFields
    <2>10. proc' = [proc EXCEPT ![p].pc = "lr.fail", ![p].seen.obs = o]
      BY <1>4, <2>7
    <2>11. /\ Rec(proc', Procs) /\ \A u \in Procs \ {p} : proc'[u] = proc[u]
           /\ proc'[p] = [proc[p] EXCEPT !.pc = "lr.fail", !.seen = s]
      BY Zenon, <1>2, <2>1, <2>8, <2>10 DEF Rec, ProcFields
    <2>12. Sees(p, "lr.fail", s)
      BY Zenon, <2>9, <2>11, SeesStep
    <2>13. CtlStep /\ LockMono(p) /\ CtlMono
      BY <1>1, SameCtl DEF CtlStep
    <2>14. s.obs = "exited" => \E u \in Procs : proc[u].claimed /\ child'[u].state = "exited"
      BY <2>2, <2>4, <2>5, <2>7, <2>9
    <2>15. /\ s.obs # "running"
           /\ s.lease \in {"completed", "failed"} => ctl'.lease = s.lease /\ ctl'.reason = s.reason
      BY <1>1, <2>1, <2>7, <2>9
    <2> QED BY <1>1, <2>5, <2>6, <2>12, <2>13, <2>14, <2>15, SeesKeeps
  <1> QED BY <1>2, <1>3, <1>4 DEF LocalStop

LEMMA LocalFailKeeps ==
    ASSUME NativeInv, NEW p \in Procs, LocalFail(p)
    PROVE  NativeInv'
  <1>1. /\ proc[p].pc = "lr.fail" /\ UNCHANGED <<host, child>> /\ proc[p].op \in {"local", "localreconcile"}
        /\ proc[p].no \in {"done", "local.except"} /\ (proc[p].no = "local.except" => proc[p].op = "local")
    BY DEF LocalFail, At, NativeInv, OwnOK, FlowOK
  <1>2. PICK r : r = proc[p].seen
    OBVIOUS
  <1>3. CASE Goto(p, proc[p].no) /\ UNCHANGED ctl
    <2>1. PICK x : x = proc[p].no
      OBVIOUS
    <2> QED BY <1>1, <1>3, <2>1, LocalLeaves DEF LocalPcs
  <1>4. CASE Goto(p, "lr.settle") /\ UNCHANGED ctl
    BY <1>1, <1>4, SeesOn
  <1>5. CASE /\ r.obs = "exited" /\ CanSettleCancelled /\ ctl' = SettledCancelled
             /\ proc' = [proc EXCEPT ![p].pc = "lr.settle", ![p].seen.lease = "failed",
                                     ![p].seen.reason = "cancel-observed"]
    <2>1. Rec(r, SeenFields) /\ Rec(proc, Procs) /\ Rec(proc[p], ProcFields) /\ \E q \in Procs : Exited(q)
      BY Zenon, <1>1, <1>2, <1>5 DEF NativeInv, Shaped, IsProc, OwnOK, EvidenceOK
    <2>2. PICK s : s = [r EXCEPT !.lease = "failed", !.reason = "cancel-observed"]
      OBVIOUS
    <2>3. Rec(s, SeenFields) /\ s.obs = r.obs /\ s.lease = "failed" /\ s.reason = "cancel-observed"
      BY ONLY Zenon, <2>1, <2>2 DEF Rec, SeenFields
    <2>4. /\ Rec(proc', Procs) /\ \A q \in Procs \ {p} : proc'[q] = proc[q]
          /\ proc'[p] = [proc[p] EXCEPT !.pc = "lr.settle", !.seen = s]
      BY Zenon, <1>2, <1>5, <2>1, <2>2 DEF Rec, ProcFields
    <2>5. Sees(p, "lr.settle", s)
      BY Zenon, <2>3, <2>4, SeesStep
    <2>6. ProcMono(p) /\ ChildMono(p) /\ child'[p] = child[p]
      BY <1>1, <2>5, SeesMono, ChildSame
    <2>7. /\ CtlMono /\ (CtlStep \/ ControlOK') /\ ctl'.lock = ctl.lock
          /\ ctl'.lease = "failed" /\ ctl'.reason = "cancel-observed"
      BY <1>5, <2>1, <2>6, SettlesCancelled
    <2>8. LockMono(p)
      BY <1>1, <2>7, ControlAssumption DEF LockMono, NativeInv, LockOK
    <2>9. \E q \in Procs : proc[q].claimed /\ child'[q].state = "exited"
      BY <1>1, <2>1 DEF Exited
    <2> QED BY <1>1, <1>5, <2>3, <2>5, <2>6, <2>7, <2>8, <2>9, SeesKeeps
  <1> QED BY <1>2, <1>3, <1>4, <1>5 DEF LocalFail

(* An outcome it reports is the one the lease was settled as.              *)
LEMMA LocalOutcomeSettled ==
    ASSUME NativeInv, NEW p \in Procs, proc[p].pc = "lr.settle", NEW out, out = LocalOutcome(proc[p].seen), out # "unknown"
    PROVE  SettledAs(out)
  <1>1. PICK s : s = proc[p].seen
    OBVIOUS
  <1>2. s.lease \in {"completed", "failed"} => ctl.lease = s.lease /\ ctl.reason = s.reason
    BY <1>1 DEF NativeInv, OwnOK, EvidenceOK
  <1>3. \/ out = "completed" /\ s.lease = "completed"
        \/ out = "cancelled" /\ s.lease = "failed" /\ s.reason = "cancel-observed"
        \/ out = "failed" /\ s.lease = "failed" /\ s.reason = "native-task-failed"
    BY <1>1 DEF LocalOutcome
  <1> QED BY <1>2, <1>3 DEF SettledAs

LEMMA LocalDecideKeeps ==
    ASSUME NativeInv, NEW p \in Procs, LocalDecide(p)
    PROVE  NativeInv'
  <1>1. /\ proc[p].pc = "lr.settle" /\ UNCHANGED <<ctl, host, child>> /\ proc[p].op \in {"local", "localreconcile"}
        /\ \/ proc[p].op = "local" /\ proc[p].ok = "local.except" /\ proc[p].no = "local.except"
           \/ proc[p].op = "localreconcile" /\ proc[p].ok = "done" /\ proc[p].no = "done"
    BY DEF LocalDecide, At, NativeInv, OwnOK, FlowOK
  <1>2. HostMono(p) /\ Held(p) /\ ChildMono(p) /\ child'[p] = child[p]
    BY <1>1, ReportFrame
  <1>3. CtlStep /\ LockMono(p) /\ CtlMono
    BY <1>1, SameCtl DEF CtlStep
  <1>4. PICK out : out = LocalOutcome(proc[p].seen)
    OBVIOUS
  <1>5. CASE out # "unknown"
    <2>1. PICK d : d = Document(p, "exited", out)
      OBVIOUS
    <2>2. Rec(d, DocFields) /\ d.out = out
      BY <2>1 DEF Document, Rec, DocFields
    <2>3. proc' = [proc EXCEPT ![p].pc = "lr.attempt", ![p].doc = d]
      BY <1>4, <1>5, <2>1 DEF LocalDecide
    <2>4. /\ Moved(p, Free)
         /\ proc'[p].pc = "lr.attempt" /\ proc'[p].doc = d
         /\ proc'[p].ok = proc[p].ok /\ proc'[p].no = proc[p].no /\ proc'[p].lost = proc[p].lost /\ proc'[p].report = proc[p].report /\ proc'[p].then = proc[p].then
      <3>1. PICK s, t : s = proc[p] /\ t = proc'[p]
        OBVIOUS
      <3>2. Rec(proc, Procs) /\ Rec(proc[p], ProcFields)
        BY DEF NativeInv, Shaped, IsProc
      <3>3. /\ Rec(proc', Procs) /\ \A q \in Procs \ {p} : proc'[q] = proc[q]
            /\ proc'[p] = [proc[p] EXCEPT !.pc = "lr.attempt", !.doc = d]
        BY <2>3, <3>2 DEF Rec
      <3>4. Rec(s, ProcFields) /\ t = [s EXCEPT !.pc = "lr.attempt", !.doc = d]
        BY <3>1, <3>2, <3>3
      <3>5. /\ Rec(t, ProcFields) /\ t.pc = "lr.attempt" /\ t.doc = d
            /\ \A f \in ProcFields \ {"pc", "doc"} : t[f] = s[f]
        BY ONLY Zenon, <3>4 DEF Rec, ProcFields
      <3> QED BY <3>1, <3>3, <3>5 DEF Moved, Free, ProcFields
    <2>5. PICK r : r = proc[p].report
      OBVIOUS
    <2>6. Rec(r, DocFields)
      BY <2>5 DEF NativeInv, Shaped, IsProc
    <2>7. Turns(p)
      BY <1>1, <1>2, <2>2, <2>4, <2>5, <2>6, Turning
    <2>8. SettledAs(out)' /\ proc'[p].doc.out = out
      BY <1>1, <1>4, <1>5, <2>2, <2>4, LocalOutcomeSettled DEF SettledAs
    <2> QED BY <1>1, <1>2, <1>3, <2>4, <2>7, <2>8, LocalForward DEF LocalPcs
  <1>6. CASE out = "unknown"
    <2>1. PICK x \in {proc[p].ok, "lr.started", "lr.unknown"} : Goto(p, x)
      BY Zenon, <1>4, <1>6 DEF LocalDecide, Goto
    <2>2. CASE x = proc[p].ok
      BY <1>1, <2>1, <2>2, LocalLeaves DEF LocalPcs
    <2>3. CASE x \in {"lr.started", "lr.unknown"}
      <3>1. Turns(p) /\ proc'[p].pc = x /\ CallStill(p) /\ proc'[p].then = proc[p].then
        BY <1>2, <2>1, <2>3, GotoTurns
      <3>2. PICK o : o = proc'[p].doc.out
        OBVIOUS
      <3> QED BY <1>1, <1>2, <1>3, <2>3, <3>1, <3>2, LocalForward DEF LocalPcs, CallStill
    <2> QED BY <2>1, <2>2, <2>3
  <1> QED BY <1>5, <1>6

(* The facts of the reconciler: an append that goes on, or one that leaves. *)
LEMMA AppendOnceKeeps ==
    ASSUME NativeInv, NEW p \in Procs, proc[p].pc \in {"lr.attempt", "lr.run", "lr.started", "lr.unknown"},
           NEW t \in DraftTypes, Backed(t), NEW next, AppendOnce(p, t, next),
           \/ next = "lr.run" /\ proc[p].pc = "lr.attempt"
           \/ next = "lr.unknown"
           \/ next = proc[p].ok
    PROVE  NativeInv'
  <1>1. /\ UNCHANGED <<host, child>> /\ proc[p].op \in {"local", "localreconcile"}
        /\ \/ proc[p].op = "local" /\ proc[p].ok = "local.except" /\ proc[p].no = "local.except"
           \/ proc[p].op = "localreconcile" /\ proc[p].ok = "done" /\ proc[p].no = "done"
    BY DEF AppendOnce, NativeInv, OwnOK, FlowOK
  <1>2. CASE Goto(p, proc[p].no) /\ UNCHANGED ctl
    <2>1. PICK x : x = proc[p].no
      OBVIOUS
    <2> QED BY <1>1, <1>2, <2>1, LocalLeaves DEF LocalPcs
  <1>3. CASE CanAppend("local", t) /\ ctl' = Appended("local", t) /\ Goto(p, next)
    <2>1. CASE next = proc[p].ok
      BY <1>1, <1>3, <2>1, LocalRecords DEF LocalPcs
    <2>2. CASE next \in {"lr.run", "lr.unknown"} /\ (next = "lr.run" => proc[p].pc = "lr.attempt")
      <3>1. /\ CtlStep /\ LockMono(p) /\ ctl'.lease = ctl.lease /\ ctl'.reason = ctl.reason /\ CtlMono
        BY <1>3, AppendsUnlocked DEF CtlStep
      <3>2. HostMono(p) /\ Held(p) /\ ChildMono(p) /\ child'[p] = child[p]
        BY <1>1, HostSame, ChildSame DEF Held
      <3>3. Turns(p) /\ proc'[p].pc = next /\ DocsStill(p) /\ CallStill(p) /\ proc'[p].then = proc[p].then
        BY <1>3, <2>2, <3>2, GotoTurns
      <3>4. PICK out : out = proc[p].doc.out
        OBVIOUS
      <3>5. next = "lr.run" => SettledAs(out)
        BY <2>2, <3>4 DEF NativeInv, OwnOK, EvidenceOK
      <3>6. (next = "lr.run" => SettledAs(out)') /\ proc'[p].doc.out = out
        BY <3>1, <3>3, <3>4, <3>5 DEF SettledAs, DocsStill
      <3> QED BY <1>1, <2>2, <3>1, <3>2, <3>3, <3>6, LocalForward DEF LocalPcs, CallStill
    <2> QED BY <2>1, <2>2
  <1> QED BY <1>2, <1>3 DEF AppendOnce

LEMMA LocalReconcileFactsKeeps ==
    ASSUME NativeInv, NEW p \in Procs, LocalReconcileFacts(p)
    PROVE  NativeInv'
  <1>1. PICK out, a, b : out = proc[p].doc.out /\ a = FinalTypes(out)[1] /\ b = FinalTypes(out)[2]
    OBVIOUS
  <1>2. proc[p].pc \in {"lr.attempt", "lr.run"} => /\ a \in DraftTypes /\ Backed(a)
                                                   /\ b \in DraftTypes /\ Backed(b)
    BY Zenon, <1>1, FinalTypesBacked DEF NativeInv, OwnOK, EvidenceOK
  <1>3. /\ "attempt.started" \in DraftTypes /\ Backed("attempt.started")
        /\ "attempt.unknown" \in DraftTypes /\ Backed("attempt.unknown")
    BY DEF DraftTypes, Backed
  <1>4. CASE At(p, "lr.attempt") /\ AppendOnce(p, a, "lr.run")
    BY <1>2, <1>4, AppendOnceKeeps DEF At
  <1>5. CASE At(p, "lr.run") /\ AppendOnce(p, b, proc[p].ok)
    BY <1>2, <1>5, AppendOnceKeeps DEF At
  <1>6. CASE At(p, "lr.started") /\ AppendOnce(p, "attempt.started", "lr.unknown")
    BY <1>3, <1>6, AppendOnceKeeps DEF At
  <1>7. CASE At(p, "lr.unknown") /\ AppendOnce(p, "attempt.unknown", proc[p].ok)
    BY <1>3, <1>7, AppendOnceKeeps DEF At
  <1> QED BY <1>1, <1>4, <1>5, <1>6, <1>7 DEF LocalReconcileFacts

LEMMA LocalStepKeeps ==
    ASSUME NativeInv, NEW p \in Procs, LocalStep(p)
    PROVE  NativeInv'
  BY LocalCheckKeeps, LocalIntentKeeps, LocalQueueKeeps, LocalStartedKeeps, LocalSpawnKeeps, LocalIdentityKeeps, LocalReleaseKeeps, LocalCollectKeeps, LocalSettleKeeps, LocalAttemptKeeps, LocalRunKeeps, LocalExceptKeeps, LocalLateKeeps, LocalUnknownKeeps, LocalReconcileKeeps, LocalObserveKeeps, LocalCancelKeeps, LocalStopKeeps, LocalFailKeeps, LocalDecideKeeps, LocalReconcileFactsKeeps
  DEF LocalStep

-----------------------------------------------------------------------------
(* Children end on their own.                                              *)
LEMMA ChildEnds ==
    ASSUME NativeInv, NEW p \in Procs, UNCHANGED <<ctl, proc, host>>, child[p].state \in {"user", "lingering"},
           Rec(child', Procs), \A q \in Procs \ {p} : child'[q] = child[q], Rec(child'[p], ChildFields),
           child'[p].released = child[p].released, child'[p].loaded = child[p].loaded,
           child'[p].state \in {"lingering", "exited"}
    PROVE  NativeInv'
  <1>1. OwnOK(p) /\ child[p] # NoChild /\ Shaped
    BY DEF NativeInv, NoChild
  <1>2. ChildMono(p)
    BY <1>1 DEF ChildMono, Shaped
  <1>3. ProcMono(p) /\ HostMono(p) /\ CtlStep /\ LockMono(p)
    BY <1>1, HostSame, SameCtl DEF ProcMono, Shaped
  <1>4. \A d : DocOK(d) => DocOK(d)'
    BY <1>1, <1>2, <1>3, DocStays
  <1>5. DocsOK(p)'
    BY <1>1 DEF DocsOK, OwnOK, EvidenceOK, DocOK, Exited
  <1>6. proc[p].pc \in Seeing => (proc[p].seen.obs = "exited" => \E q \in Procs : Exited(q)')
    BY <1>1, <1>3, ExitStays DEF OwnOK, EvidenceOK, Exited
  <1>7. OwnOK(p)'
    <2>1. FlowOK(proc[p])'
      BY <1>1, <1>3, <1>5, <1>6 DEF Turns, OwnOK, FlowOK, CallStill, DocsStill
    <2>2. LaunchOK(proc[p])'
      BY <1>1, <1>3, <1>5, <1>6 DEF Turns, OwnOK, LaunchOK, Recorded, Fact, CtlStep, CtlMono, CallStill, DocsStill
    <2>3. ChildOK(proc[p], child[p])'
      BY <1>1, <1>3, <1>5, <1>6 DEF Turns, OwnOK, ChildOK, CallStill, DocsStill
    <2>4. RecordedOK(p, proc[p], child[p])'
      BY <1>1, <1>3, <1>5, <1>6 DEF Turns, OwnOK, RecordedOK, Recorded, Fact, CtlStep, CtlMono, CallStill, DocsStill
    <2>5. FilesOK(p, proc[p], H(p), child[p])'
      BY <1>1, <1>3, <1>5, <1>6 DEF Turns, OwnOK, FilesOK, PreIntent, PastIntent, H, Put, CallStill, DocsStill
    <2>6. CarryOK(proc[p], H(p))'
      BY Zenon, <1>1, <1>3, <1>5, <1>6 DEF Turns, OwnOK, CarryOK, H, Put, CallStill, DocsStill
    <2>7. EvidenceOK(proc[p])'
      BY <1>1, <1>3, <1>5, <1>6
      DEF Turns, OwnOK, EvidenceOK, SettledAs, DocsOK, CtlStep, CtlMono, H, Put, CallStill, DocsStill
    <2> QED BY <2>1, <2>2, <2>3, <2>4, <2>5, <2>6, <2>7 DEF OwnOK
  <1> QED BY <1>2, <1>3, <1>7, StepOK

LEMMA ChildStepKeeps ==
    ASSUME NativeInv, NEW p \in Procs, ChildStep(p)
    PROVE  NativeInv'
  <1>1. Rec(child, Procs) /\ Rec(child[p], ChildFields)
    BY DEF NativeInv, Shaped
  <1>2. CASE UserEnds(p)
    <2>1. PICK s \in {"lingering", "exited"}, c \in {0, 1} : child' = [child EXCEPT ![p].state = s, ![p].code = c]
      BY Zenon, <1>2 DEF UserEnds
    <2>2. /\ Rec(child', Procs) /\ \A q \in Procs \ {p} : child'[q] = child[q]
          /\ child'[p] = [child[p] EXCEPT !.state = s, !.code = c]
      BY Zenon, <1>1, <2>1 DEF Rec
    <2>3. Rec(child'[p], ChildFields) /\ child'[p].released = child[p].released /\ child'[p].loaded = child[p].loaded
          /\ child'[p].state = s
      BY Zenon, <1>1, <2>2 DEF Rec, ChildFields
    <2> QED BY Zenon, <1>2, <2>2, <2>3, ChildEnds DEF UserEnds
  <1>3. CASE LingeringEnds(p)
    <2>1. /\ Rec(child', Procs) /\ \A q \in Procs \ {p} : child'[q] = child[q]
          /\ child'[p] = [child[p] EXCEPT !.state = "exited"]
      BY <1>1, <1>3 DEF Rec, LingeringEnds
    <2>2. Rec(child'[p], ChildFields) /\ child'[p].released = child[p].released /\ child'[p].loaded = child[p].loaded
          /\ child'[p].state = "exited"
      BY <1>1, <2>1 DEF Rec, ChildFields
    <2> QED BY Zenon, <1>3, <2>1, <2>2, ChildEnds DEF LingeringEnds
  <1> QED BY <1>2, <1>3 DEF ChildStep

-----------------------------------------------------------------------------
(* A process stops wherever it is.                                         *)
LEMMA CrashHost ==
    ASSUME NativeInv, NEW p \in Procs, Crash(p)
    PROVE  /\ HostMono(p)
           /\ LET h == host[proc[p].root]
                  k == host'[proc[p].root]
              IN  /\ k.intent = h.intent /\ k.claim = h.claim /\ k.identity = h.identity
                  /\ k.start = h.start /\ k.differs = h.differs /\ k.journal = h.journal
  <1>1. PICK r : r = proc[p].root
    OBVIOUS
  <1>2. Rec(host, Roots) /\ r \in Roots /\ \A t \in Roots : IsHost(host[t])
    BY <1>1 DEF NativeInv, Shaped, IsProc
  <1>3. PICK h, k : h = host[r] /\ k = host'[r]
    OBVIOUS
  <1>4. /\ Rec(host', Roots) /\ \A t \in Roots \ {r} : host'[t] = host[t]
        /\ k = [h EXCEPT !.lock = IF h.lock = p THEN NoProc ELSE h.lock,
                         !.prepare = IF h.prepare = p THEN NoProc ELSE h.prepare]
    BY Zenon, <1>1, <1>2, <1>3 DEF Crash, Rec, IsHost, HostFields
  <1>5. PICK a, b : a = (IF h.lock = p THEN NoProc ELSE h.lock) /\ b = (IF h.prepare = p THEN NoProc ELSE h.prepare)
    OBVIOUS
  <1>6. Rec(h, HostFields) /\ Rec(h.journal, JournalFields) /\ k = [h EXCEPT !.lock = a, !.prepare = b]
    BY <1>2, <1>3, <1>4, <1>5 DEF IsHost
  <1>7. /\ Rec(k, HostFields) /\ k.lock = a /\ k.prepare = b
        /\ k.intent = h.intent /\ k.claim = h.claim /\ k.identity = h.identity /\ k.start = h.start
        /\ k.differs = h.differs /\ k.journal = h.journal /\ k.outcome = h.outcome /\ k.cancelled = h.cancelled
    BY ONLY Zenon, <1>6 DEF Rec, HostFields
  <1>8. (a = h.lock \/ h.lock = p) /\ (b = h.prepare \/ h.prepare = p)
    BY <1>5
  <1>9. IsHost(k)
    BY <1>6, <1>7 DEF IsHost
  <1>10. HostMono(p)
    <2>1. Rec(host', Roots)
      BY <1>4
    <2>2. ASSUME NEW t \in Roots \ {r} PROVE host'[t] = host[t] /\ IsHost(host[t])
      BY <1>2, <1>4
    <2>3. IsHost(host'[r]) /\ host'[r] = k /\ host[r] = h
      BY <1>3, <1>9
    <2> QED BY <1>7, <1>8, <2>1, <2>2, <2>3 DEF HostMono
  <1> QED BY <1>1, <1>3, <1>7, <1>10

LEMMA CrashKeeps ==
    ASSUME NativeInv, NEW p \in Procs, Crash(p)
    PROVE  NativeInv'
  <1>1. /\ proc[p].pc \notin {"begin", "write", "carry", "done", "refused", "dead"} /\ Goto(p, "dead")
        /\ ctl' = Unlocked(p, ctl)
    BY DEF Crash, Unlocked
  <1>2. CtlStep /\ LockMono(p)
    BY <1>1, RefuseCtl
  <1>3. /\ HostMono(p)
        /\ host'[proc[p].root].intent = host[proc[p].root].intent /\ host'[proc[p].root].claim = host[proc[p].root].claim
        /\ host'[proc[p].root].identity = host[proc[p].root].identity
        /\ host'[proc[p].root].start = host[proc[p].root].start
        /\ host'[proc[p].root].differs = host[proc[p].root].differs
        /\ host'[proc[p].root].journal = host[proc[p].root].journal
    BY CrashHost
  <1>4. PICK c, d : c = child[p] /\ d = child'[p]
    OBVIOUS
  <1>5. Rec(child, Procs) /\ \A q \in Procs : Rec(child[q], ChildFields)
    BY DEF NativeInv, Shaped
  <1>6. /\ Rec(child', Procs) /\ \A q \in Procs \ {p} : child'[q] = child[q]
        /\ d = [c EXCEPT !.state = IF c.state = "blocked" THEN "exited" ELSE c.state]
    BY Zenon, <1>4, <1>5 DEF Crash, Rec, ChildFields
  <1>7. /\ Rec(c, ChildFields) /\ Rec(d, ChildFields) /\ d.released = c.released /\ d.loaded = c.loaded /\ d.code = c.code
        /\ d.state = IF c.state = "blocked" THEN "exited" ELSE c.state
        /\ d = c \/ (c.state = "blocked" /\ d.state = "exited")
    <2>1. Rec(c, ChildFields)
      BY <1>4, <1>5
    <2> QED BY ONLY <1>6, <2>1 DEF Rec, ChildFields
  <1>8. ChildMono(p)
    BY Zenon, <1>4, <1>5, <1>6, <1>7 DEF ChildMono
  <1>9. \/ child'[p] = child[p]
        \/ child[p].state = "blocked" /\ child'[p].state = "exited" /\ child'[p].released = child[p].released
           /\ child'[p].loaded = child[p].loaded
    BY <1>4, <1>7
  <1>10. Turns(p) /\ proc'[p].pc = "dead" /\ CallStill(p) /\ DocsStill(p) /\ proc'[p].then = proc[p].then
    BY <1>1, <1>8, GotoTurns
  <1>11. child[p].state = "blocked" => child[p] # NoChild
    BY DEF NoChild
  <1>12. OwnOK(p)'
    <2>1. FlowOK(proc[p])'
      BY <1>3, <1>9, <1>10, <1>11 DEF Turns, OwnOK, FlowOK, CallStill, DocsStill
    <2>2. LaunchOK(proc[p])'
      BY Zenon, <1>2, <1>3, <1>9, <1>10, <1>11
      DEF Turns, OwnOK, LaunchOK, Recorded, Fact, CtlStep, CtlMono, CallStill, DocsStill
    <2>3. ChildOK(proc[p], child[p])'
      BY <1>3, <1>9, <1>10, <1>11 DEF Turns, OwnOK, ChildOK, CallStill, DocsStill
    <2>4. RecordedOK(p, proc[p], child[p])'
      BY <1>2, <1>3, <1>9, <1>10, <1>11, ControlAssumption
      DEF Turns, OwnOK, RecordedOK, Recorded, Fact, CtlStep, CtlMono, CallStill, DocsStill
    <2>5. FilesOK(p, proc[p], H(p), child[p])'
      BY <1>3, <1>9, <1>10, <1>11 DEF Turns, OwnOK, FilesOK, PreIntent, PastIntent, H, Put, CallStill, DocsStill
    <2>6. CarryOK(proc[p], H(p))'
      BY <1>3, <1>9, <1>10, <1>11 DEF Turns, OwnOK, CarryOK, H, Put, CallStill, DocsStill
    <2>7. EvidenceOK(proc[p])'
      BY Zenon, <1>3, <1>9, <1>10, <1>11
      DEF Turns, OwnOK, EvidenceOK, SettledAs, DocsOK, CtlStep, CtlMono, H, Put, CallStill, DocsStill
    <2> QED BY <2>1, <2>2, <2>3, <2>4, <2>5, <2>6, <2>7 DEF OwnOK
  <1> QED BY <1>2, <1>3, <1>10, <1>12, TurnEnds

-----------------------------------------------------------------------------
(* What disturbs no process: a request, a revocation, a lapse, a damaged   *)
(* file.                                                                   *)
Stored(S) ==
    /\ Rec(host', Roots)
    /\ \A r \in Roots : IsHost(host'[r]) /\ \A f \in HostFields \ S : host'[r][f] = host[r][f]

LEMMA OutsideKeeps ==
    ASSUME NativeInv, UNCHANGED <<proc, child>>, CtlStep, ctl'.lock = ctl.lock, Stored({"cache", "staged", "workspace"})
    PROVE  NativeInv'
  <1>1. /\ \A r \in Roots :
              /\ host'[r].lock = host[r].lock /\ host'[r].prepare = host[r].prepare /\ host'[r].intent = host[r].intent
              /\ host'[r].claim = host[r].claim /\ host'[r].identity = host[r].identity /\ host'[r].start = host[r].start
              /\ host'[r].outcome = host[r].outcome /\ host'[r].cancelled = host[r].cancelled
              /\ host'[r].differs = host[r].differs /\ host'[r].journal = host[r].journal
    BY DEF Stored, HostFields
  <1>2. Shaped'
    BY DEF NativeInv, Shaped, Stored, CtlStep, CtlMono
  <1>3. LockOK' /\ Separate' /\ OneContender' /\ OneLocal'
    BY DEF NativeInv, LockOK, Separate, OneContender, OneLocal
  <1>4. ControlOK'
    <2>1. SettledOK'
      BY DEF NativeInv, ControlOK, SettledOK, CtlStep, CtlMono, Exited
    <2> QED BY <2>1 DEF CtlStep, ControlOK
  <1>5. ASSUME NEW p \in Procs PROVE OwnOK(p)'
    <2>1. /\ OwnOK(p) /\ proc[p].root \in Roots /\ proc' = proc /\ child' = child
      BY DEF NativeInv, Shaped, IsProc
    <2>2. DocsOK(p)'
      BY <2>1 DEF DocsOK, OwnOK, EvidenceOK, DocOK, Exited
    <2>3. proc[p].pc \in Seeing => (proc[p].seen.obs = "exited" => \E q \in Procs : Exited(q)')
      BY <2>1 DEF OwnOK, EvidenceOK, Exited
    <2>4. OwnOK(p)'
      <3>1. FlowOK(proc[p])'
        BY <2>1, <2>2, <2>3 DEF Turns, OwnOK, FlowOK, CallStill, DocsStill
      <3>2. LaunchOK(proc[p])'
        BY <2>1, <2>2, <2>3 DEF Turns, OwnOK, LaunchOK, Recorded, Fact, CtlStep, CtlMono, CallStill, DocsStill
      <3>3. ChildOK(proc[p], child[p])'
        BY <2>1, <2>2, <2>3 DEF Turns, OwnOK, ChildOK, CallStill, DocsStill
      <3>4. RecordedOK(p, proc[p], child[p])'
        BY <2>1, <2>2, <2>3, ControlAssumption
        DEF Turns, OwnOK, RecordedOK, Recorded, Fact, CtlStep, CtlMono, CallStill, DocsStill
      <3>5. FilesOK(p, proc[p], H(p), child[p])'
        BY <1>1, <2>1, <2>2, <2>3 DEF Turns, OwnOK, FilesOK, PreIntent, PastIntent, H, Put, CallStill, DocsStill
      <3>6. CarryOK(proc[p], H(p))'
        BY <1>1, <2>1, <2>2, <2>3 DEF Turns, OwnOK, CarryOK, H, Put, CallStill, DocsStill
      <3>7. EvidenceOK(proc[p])'
        BY <1>1, <2>1, <2>2, <2>3
        DEF Turns, OwnOK, EvidenceOK, SettledAs, DocsOK, CtlStep, CtlMono, H, Put, CallStill, DocsStill
      <3> QED BY <3>1, <3>2, <3>3, <3>4, <3>5, <3>6, <3>7 DEF OwnOK
    <2> QED BY <2>4
  <1>6. ASSUME NEW r \in Roots PROVE RootOK(r, host[r])' /\ KeptOK(host[r])'
    BY <1>1 DEF NativeInv, RootOK, KeptOK, DocOK, Exited
  <1> QED BY <1>2, <1>3, <1>4, <1>5, <1>6 DEF NativeInv

LEMMA RequestCancelKeeps ==
    ASSUME NativeInv, NEW type \in {"run.cancel.requested", "attempt.cancel.requested"}, RequestCancel(type),
           UNCHANGED <<host, child>>
    PROVE  NativeInv'
  <1>1. type \in DraftTypes /\ Backed(type) /\ Rec(ctl, CtlFields) /\ ctl' = [ctl EXCEPT !.run = NextRun(type)]
    BY DEF DraftTypes, Backed, NativeInv, Shaped, RequestCancel
  <1>2. /\ Rec(ctl', CtlFields) /\ ctl'.run = NextRun(type) /\ \A f \in CtlFields \ {"run"} : ctl'[f] = ctl[f]
    <2>1. PICK n : n = NextRun(type)
      OBVIOUS
    <2>2. ctl' = [ctl EXCEPT !.run = n]
      BY <1>1, <2>1
    <2> QED BY <1>1, <2>2 DEF Rec, CtlFields
  <1>3. CtlAppends(ctl', "local", type) /\ ctl'.lock = ctl.lock
    BY <1>2 DEF CtlAppends, CtlFields, RequestCancel
  <1>4. CtlStep
    BY <1>1, <1>3, AppendsStep
  <1>5. Stored({"cache", "staged", "workspace"}) /\ UNCHANGED <<proc, child>>
    BY DEF Stored, NativeInv, Shaped, RequestCancel
  <1> QED BY <1>3, <1>4, <1>5, OutsideKeeps

LEMMA RevokeKeeps ==
    ASSUME NativeInv, Revoke \/ Lapse, UNCHANGED <<host, child>>
    PROVE  NativeInv'
  <1>1. Rec(ctl, CtlFields) /\ (ctl' = [ctl EXCEPT !.revoked = TRUE] \/ ctl' = [ctl EXCEPT !.lapsed = TRUE])
    BY DEF NativeInv, Shaped, Revoke, Lapse
  <1>2. Rec(ctl', CtlFields) /\ \A f \in CtlFields \ {"revoked", "lapsed"} : ctl'[f] = ctl[f]
    BY <1>1 DEF Rec, CtlFields
  <1>3. CtlKeeps(ctl') /\ ctl'.lock = ctl.lock
    BY <1>2 DEF CtlKeeps, CtlFields
  <1>4. CtlStep
    BY <1>3, KeepsStep
  <1>5. Stored({"cache", "staged", "workspace"}) /\ UNCHANGED <<proc, child>>
    BY DEF Stored, NativeInv, Shaped, Revoke, Lapse
  <1> QED BY <1>3, <1>4, <1>5, OutsideKeeps

LEMMA DamageKeeps ==
    ASSUME NativeInv, NEW r \in Roots, NEW f \in Files, Damage(r, f), UNCHANGED child
    PROVE  NativeInv'
  <1>1. Rec(host, Roots) /\ IsHost(host[r]) /\ \A t \in Roots : IsHost(host[t])
    BY DEF NativeInv, Shaped
  <1>2. PICK h, k : h = host[r] /\ k = host'[r]
    OBVIOUS
  <1>3. /\ Rec(host', Roots) /\ \A t \in Roots \ {r} : host'[t] = host[t]
        /\ \/ k = [h EXCEPT !.cache[f] = "bad"]
           \/ k = [h EXCEPT !.staged[f] = "bad"]
           \/ k = [h EXCEPT !.workspace.files[f] = "bad"]
    BY <1>1, <1>2 DEF Damage, Rec
  <1>4. Rec(h, HostFields) /\ Rec(h.journal, JournalFields)
    BY <1>1, <1>2 DEF IsHost
  <1>5. Rec(k, HostFields) /\ \A g \in HostFields \ {"cache", "staged", "workspace"} : k[g] = h[g]
    BY ONLY <1>3, <1>4 DEF Rec, HostFields
  <1>6. IsHost(k)
    BY <1>4, <1>5 DEF IsHost, HostFields
  <1>7. Stored({"cache", "staged", "workspace"})
    BY <1>1, <1>2, <1>3, <1>5, <1>6 DEF Stored
  <1>8. CtlStep /\ ctl'.lock = ctl.lock /\ UNCHANGED <<proc, child>>
    BY KeepsStep DEF NativeInv, Shaped, CtlKeeps, Damage
  <1> QED BY <1>7, <1>8, OutsideKeeps

LEMMA StutterKeeps ==
    ASSUME NativeInv, UNCHANGED vars
    PROVE  NativeInv'
  <1>1. CtlStep /\ ctl'.lock = ctl.lock /\ UNCHANGED <<proc, child>>
    BY KeepsStep DEF NativeInv, Shaped, CtlKeeps, vars
  <1>2. Stored({"cache", "staged", "workspace"})
    BY DEF Stored, NativeInv, Shaped, vars
  <1> QED BY <1>1, <1>2, OutsideKeeps

-----------------------------------------------------------------------------
(* A process that has not begun.                                           *)
IsIdle(r, op, root, lease) ==
    /\ Rec(r, ProcFields) /\ r.op = op /\ r.root = root /\ r.lease = lease
    /\ r.pc = CASE op = "off" -> "done" [] op = "write" -> "write" [] op = "carry" -> "carry"
                [] op = "prepare" -> "prepare" [] OTHER -> "begin"
    /\ r.ok = "done" /\ r.no = "refused" /\ r.then = "leave" /\ r.fresh = FALSE /\ r.claimed = FALSE /\ r.row = 1
    /\ Rec(r.j, JournalFields)
    /\ \A d \in {r.doc, r.report} : Rec(d, DocFields) /\ d.obs = "unknown" /\ d.out = "unknown"

LEMMA IdleFacts ==
    ASSUME NEW op, NEW root, NEW lossy, NEW lease, NEW r, r = IdleProc(op, root, lossy, lease)
    PROVE  IsIdle(r, op, root, lease) /\ r.carried = FALSE
  <1>1. PICK d, j : d = Document(NoProc, "unknown", "unknown") /\ j = FreshJournal
    OBVIOUS
  <1>2. Rec(d, DocFields) /\ d.obs = "unknown" /\ d.out = "unknown" /\ Rec(j, JournalFields)
    BY <1>1 DEF Document, Rec, DocFields, FreshJournal, JournalFields
  <1>3. PICK x : x = CASE op = "off" -> "done" [] op = "write" -> "write" [] op = "carry" -> "carry"
                       [] op = "prepare" -> "prepare" [] OTHER -> "begin"
    OBVIOUS
  <1>4. r = [op |-> op, root |-> root, lossy |-> lossy, lease |-> lease, pc |-> x,
             ok |-> "done", no |-> "refused", lost |-> "refused", then |-> "leave", fresh |-> FALSE,
             claimed |-> FALSE, carried |-> FALSE, started |-> FALSE, cancelSeen |-> FALSE, authorityLost |-> FALSE,
             writing |-> FALSE, row |-> 1, j |-> j, seen |-> None, doc |-> d, report |-> d]
    BY <1>1, <1>3 DEF IdleProc
  <1>5. /\ Rec(r, ProcFields) /\ r.op = op /\ r.root = root /\ r.lease = lease /\ r.pc = x /\ r.ok = "done"
        /\ r.no = "refused" /\ r.then = "leave" /\ r.fresh = FALSE /\ r.claimed = FALSE /\ r.row = 1
        /\ r.carried = FALSE /\ r.j = j /\ r.doc = d /\ r.report = d
    BY ONLY <1>4 DEF Rec, ProcFields
  <1> QED BY <1>2, <1>3, <1>5 DEF IsIdle

LEMMA IdlePc ==
    ASSUME NEW op \in Ops, NEW root, NEW lease, NEW r, IsIdle(r, op, root, lease)
    PROVE  /\ r.pc \in {"done", "write", "carry", "prepare", "begin"}
           /\ r.pc = "write" => op = "write"
           /\ r.pc = "carry" => op = "carry"
           /\ r.pc = "prepare" => op = "prepare"
           /\ r.pc = "begin" => op \in {"ray", "driver", "execute", "reconcile", "local", "localreconcile"}
  BY DEF IsIdle, Ops

(* A command that is given again.                                          *)
LEMMA AgainKeeps ==
    ASSUME NativeInv, NEW p \in Procs, Again(p)
    PROVE  NativeInv'
  <1>1. PICK op, root, lossy, lease, carried :
           op = proc[p].op /\ root = proc[p].root /\ lossy = proc[p].lossy /\ lease = proc[p].lease /\ carried = proc[p].carried
    BY Zenon
  <1>2. PICK i, t : i = IdleProc(op, root, lossy, lease) /\ t = [i EXCEPT !.carried = carried]
    BY Zenon
  <1>3. IsIdle(i, op, root, lease)
    BY Zenon, <1>2, IdleFacts
  <1>4. IsIdle(t, op, root, lease) /\ t.carried = carried
    <2>1. /\ Rec(t, ProcFields) /\ t.carried = carried
          /\ \A f \in ProcFields \ {"carried"} : t[f] = i[f]
      BY <1>2, <1>3 DEF IsIdle, Rec, ProcFields
    <2>2. /\ t.op = i.op /\ t.root = i.root /\ t.lease = i.lease /\ t.pc = i.pc /\ t.ok = i.ok /\ t.no = i.no
          /\ t.then = i.then /\ t.fresh = i.fresh /\ t.claimed = i.claimed /\ t.row = i.row /\ t.j = i.j
          /\ t.doc = i.doc /\ t.report = i.report
      BY <2>1 DEF ProcFields
    <2> QED BY <1>3, <2>1, <2>2 DEF IsIdle
  <1>5. /\ op \in {"reconcile", "localreconcile", "prepare", "carry"} /\ UNCHANGED <<ctl, host, child>> /\ OwnOK(p)
        /\ root \in Roots /\ carried \in BOOLEAN /\ proc[p].pc \in Rest
    BY <1>1 DEF Again, NativeInv, Shaped, IsProc
  <1>6. ~proc[p].claimed /\ child[p] = NoChild /\ (op = "carry" => lease # None) /\ (carried => op = "carry")
    BY <1>1, <1>5 DEF OwnOK, FlowOK, ChildOK
  <1>7. /\ Rec(proc', Procs) /\ proc'[p] = t /\ \A q \in Procs \ {p} : proc'[q] = proc[q]
    <2>1. Rec(proc, Procs) /\ proc' = [proc EXCEPT ![p] = t]
      BY <1>1, <1>2 DEF Again, NativeInv, Shaped
    <2> QED BY <2>1 DEF Rec
  <1>8. /\ t.pc \in {"carry", "prepare", "begin"}
        /\ t.pc = "carry" => op = "carry"
        /\ t.pc = "prepare" => op = "prepare"
        /\ t.pc = "begin" => op \in {"reconcile", "localreconcile"}
    BY <1>4, <1>5 DEF IsIdle
  <1>9. /\ proc'[p].pc = t.pc /\ proc'[p].op = op /\ proc'[p].root = root /\ proc'[p].lease = lease /\ proc'[p].ok = "done"
        /\ proc'[p].no = "refused" /\ proc'[p].then = "leave" /\ proc'[p].fresh = FALSE /\ proc'[p].claimed = FALSE
        /\ proc'[p].row = 1 /\ proc'[p].carried = carried /\ Rec(proc'[p].j, JournalFields) /\ Rec(proc'[p], ProcFields)
        /\ Rec(proc'[p].doc, DocFields) /\ proc'[p].doc.obs = "unknown" /\ proc'[p].doc.out = "unknown"
        /\ Rec(proc'[p].report, DocFields) /\ proc'[p].report.obs = "unknown" /\ proc'[p].report.out = "unknown"
    BY <1>4, <1>7 DEF IsIdle
  <1>10. IsProc(proc'[p])
    <2>1. proc'[p].claimed \in BOOLEAN /\ proc'[p].carried \in BOOLEAN
      BY Zenon, <1>5, <1>9
    <2>2. proc'[p].row \in Nat \ {0} /\ proc'[p].root \in Roots
      BY <1>5, <1>9
    <2>3. proc'[p].pc \notin Seeing
      BY <1>8, <1>9
    <2>4. /\ Rec(proc'[p], ProcFields) /\ Rec(proc'[p].j, JournalFields) /\ Rec(proc'[p].doc, DocFields)
          /\ Rec(proc'[p].report, DocFields)
      BY <1>9
    <2> QED BY <2>1, <2>2, <2>3, <2>4 DEF IsProc
  <1>11. ProcMono(p)
    BY <1>1, <1>6, <1>7, <1>9, <1>10 DEF ProcMono, Contender
  <1>12. HostMono(p) /\ ChildMono(p) /\ CtlStep /\ LockMono(p)
    BY <1>5, HostSame, ChildSame, SameCtl
  <1>13. DocsOK(p)'
    BY <1>9 DEF DocsOK, DocOK
  <1>14. OwnOK(p)'
    <2>1. FlowOK(proc[p])'
      BY <1>5, <1>6, <1>8, <1>9, <1>13 DEF Turns, OwnOK, FlowOK, CallStill, DocsStill, Ops, NoChild
    <2>2. LaunchOK(proc[p])'
      BY <1>5, <1>6, <1>8, <1>9, <1>13
      DEF Turns, OwnOK, LaunchOK, Recorded, Fact, CtlStep, CtlMono, CallStill, DocsStill, Ops, NoChild
    <2>3. ChildOK(proc[p], child[p])'
      BY <1>5, <1>6, <1>8, <1>9, <1>13 DEF Turns, OwnOK, ChildOK, CallStill, DocsStill, Ops, NoChild
    <2>4. RecordedOK(p, proc[p], child[p])'
      BY <1>5, <1>6, <1>8, <1>9, <1>13
      DEF Turns, OwnOK, RecordedOK, Recorded, Fact, CtlStep, CtlMono, CallStill, DocsStill, Ops, NoChild
    <2>5. FilesOK(p, proc[p], H(p), child[p])'
      BY <1>5, <1>6, <1>8, <1>9, <1>13
      DEF Turns, OwnOK, FilesOK, PreIntent, PastIntent, H, Put, CallStill, DocsStill, Ops, NoChild
    <2>6. CarryOK(proc[p], H(p))'
      BY <1>1, <1>5, <1>6, <1>8, <1>9, <1>13 DEF Turns, OwnOK, CarryOK, H, Put, CallStill, DocsStill, Ops, NoChild
    <2>7. EvidenceOK(proc[p])'
      BY <1>5, <1>6, <1>8, <1>9, <1>13
      DEF Turns, OwnOK, EvidenceOK, SettledAs, DocsOK, CtlStep, CtlMono, H, Put, CallStill, DocsStill, Ops, NoChild
    <2> QED BY <2>1, <2>2, <2>3, <2>4, <2>5, <2>6, <2>7 DEF OwnOK
  <1> QED BY <1>11, <1>12, <1>14, StepOK

LEMMA NextKeeps ==
    ASSUME NativeInv, [Next]_vars
    PROVE  NativeInv'
  <1>1. CASE UNCHANGED vars
    BY <1>1, StutterKeeps
  <1>2. CASE \E p \in Procs : (ProcStep(p) /\ UNCHANGED env) \/ ChildStep(p) \/ Again(p)
    BY <1>2, HandlerKeeps, TransferStepKeeps, RemoteStepKeeps, LocalStepKeeps, ChildStepKeeps, AgainKeeps DEF ProcStep
  <1>3. CASE Disturb
    BY <1>3, CrashKeeps, ControllerStopsKeeps, RequestCancelKeeps, RevokeKeeps, DamageKeeps DEF Disturb
  <1> QED BY <1>1, <1>2, <1>3 DEF Next

InitialHost(w) ==
    IF w.prepared
    THEN [EmptyHost EXCEPT !.workspace = [files |-> AllGood, receipt |-> "good"], !.cache = AllGood,
                           !.staged = AllGood, !.journal.status = "complete", !.differs = w.differs]
    ELSE [EmptyHost EXCEPT !.differs = w.differs]

LEMMA InitHost ==
    ASSUME NEW w, w.differs \subseteq Facets, NEW h, h = InitialHost(w)
    PROVE  /\ IsHost(h) /\ h.journal.starts = 0 /\ h.identity = NoProc /\ h.start = NoProc
           /\ h.outcome = None /\ h.cancelled = None /\ h.differs \subseteq Facets
  <1>1. PICK e, j : e = EmptyHost /\ j = FreshJournal
    OBVIOUS
  <1>2. Rec(j, JournalFields) /\ j.starts = 0
    BY <1>1 DEF FreshJournal, Rec, JournalFields
  <1>3. /\ Rec(e, HostFields) /\ e.journal = j /\ e.identity = NoProc /\ e.start = NoProc /\ e.outcome = None
        /\ e.cancelled = None
    BY <1>1 DEF EmptyHost, Rec, HostFields
  <1>4. PICK k : k = [j EXCEPT !.status = "complete"]
    BY Zenon
  <1>5. Rec(k, JournalFields) /\ k.starts = 0
    BY ONLY <1>2, <1>4 DEF Rec, JournalFields
  <1>6. CASE w.prepared
    <2>1. PICK a, ws, d : a = AllGood /\ ws = [files |-> AllGood, receipt |-> "good"] /\ d = w.differs
      BY Zenon
    <2>2. h = [e EXCEPT !.workspace = ws, !.cache = a, !.staged = a, !.journal.status = "complete", !.differs = d]
      BY <1>1, <1>6, <2>1 DEF InitialHost
    <2>3. Rec(h, HostFields) /\ h.journal = k /\ h.identity = e.identity /\ h.start = e.start /\ h.outcome = e.outcome
          /\ h.cancelled = e.cancelled /\ h.differs = d
      BY ONLY Zenon, <1>3, <1>4, <2>2 DEF Rec, HostFields
    <2> QED BY <1>3, <1>5, <2>1, <2>3 DEF IsHost
  <1>7. CASE ~w.prepared
    <2>1. PICK d : d = w.differs
      OBVIOUS
    <2>2. h = [e EXCEPT !.differs = d]
      BY <1>1, <1>7, <2>1 DEF InitialHost
    <2>3. Rec(h, HostFields) /\ h.journal = j /\ h.identity = e.identity /\ h.start = e.start /\ h.outcome = e.outcome
          /\ h.cancelled = e.cancelled /\ h.differs = d
      BY ONLY <1>3, <2>2 DEF Rec, HostFields
    <2> QED BY <1>2, <1>3, <2>1, <2>3 DEF IsHost
  <1> QED BY <1>6, <1>7

LEMMA InitHolds ==
    ASSUME Init
    PROVE  NativeInv
  <1>1. PICK w \in Workloads :
           /\ ctl = EmptyController
           /\ proc = [p \in Procs |-> IdleProc(w.ops[p], w.roots[p], w.lossy, w.leases[p])]
           /\ host = [r \in Roots |-> InitialHost(w)]
           /\ child = [p \in Procs |-> NoChild]
    BY Zenon DEF Init, InitialHost
  <1>2. /\ w.ops \in [Procs -> Ops] /\ w.roots \in [Procs -> Roots] /\ w.differs \subseteq Facets
        /\ \A p \in Procs : w.ops[p] = "carry" => w.leases[p] # None
        /\ \A p, q \in Procs :
               w.ops[p] \in {"driver", "execute"} /\ w.ops[q] \in {"local", "localreconcile"} => w.roots[p] # w.roots[q]
    BY WorkloadsAssumption
  <1>3. ASSUME NEW p \in Procs
        PROVE  /\ Rec(proc[p], ProcFields) /\ proc[p].op = w.ops[p] /\ proc[p].root = w.roots[p] /\ proc[p].op \in Ops
               /\ proc[p].root \in Roots /\ proc[p].pc \in {"done", "write", "carry", "prepare", "begin"}
               /\ proc[p].pc = "write" => proc[p].op = "write"
               /\ proc[p].pc = "carry" => proc[p].op = "carry"
               /\ proc[p].pc = "prepare" => proc[p].op = "prepare"
               /\ proc[p].pc = "begin" => proc[p].op \in {"ray", "driver", "execute", "reconcile", "local", "localreconcile"}
               /\ proc[p].op = "carry" => proc[p].lease # None
               /\ proc[p].ok = "done" /\ proc[p].no = "refused" /\ proc[p].then = "leave" /\ proc[p].fresh = FALSE
               /\ proc[p].claimed = FALSE /\ proc[p].row = 1 /\ proc[p].carried = FALSE /\ child[p] = NoChild
               /\ Rec(proc[p].j, JournalFields)
               /\ Rec(proc[p].doc, DocFields) /\ proc[p].doc.obs = "unknown" /\ proc[p].doc.out = "unknown"
               /\ Rec(proc[p].report, DocFields) /\ proc[p].report.obs = "unknown" /\ proc[p].report.out = "unknown"
    <2>1. PICK op, root, lossy, lease : op = w.ops[p] /\ root = w.roots[p] /\ lossy = w.lossy /\ lease = w.leases[p]
      OBVIOUS
    <2>2. PICK r : r = proc[p]
      OBVIOUS
    <2>3. r = IdleProc(op, root, lossy, lease) /\ child[p] = NoChild
      BY <1>1, <2>1, <2>2
    <2>4. op \in Ops /\ root \in Roots /\ (op = "carry" => lease # None)
      BY <1>2, <2>1
    <2>5. IsIdle(r, op, root, lease) /\ r.carried = FALSE
      BY Zenon, <2>3, IdleFacts
    <2>6. /\ r.pc \in {"done", "write", "carry", "prepare", "begin"}
          /\ r.pc = "write" => op = "write"
          /\ r.pc = "carry" => op = "carry"
          /\ r.pc = "prepare" => op = "prepare"
          /\ r.pc = "begin" => op \in {"ray", "driver", "execute", "reconcile", "local", "localreconcile"}
      BY <2>4, <2>5, IdlePc
    <2> QED BY Zenon, <2>1, <2>2, <2>3, <2>4, <2>5, <2>6 DEF IsIdle
  <1>4. ASSUME NEW r \in Roots
        PROVE  /\ IsHost(host[r]) /\ host[r].journal.starts = 0 /\ host[r].identity = NoProc /\ host[r].start = NoProc
               /\ host[r].outcome = None /\ host[r].cancelled = None /\ host[r].differs \subseteq Facets
    <2>1. PICK h : h = host[r]
      OBVIOUS
    <2>2. h = InitialHost(w)
      BY <1>1, <2>1
    <2>3. /\ IsHost(h) /\ h.journal.starts = 0 /\ h.identity = NoProc /\ h.start = NoProc
          /\ h.outcome = None /\ h.cancelled = None /\ h.differs \subseteq Facets
      BY <1>2, <2>2, InitHost
    <2> QED BY <2>1, <2>3
  <1>5. /\ Rec(ctl, CtlFields) /\ ctl.run = None /\ ctl.facts = {} /\ ctl.lease = "none" /\ ctl.lock = NoProc
    BY Zenon, <1>1 DEF EmptyController, Rec, CtlFields
  <1>6. ASSUME NEW p \in Procs PROVE IsProc(proc[p]) /\ Rec(child[p], ChildFields)
    <2>1. Rec(child[p], ChildFields)
      <3>1. PICK c : c = child[p]
        OBVIOUS
      <3>2. c = NoChild
        BY Zenon, <1>3, <3>1
      <3>3. Rec(c, ChildFields)
        BY ONLY <3>2 DEF NoChild, Rec, ChildFields
      <3> QED BY <3>1, <3>3
    <2>2. proc[p].pc \notin Seeing
      BY Zenon, <1>3
    <2>3. /\ proc[p].claimed \in BOOLEAN /\ proc[p].carried \in BOOLEAN /\ proc[p].row \in Nat \ {0}
          /\ proc[p].root \in Roots
      <3>1. proc[p].claimed = FALSE /\ proc[p].carried = FALSE /\ proc[p].row = 1 /\ proc[p].root \in Roots
        BY Zenon, <1>3
      <3>2. proc[p].claimed \in BOOLEAN /\ proc[p].carried \in BOOLEAN
        BY ONLY Zenon, <3>1
      <3>3. proc[p].row \in Nat \ {0}
        BY ONLY <3>1
      <3> QED BY <3>1, <3>2, <3>3
    <2>4. /\ Rec(proc[p], ProcFields) /\ Rec(proc[p].j, JournalFields) /\ Rec(proc[p].doc, DocFields)
          /\ Rec(proc[p].report, DocFields)
      BY Zenon, <1>3
    <2> QED BY <2>1, <2>2, <2>3, <2>4 DEF IsProc
  <1>7. Shaped
    <2>1. Rec(proc, Procs) /\ Rec(host, Roots) /\ Rec(child, Procs)
      BY <1>1 DEF Rec
    <2> QED BY <1>4, <1>5, <1>6, <2>1 DEF Shaped
  <1>8. \A p \in Procs : ~proc[p].claimed /\ proc[p].fresh = FALSE /\ proc[p].row = 1 /\ proc[p].op = w.ops[p]
                         /\ proc[p].root = w.roots[p]
    BY Zenon, <1>3
  <1>9. LockOK /\ Separate /\ OneContender /\ OneLocal
    BY <1>2, <1>5, <1>8 DEF LockOK, Separate, OneContender, OneLocal, Contender
  <1>10. ControlOK
    BY <1>5 DEF ControlOK, OneKind, LeaseOK, SettledOK, RunOK, RunIs, Recorded
  <1>11. ASSUME NEW p \in Procs PROVE OwnOK(p)
    <2>1. PICK r, c : r = proc[p] /\ c = child[p]
      OBVIOUS
    <2>2. /\ r.op \in Ops /\ r.pc \in {"done", "write", "carry", "prepare", "begin"}
          /\ r.pc = "write" => r.op = "write"
          /\ r.pc = "carry" => r.op = "carry"
          /\ r.pc = "prepare" => r.op = "prepare"
          /\ r.pc = "begin" => r.op \in {"ray", "driver", "execute", "reconcile", "local", "localreconcile"}
          /\ r.op = "carry" => r.lease # None
      BY Zenon, <1>3, <2>1
    <2>3. /\ r.ok = "done" /\ r.no = "refused" /\ r.then = "leave" /\ r.fresh = FALSE /\ r.claimed = FALSE
          /\ r.row = 1 /\ r.carried = FALSE /\ c = NoChild
          /\ r.doc.obs = "unknown" /\ r.doc.out = "unknown" /\ r.report.obs = "unknown" /\ r.report.out = "unknown"
      BY Zenon, <1>3, <2>1
    <2>4. FlowOK(r)
      BY <2>2, <2>3 DEF FlowOK
    <2>5. LaunchOK(r) /\ EvidenceOK(r) /\ CarryOK(r, H(p))
      BY <2>2, <2>3 DEF LaunchOK, EvidenceOK, CarryOK, DocOK
    <2>6. ChildOK(r, c) /\ FilesOK(p, r, H(p), c) /\ RecordedOK(p, r, c)
      BY <2>2, <2>3 DEF ChildOK, FilesOK, RecordedOK, PreIntent, PastIntent, NoChild
    <2> QED BY <2>1, <2>4, <2>5, <2>6 DEF OwnOK
  <1>12. ASSUME NEW r \in Roots PROVE RootOK(r, host[r]) /\ KeptOK(host[r])
    BY <1>4 DEF RootOK, KeptOK
  <1> QED BY <1>7, <1>9, <1>10, <1>11, <1>12 DEF NativeInv

-----------------------------------------------------------------------------
(* The inductive invariant: shapes, program counters and what each says of *)
(* the child, the files of the state root, the journal and the facts.      *)
THEOREM NativeInvariant == Spec => []NativeInv
  <1>1. Init => NativeInv
    BY InitHolds
  <1>2. NativeInv /\ [Next]_vars => NativeInv'
    BY NextKeeps
  <1> QED BY PTL, <1>1, <1>2 DEF Spec

(* A set whose members are all the same has at most one.                   *)
LEMMA AtMostOne ==
    ASSUME NEW S, \A x, y \in S : x = y
    PROVE  Cardinality(S) <= 1
  <1>1. CASE S = {}
    BY <1>1, FS_EmptySet
  <1>2. CASE S # {}
    <2>1. PICK x : x \in S
      BY <1>2
    <2>2. S = {x}
      BY <2>1
    <2> QED BY <2>2, FS_Singleton
  <1> QED BY <1>1, <1>2

LEMMA LaunchFollows ==
    ASSUME NativeInv
    PROVE  SingleLaunch
  <1>1. \A p, q \in Procs : proc[p].claimed /\ proc[q].claimed => p = q
    BY DEF NativeInv, OneContender, Contender
  <1>2. \A p \in Procs : child[p].released => proc[p].claimed
    BY DEF NativeInv, OwnOK, ChildOK, NoChild
  <1>3. Cardinality({p \in Procs : proc[p].claimed}) <= 1
    BY <1>1, AtMostOne
  <1>4. Cardinality({p \in Procs : child[p].released}) <= 1
    BY <1>1, <1>2, AtMostOne
  <1>5. ASSUME NEW p \in Procs, NEW q \in Procs, proc[p].carried, proc[q].carried, proc[p].root = proc[q].root
        PROVE  proc[p].lease = proc[q].lease
    <2>1. CarryOK(proc[p], H(p)) /\ CarryOK(proc[q], H(q))
      BY DEF NativeInv, OwnOK
    <2> QED BY <1>5, <2>1 DEF CarryOK, H
  <1> QED BY <1>3, <1>4, <1>5 DEF SingleLaunch

LEMMA RecordFollows ==
    ASSUME NativeInv
    PROVE  ReleasedIsRecorded
  <1>1. SUFFICES ASSUME NEW p \in Procs, child[p].released
                 PROVE  /\ child[p].loaded = AllGood /\ H(p).differs = {}
                        /\ H(p).intent = p /\ H(p).identity = p
                        /\ ctl.lease \in ConsumedLease
                        /\ IF proc[p].op = "execute"
                           THEN /\ Recorded("remote", "attempt.started") /\ ctl.journal = p
                                /\ H(p).start = p /\ H(p).claim = p
                           ELSE Recorded("local", "attempt.started")
    BY DEF ReleasedIsRecorded
  <1>2. OwnOK(p)
    BY DEF NativeInv
  <1>3. proc[p].claimed /\ child[p].loaded = AllGood /\ proc[p].op \in {"execute", "local"}
    BY <1>1, <1>2 DEF OwnOK, ChildOK, FlowOK, NoChild
  <1>4. /\ H(p).differs = {} /\ H(p).intent = p /\ H(p).identity = p
        /\ proc[p].op = "execute" => H(p).start = p /\ H(p).claim = p
    BY <1>1, <1>2, <1>3 DEF OwnOK, FilesOK, PastIntent
  <1>5. /\ ctl.lease \in ConsumedLease
        /\ proc[p].op = "execute" => Recorded("remote", "attempt.started") /\ ctl.journal = p
        /\ proc[p].op = "local" => Recorded("local", "attempt.started")
    BY <1>1, <1>2, <1>3 DEF OwnOK, LaunchOK, RecordedOK
  <1> QED BY <1>3, <1>4, <1>5

LEMMA ObservationFollows ==
    ASSUME NativeInv
    PROVE  TerminalIsObserved
  <1>1. SUFFICES ASSUME RunIs(TerminalRun)
                 PROVE  /\ \A p \in Procs : child[p].state \notin {"user", "lingering"}
                        /\ RunIs({"completed"}) =>
                               /\ ctl.lease = "completed" /\ ctl.artifact \in ctl.cas
                               /\ child[ctl.artifact].released /\ child[ctl.artifact].code = 0
                        /\ RunIs({"failed"}) => ctl.lease = "failed" /\ ctl.reason = "native-task-failed"
                        /\ RunIs({"cancelled"}) =>
                               ctl.lease = "failed" /\ ctl.reason = "cancel-observed" /\ CancelRequested
    BY DEF TerminalIsObserved
  <1>2. SettledAs(ctl.run.status) /\ SettledOK
    BY <1>1 DEF NativeInv, ControlOK, RunOK
  <1>3. PICK q \in Procs : Exited(q)
    BY <1>2 DEF SettledAs, SettledOK
  <1>4. ASSUME NEW p \in Procs PROVE child[p].state \notin {"user", "lingering"}
    <2>1. child[p].state # "none" => proc[p].claimed
      BY DEF NativeInv, OwnOK, ChildOK, NoChild
    <2>2. proc[p].claimed => p = q
      BY <1>3 DEF NativeInv, OneContender, Contender, Exited
    <2> QED BY <1>3, <2>1, <2>2 DEF Exited
  <1> QED BY <1>2, <1>4 DEF RunIs, SettledAs, SettledOK

(* However workers, drivers, operators' commands and the controller race,  *)
(* crash and are run again, an attempt is launched once: one process holds *)
(* a fresh claim, one child is released (native_claim.py, plane.poll).     *)
THEOREM OneLaunch == Spec => []SingleLaunch
  BY PTL, NativeInvariant, LaunchFollows

(* User code that was released was loaded from the bound bytes, after its  *)
(* intent, identity, claim and start were durable (native_executor.py).    *)
THEOREM ReleaseRecorded == Spec => []ReleasedIsRecorded
  BY PTL, NativeInvariant, RecordFollows

(* A terminal Run cites an exit somebody observed, and leaves no user code *)
(* behind (native_runtime.py, native_reviewed_recovery.py).                *)
THEOREM TerminalObserved == Spec => []TerminalIsObserved
  BY PTL, NativeInvariant, ObservationFollows
=============================================================================
