# TLA+ models of llm-research-os

llm-research-os records everything it does as events in an append-only SQLite
log and derives every state by folding that log. This directory models that
design from the log up: the Run/Attempt aggregate and the control that appends
to it concurrently; the worker plane, its clients and executors; the reviewed
native path; the application service with its receipts, model calls, ledger and
simulated runs; and the workspace on disk with its artifacts, backups and
restores. TLC checks the models on small instances; TLAPS proves the results
about the aggregate and its control, the worker plane, reconciliation, the worker
client, the native path, the application service and the workspace for every value
of the constants.

Paths below are relative to `src/src/llm_research_os/`.

## 1. The system

### Components, their state and operations

| component | state | operations | properties that make it correct |
|---|---|---|---|
| Run/Attempt reducer (`runs/reducer.py`, `runs/models.py`) | none: a pure fold to a RunSnapshot | 17 lifecycle events, unrelated facts | guards imply the asserted rules; no stranded run; resolved attempts immutable; retries follow the contract |
| RunControl (`runs/control.py`) | none of its own; a cache row per run | `rebuild`, `append` | the log always replays; cache and answers are exact folds |
| EventStore (`storage/store.py`) | events, integrity checkpoint, projection rows | `append` (compare-and-swap), `freeze_high_water`, `verify_integrity`, row upsert/delete | a frozen head is fresh; one event per id and sequence |
| Worker fold/control (`workers/control.py`) | none: a fold of worker facts | ten fact types, compare-and-swap append | one active lease, final outcomes |
| Worker plane (`workers/plane.py`) | heartbeats in memory | register, grant, revoke, enqueue, poll, expire, complete, fail, observed cancellation | work is handed out once; grants are spent after claims |
| Worker runtime, reconciliation (`workers/runtime.py`, `workers/recovery.py`) | none | start, succeed, failed, cancelled, lost, unknown, recovered, reconcile | outcomes are backed by lease facts; recorded outcomes close the run |
| Worker client, supervision (`workers/client.py`, `workers/supervise.py`) | execution identity and pending completion on disk | run once, resume, stop, retry completion | a brick is never run twice, a result never dropped |
| Native worker path (`workers/native_*.py`, `execution/native_*.py`) | facts in the log | claim, start, output, outcome | each fact is recorded once and in order |
| Planner, authorization (`execution/planner.py`, `kernel.py`, `authorization*.py`, `consume.py`) | facts | compile, authorize, consume | stages respect the graph; a Run is bound to an authorized plan |
| Simulated runtime (`execution/simulated.py`, `synthetic.py`) | facts | run, resume | metrics before the success; the status the plan declares |
| Native run command (`execution/native_runtime.py`, `native_preflight.py`) | a receipt | preflight, start, bound, stop | user code only for an authorized plan; honest receipts |
| Budget, model calls (`budget/control.py`, `providers/`) | facts | limit, reserve, consume, release, generate | spend below the cap; uncertain money stays reserved |
| Application and receipts (`application/`) | receipt database | freeze, lookup, reserve effect, perform, append | a repeated command has one effect; a lost receipt is recovered |
| Research ledger (`research/`) | facts | propose, dissent, decide, ask, answer | lineage and overrides agree |
| Artifact store (`artifacts/store.py`) | content-addressed files | put, exists, verify, open | what the log names is held |
| Query tables (`projections/sqlite.py`) | tables | rebuild, write a Run's row | never a mixture of prefixes |
| Backup, restore, doctor (`recovery/`) | image directories, marker | create, verify, restore, inspect | an image is a prefix with its objects; a restore is whole |
| Browser sessions, dashboard, extensions (`web/sessions.py`, `dashboard/store.py`, `extensions/`) | sessions in memory; private tables | bootstrap, write, install | one lock or one transaction each: not modelled |
| Spec, blocks, policy, events, canonical JSON, metrics, evidence, evaluation, report, training, secrets, CLI, m1, m2 | none or external | validation, rendering, I/O | where a modelled component depends on them; else section 8 |

### Interaction

Everything meets in one EventStore file. A component rebuilds its fold up to a
frozen high-water mark, applies its draft to the fold (preflight) and appends
with the mark as a compare-and-swap token. The worker HTTP server is threaded
with one connection per request, and the CLI and the M2 flows are further
processes, so any two operations interleave between SQL statements. The worker
plane reads the Run only for its cancel flag; reconciliation copies lease
outcomes into the Run. Workers talk to the plane over HTTP and keep two files
per lease; native executors keep seven private files per request and share the
controller's journals. The application service is one more client of the log,
with a second database for receipts and effect intents. Artifacts and backup
images are plain files beside both.

### What is hard

* operations of several appends (`poll`: lease, claim, consume; `succeed`:
  attempt.succeeded, run.completed) that may be cut off anywhere;
* decisions made on one fold and appended to another (the cancel flag, the grant
  of a result, lease expiry against a clock read earlier);
* an integrity checkpoint written outside a transaction, and a cache row written
  blindly by processes that froze different heads;
* a log in which one bad event blocks every later rebuild.

* effects outside the log (a paid request, a started process, a restore) that a
  crash separates from the fact that records them;
* processes observed by pid, group and container id, which outlive or are
  confused with one another;
* files that are only in the page cache until a directory is synced, and images
  read while the source moves.

`PROJECT.json` lists these hazards at their lines with the properties that cover
them.

## 2. Modules

| module | models |
|---|---|
| `RunReducer` | the reducer as operators: `Guard`, `Updated`, `Stamped`, `SnapshotOK`, `Apply` |
| `RunState` | the fold as a state machine, its properties, the refinement mapping to `RunContract` |
| `RunContract` | abstract: what a Run promises; models no code |
| `RunControl` | RunControl over EventStore; implements `RunState` |
| `WorkerPlane` | the plane and the worker fold, for the work of one task attempt |
| `WorkerRecovery` | the runtime and reconciliation, over the snapshot and head of `RunState`, with an abstraction of the leases |
| `EventLog` | the log as the controls above it see it: frozen heads and their conflicts |
| `ModelCalls` | budget fold and control, ai.call fold and control, the generate paths |
| `ResearchLedger` | the ledger's fold and validation, as operators |
| `Planner` | graph validation, stages, policy requirements and decision, as operators |
| `SimulatedRuntime` | `SimulatedRuntime.run` with resumption, over `RunReducer` and `Planner` |
| `ApplicationService` | commands, receipts and effect intents; composes the five above |
| `NativeControl` | claim, start, output and outcome endpoints over `RunReducer` and one lease |
| `NativeTransfer` | transfer journal, remote and local preparation |
| `NativeRemote` | remote executor, heartbeat monitor, reconciler, Ray driver |
| `NativeLocal` | local reviewed execution and its reconciler |
| `NativePath` | composes the four native modules with their disturbances |
| `Supervise` | process groups and containers, probes and stops, as operators |
| `TrainingOutput` | checkpoints a run leaves and what a report scores, as operators |
| `Launch` | what each runtime checks before it starts user code, as operators |
| `NativeProcess` | the native run command's checks and results, as operators |
| `WorkerClient` | worker processes from poll to completed fact; composes the four above |
| `ArtifactStore`, `QueryTables`, `StoreFile`, `Backup` | objects, tables, the database file, images, as operators |
| `Storage` | processes on one workspace; composes the four above |
| `MC*` | TLC instances |
| `RunReducerProofs`, `RunControlProofs`, `WorkerPlaneProofs`, `WorkerRecoveryProofs` (`RunState` too), `WorkerClientProofs`, `StorageProofs`, `NativePathProofs`, `ApplicationServiceProofs` | theorems and proofs (section 4) |

**RunReducer / RunState.** `Apply(s, e, q)` is `RunStateProjection.apply`: the
next snapshot, or `Rejected` where the code raises. The guards follow the order
of the code's tests (`EnvelopeOK`, `CursorAndBindingOK`, then the handler of the
type); the rules of `assert_run_snapshot_invariants` are one definition each.
Digests, event ids and workflow ids are left out: the fold only copies them.
`retryDecisionId` and `retryHint` are reduced to their presence. A payload field
that another payload does not have is blank, as the payload models are closed.

**RunControl.** One action per SQL statement or transaction. `log` holds the
events, `views[n+1]` is the fold of the first n events (kept as a variable so that
the fold needs no recursion: `Insert` extends both). The fingerprint of the log
(high water and the digest of its last event) is the high water alone, as the log
is append-only. The event id is reduced to the question the store asks of it, is
it already there. `OtherWriter` is any component that appends without a token;
its obligation to keep the run's `experimentRevision` is an assumption, since
the store does not look and a drifted fact would be refused by every later fold.

**WorkerPlane.** A request is a small process: it samples the clock, reads the
fold, decides and appends. One `WorkerControl.append` rebuilds, preflights and
inserts under the head it read, so it is one step on the current fold; a lost
race, a rejected append, a lost connection and a crash are `Abort`. A grant, its
queue entry and its token are bound to the same execution object (digest
mismatches end a request before its first append). `delivered` is a history
variable: the answers that tell a worker to execute. In-memory heartbeats change
no fact and are left out. Cancel requests are sticky and recorded once.

**WorkerRecovery.** A runtime path is computed on a rebuild and then appended
event by event; `Crash` may end it in between. `OpenLease`/`SettleLease` allow
what `WorkerPlane` allows for the leases of one attempt. A repeated cancel
request would only move a cursor and is not taken.

**ApplicationService.** A command goes through the steps of `execute`: freeze
its inputs, look its receipt up, check the expected head unless an identical fact
is already there, perform, append the receipt. Each append of a performed
operation is a `Freeze` and a `Commit` that fails when the head moved. Documents
are their identities: two commands with the same input have the same request
digest. `sent` and `done` are history variables that count what left the
process. The `cli` commands do the same work without the service. A workload
fixes which commands are submitted together, from which ledger, and how many
crashes, foreign writes and limit changes may disturb them.

**NativePath.** Each process has a program counter over the statements of its
command; a private file holds the process that wrote it, so that "the start
names this child" is an equality. What a request is compared with (prefix, grant,
objects, documents, host, dependencies, identity, material, ceiling) is a set of
facets in which it may differ. The child blocks on its pipe, runs user code,
exits, or leaves a descendant behind.

**WorkerClient.** HTTP answers may be lost after the controller acted; a probe may
fail; a client may die anywhere; a second process of the same Worker may run. The
executor is a process group or a docker client with a container. Output is
bounded by every runtime but MPS, which writes to a log nobody bounds. The native
run command starts and stops a process on the same terms, without a lease.
A process that finds an executor of an earlier one stops it in steps: compare the
start token, SIGTERM, wait, SIGKILL, wait. The leader is no child of that process, so
its pid may be given away between any two of them (`PidRecycled`), and nothing is
compared again; `ex.raced` records that it was. Where a process stops its own child
(`StopPosixGroup` under `FinishCancelled`), it has not waited for the leader yet and
the number stays the child's, so one step is enough. A signal may kill any part of a
group. `_parse_report`'s two ways to refuse a report are one, and a docker client
that fails before there is a container is left out.

**Storage.** A name or directory is absent, entered or durable, and bytes are
unsynced, good or torn; a power loss keeps what is durable. A digest stands for
its bytes, so damage changes the bytes an image holds, never the digest. SQLite
commits are durable. The lifecycle marker is best effort: its write may fail
without failing the open, and it is never synced, so a power loss may take it.
Only a process that makes a store marks it: an old file starts with or without a
marker, and an upgrade writes none. A removed store may be made again. One shard
directory stands for all.

## 3. Runs

| run | instance | distinct states | shows |
|---|---|---|---|
| `run_state` | 3 attempts, 2 revisions, 3 tries, 9 events | 17,960 | `StampNeverRejects`, `AttemptsRevalidate`, `TwoEventsClose`, `ResolvedAttemptsFrozen`, `ImplementsContract` |
| `run_control` | 2 processes, 3 events | 426,983 | `LogReplays`, `FrozenHeadFresh`, `CacheRowHonest`, `AppendResultHonest`, `ImplementsAggregate` |
| `worker_plane` | 2 workers, 2 grants, 2 requests, 3 instants | 2,665,496 | `OneActiveLease`, `DeliveredOnce`, `ConsumedIsClaimed`, `TerminalLeaseFrozen` |
| `worker_recovery` | 2 reconcilers, 1 lease, 2 reports, 1 crash | 15,848 | `SuccessWasRecorded`, `CancelWasObserved`, `CompletedCloses`, `ObservedStopCloses` |
| `application` | 2 clients, 20 workloads of up to 4 commands | 357,320 | `EffectAtMostOnce`, `SpendWithinApproval`, `UncertainStaysReserved`, `ReceiptBacked`, `LedgerConsistent`, `SimulatedSound`, `LostReceiptRecovered` |
| `native` | 3 processes, 2 state roots, 2 bound files | 200,772 | `SingleLaunch`, `ReleasedIsRecorded`, `TerminalIsObserved` |
| `client` | 2 processes, 5 runtimes, 2 tries per call | 134,443 | `CompletedIsExecuted`, `CancelObservedStops`, `PendingDelivered` |
| `storage` | 3 processes, 2 objects | 215,618 | `ReferencedIsHeld`, `ImageIsPrefix`, `RestoredIsWhole`, `TablesReplay`, `StoreLifecycle` |
| `cancel_race`, `revoke_race`, `two_leases`, `failed_lease` | as above | | the findings of section 6 |

The first four runs also check their module's `TypeOK` (`RunTypeOK` in `RunState`).

What the newer runs show:

* `application`: whatever two clients, the command line and crashes do, a native
  run or restore is dispatched once and a request sent once; consumed and
  reserved money never exceeds a cap a researcher recorded; a request that may
  have left keeps its reservation; a receipt cites facts, objects, plans and
  effects that exist; the ledger stays consistent; a completed simulation holds
  its metrics and its authorization; a fact without a receipt gets one.
* `native`: one fresh claim and one release per attempt, even on two state roots;
  user code runs from the bound bytes after its intent, identity, start and
  `attempt.started` are recorded; a terminal Run means an observed exit.
* `client`: one execution per lease; `completed` names its report; a recorded
  cancellation means nothing runs any more, and a stop by a stored identity signals
  no stranger that had the pid when it was compared (section 6 has the cases
  outside); a saved completion is delivered unless the grant is revoked.
* `storage`: no commit names an object that power loss could take; a published
  image is a prefix with its objects and receipts; a restore is whole or does not
  appear; tables belong to one prefix; migrations run once, and a store that held
  facts and is gone is not taken for one that never was, even if another was made
  meanwhile (bit rot and stores without a marker are outside, section 6). An opener
  meets up to two removals, so that a store is made, lost, made again and lost.

**Bounds.** `MaxAttemptsLimit`, `SequenceMax` cut the log and the number of
attempts; nine events reach a third attempt, and a first or second one that was
lost, asked to stop or resolved in every way. In `run_control` three
events are enough for a stale token, a checkpoint behind the log, two cache
writers with different heads and the exhausted sequence; what one attempt does
there does not depend on the aggregate's depth, which `run_state` covers, and the
proofs lift the bound. In `worker_plane` a lease lasts one instant of three, one
grant expires within the clock and one after it, so that leases run out, are
taken over and are completed late. `worker_recovery` allows two
lost/unknown/recovered reports, so that an attempt is lost and recovered, or
unknown and then lost. Deadlock is not checked where the system may
stop (the log is full, a run is terminal, the clock's bound is reached, every
process of a workload has ended).
Symmetry is used over attempt ids, processes and requests, in runs without
liveness properties. The four newer runs enumerate workloads instead of one large
instance: each names the processes that meet and the one to three disturbances
(crash, power loss, lost answers, cancellation, revocation, damage) that may hit
them, so that every pair of interesting processes meets and every check fails
alone. Two clients suffice for a stale head, a lost receipt and a race for one
effect; two bound files for a partial transfer; two objects for a race on one
digest and its absence; a third process is there where a reconciler, driver or
backup meets a pair. `application` and `client` check deadlock: their
processes may always call again.

**Fairness.** `WorkerRecovery` assumes weak fairness of each reconciler's steps:
reconciliation is called again and a call that does not crash finishes. The code
has no daemon that repeats it: the callers are the M2 flows (`m2/prove.py`,
`m2/oci_prove.py`, `m2/mps_prove.py`, `m2/usage.py`), run by an operator. The
fairness therefore states the operator's side of the protocol, and the properties
say that repeating the call is sufficient. `ApplicationService` assumes the same
of the author of a fact command: a command whose receipt is missing is submitted
again (strongly fair, as a client may be busy in between) and a submitted one runs
on; `LostReceiptRecovered` says that this suffices, which it would not if the head
check came before the look at the fact. `WorkerClient` assumes that some process
of the Worker runs and takes its steps (weak fairness of `RunOnce` and
`NativeRun`): a Worker is restarted by its operator and crashes are bounded.
Nothing is assumed of executors, the controller, supervisors or requests.

## 4. Proofs

Assumptions: `ConstantsAssumption` and `SentinelAssumption` of `RunReducer`
(limits are positive, `None` is not an identifier and `Rejected` not a snapshot),
`ControlAssumption` of `RunControl`, the sets and clock of `WorkerPlane` and
`WorkerRecovery`, the `ControlAssumption` of `NativeControl` (`NoProc` is no
process, an attempt and a revision can be named), and the four
`WorkloadsAssumption`s, which say what any workload is, not which ones there are. `Storage`: tries and disturbances are bounded, a
command names an object, and the control file is one that the program or another
could have left (`StartFile`). `WorkerClient`: a job has a known runtime and differs from its
authorization only in facets there are; checkpoints are numbered and there is a
highest one; training writes files of its own run; `None` is no exit code, reason
or identity. `NativePath`: a process runs one of the commands there are, a carrier
names its lease (`claim_for_transfer` takes no `None`), and a state root is a
compute host's or the controller host's own, never both. `ApplicationService`: a
workload starts on a ledger some log folds to, only the evidence command imports
evidence, requests obey the provider's own checks (`RequestOK`), a spec names
graphs it has and they are finite, a policy approves or denies. `SimulatedRuntime`:
an attempt and a revision can be named. `SimulationsAssumption`: a workload starts
on a snapshot or on no run, `cancel` carries a cancellation request, a simulation
names metrics of the catalog, and other processes only ask to cancel a run that a
simulation queued. The last one is a limit of the model: nothing in `RunControl`
keeps an operator from appending another lifecycle fact to such a run, and then its
plan no longer decides how it ends. TLC evaluates all of them on the runs.

*RunReducerProofs.* Typing lemmas for each handler; then, per handler, the lemmas
that its result keeps each of the nine rules; together `GuardsSuffice`: if the
snapshot obeys the rules and the guard of the event holds, the next snapshot obeys
them. The interesting case is `attempt.queued`, where the guard "latest attempt
failed, none unresolved" is what keeps the retry chain and the increasing
cursors.

*RunState (in WorkerRecoveryProofs).* The invariant `RunTypeOK /\ Rules` is
inductive. `Rules` collects
`SnapshotOK` and the validity of each attempt. `RunTypeOK` alone does not carry the results: `StampIsRedundant` needs
`SnapshotOK` of the present snapshot, and `ContractImplemented` needs the rules
to know that a live try is the last one. From it follow `StampNeverRejects`,
`AttemptsRevalidate`, `ResolvedAttemptsFrozen` and the refinement of
`RunContract`.

*RunControlProofs.* The inductive invariant `IInv` has six parts: `TypeOK`;
`Heads` (the head a call works with lies between the start of the call and the
log's head; nothing is needed of the checkpoint, which is only trusted when it
equals the live head); `ViewsSound` (every view is a sound fold
and none is `Rejected`); `CallsHonest` (the snapshot a call holds is the view of
its frozen head); `AppendResultHonest`; `CacheRowHonest`. The heart is `Commit`:
the compare-and-swap makes the frozen head the log's head, so by `CallsHonest`
the preflight was made on exactly the view the insert extends. The refinement of
`RunState` identifies the instance's copy of the fold with the reducer's (the
`Same...` lemmas) and maps `Insert` to one event, everything else to a stutter.

`RunsCanClose` (`TwoEventsClose`) goes over the statuses of the run and of its
last attempt: for each, the events of the closing move pass their guards, and
`GuardsSuffice` gives the rules for the second from the first.

*WorkerPlaneProofs.* `PlaneInv` adds to the three invariants: a grant has at most
one lease (`OneLeasePerGrant`), the clock a request sampled is never ahead of the
clock (`SampledClock`), the steps that read a grant or lease have one
(`RequestBound`), a request past its second append works on a claimed lease
(`PastIsClaimed`), and a request that will answer "execute" is the only one for
its lease and nothing was delivered before (`DeliveryOpen`). The last is what makes
`DeliveredOnce` inductive: of two polls that read the same offer one claims, and
the fold refuses the other's append. `TerminalLeaseFrozen` is an action property
and follows action by action.

*WorkerRecoveryProofs.* `RecoveryInv` says of what a reconciler holds (its lease,
its outcome, its path) what its fold said: a success has a completed lease, a
cancellation an observed stop (`PlanBacked`); so has what the snapshot claims,
which also obeys the rules of the reducer (`SnapshotBacked`). No lease outcome is
taken back, so a path planned on an old fold is still backed when its last event
is appended. `RecoveryImplementsRun`: every step of the runtime and its reconcilers
is a step of `RunState` or a stutter, so the results above hold of these runs too.

*StorageProofs.* `ReferencedIsHeld`: an object named by a commit has durable bytes,
name and directory, and a process about to commit has them already (`HoldInv`).
`TablesReplay`: the rows a process is about to write are the replay of the prefix
it froze (`TablesInv`). `StoreLifecycle`: what a process knows of the file (new,
version seen) is still true or its transaction compares it again (`FileInv`).
`ImageIsPrefix`: each part of an image under construction is right for the head
frozen at its start, and the source only grows (`ImageInv`). `RestoredIsWhole`:
what a restore verified is what it copies, or it fails; the manifest a review is
bound to describes the snapshot (`RestoreInv`). The invariants are proved apart,
each over every action.

*WorkerClientProofs.* `ClientInv` rests on three facts that stay true once they
are: `Good(report)`, the one execution ended with a clean exit and a GPU report
scores what it wrote; `Gone`, it runs no more; `IsId(id)`, the identity is of the
executor that was started. `Keeps` says of every way an executor can change
(kill, stop, probe, container removed, exit, pid recycled) that it brings nothing
back, and that a pid given away while a process may yet signal it is marked
(`raced`), which is what a process between its comparison and its last signal
needs. `ClientFrame` and `HeldFrame` say that what processes, disk and controller
know survives it. `OneClaim` makes the launch the only start: whoever may launch
holds the only claim, so nothing is known of any executor yet. That a started
job differs in nothing (`StartedAgrees`) needs a least failing check, and that a
GPU report scores a checkpoint there is (`LatestIsOne`) a highest number; both
come from `WFMin` on the naturals, which needs no induction over an operator.

*NativePathProofs.* `NativeInv` says what follows from where each process stands.
`FlowOK`: which command can be at which statement, and where its calls return.
`LaunchOK`, `OneContender`, `OneLocal`, `OneKind`: the event ids decide between a
remote and a local run, the first row appended between two local ones, the lease
between two remote ones, so at most one process holds or can still get a fresh
claim. `ChildOK`: a child exists only below a claim and is released only with the
bound bytes loaded. `FilesOK`, `RecordedOK`: the private files, the journal and
the facts that precede each statement; a file is written once and names its
writer. `CarryOK`: a started transfer keeps its lease. `EvidenceOK`, `DocOK`,
`KeptOK`: a document that says "exited" is about a process that did, which stays
true, whoever carries the document; `SettledOK`, `RunOK`: lease and Run were
settled on such a document. The three invariants are not inductive without them:
a reconciler or a second worker acts on files and documents another process left.
The proof is rely-guarantee: `StepOf(p)` is all that a step of `p` may do to the
rest (facts, journals and exits only accumulate; a file is replaced by its owner
or under its lock), `StepOK` shows that this keeps what is known of every other
process and root, and each action then owes only `StepOf(p)`, `OwnOK(p)` and
`ControlOK`. `SettledOK` gives `TerminalIsObserved` because there is one claim: if
the observed process exited, no other one can be running.

*ApplicationServiceProofs.* Two inductive invariants, and two that build on them. `ModelInv` is about calls and
money: which command is at which statement (`CmdInv`), a call that is being sent
is open and is one caller's (`CallInv`), a reservation that somebody may still
close is open and his alone, and a sent remote request leaves one that nobody owns
(`BudgetInv`), a draft validated at the current head still applies there
(`FrozenInv`: this is what the compare-and-swap gives). `ServiceInv` is about
commands: what a client at its statement relies on is in the log, the stores or
the intents (`JobInv`; before an append, that the draft still fits if the head has
not moved), a reserved scope is dispatched by one client (`DispatchInv`), imported
evidence is stored, every receipt is backed. What is recorded only grows (`Grow`)
and what a draft is validated against moves only with the head (`Still`); the two
carry every client that does not move through a step (`JobKept`). The first four
results rest on facts about the operators: `StagesPlace` (Kahn's rounds put every node of a
valid graph in one stage, after its predecessors; a least counterexample by
`WFMin`), `AuthorizedDecides` (an authorized plan leaves no nested approval, block
or paid resource undecided), `LedgerApplies` (a fact that `LedgerOK` admits keeps
the ledger well formed, which is more than consistent: a decided proposal has
exactly one decider).

`SpendCapped` adds `SpendInv` (amounts are naturals, reservations are finitely many,
no cap in force is above the highest recorded) to `ModelInv`. It needs that the
library's fold over the open reservations grows by exactly the one that is added,
in whatever order it takes them: `SumsExist` and `SumsAnyOrder` show it from the
fold's equation, again by a least failing cardinality instead of induction.

`SimulationsSound` adds `SimInv`. `SimJob` says what a simulation between two appends
still owes: every metric that its request names is in the log or comes before the
completion on its list (`TodoOK`), its authorization is recorded, the run is bound to
its plan unless its list begins with the queueing, and a draft frozen at the current
head still folds under a free id. `SimLog` dates every authorization and fact at or
before the head. `SimulatedSound` alone is not inductive: a call appends from a list
that it computed on a fold others have moved since. `StepsStart` shows that the list
is right when it is made, wherever the fold then stood, and `FoldStatus` (from
`RunReducerProofs`) that only a completion completes a run.

Two of these proofs failed at first because the model was wrong. The marker of a
new store was always written and survived a power loss; the code ignores a failed
write and never syncs it, so `StoreLifecycle` names both cases. Two others held of a
model that was too kind: every old file had a marker, and a stop by a stored identity
was one step. Both are corrected, and the properties name what that left outside. An MPS run
could end by an output limit that the code does not have; the branch that judges
an MPS run takes no notice of such an exit and would have called it a success. A
third attempt corrected a property: `UncertainStaysReserved` spoke of every call
that some remote request names, and a local request under the same name sends and
settles without money; it now speaks of calls that only remote requests name.

Only model-checked: the liveness properties, which are out of the prover's reach.
What a fold over a whole log computes
(a recursive definition applied to any input) needs induction over data, which
the prover does not have: `RunControl` therefore keeps the fold as a variable,
and the `Storage` proofs use only that a prefix's replay is a function of it.

## 5. Mutants

Every property has a mutant in `PROJECT.json`: a plausible bug of the code
(ignoring the expected head, trusting the checkpoint, labelling the cache row
with the current head, trusting poll instead of the fold, consuming before
claiming, dropping the retry hint, ...) that TLC refutes with the same
configuration. The mutated definitions stand beside the ones they replace and
are marked `Mutant`.

## 6. Findings

1. `cancel_race`: `docs/protocols/worker-v0alpha1.md:79`, "After a cancel
   request, poll MUST NOT open a new lease." `poll` reads the flag and opens the
   lease in a later append whose validation does not know of the flag.
2. `revoke_race`: `worker-v0alpha1.md:60-62`, after revoke "a new result MUST be
   refused". `complete` checks the grant on one fold and appends on another;
   `_apply_completed` does not look at the grant.
3. `two_leases`: `worker-v0alpha1.md:89`, "completed work succeeds the Attempt".
   After a completed lease another worker may lease the attempt, and
   reconciliation follows the last lease.
4. `failed_lease`: `workers/recovery.py:55`, "Drive Run/Attempt to the outcome
   already recorded on the Worker lease." For a lost or unknown attempt
   `WorkerRuntime.failed` appends `attempt.failed` only; the run is then
   `retry_pending` and, unlike for success and cancellation, no later
   reconciliation appends `run.failed`.

Observations that no run is spent on; where one limits a property, the property
names the case and excludes it:

* `workers/oci.py`, `workers/gpu.py`: when the cidfile comes after the docker
  client was killed, `cancel-observed` is reported although the container may
  still start (`job.late` in `CancelObservedStops`).
* `workers/supervise.py:363`: an identity saved without a start token may be
  signalled although its pid belongs to another process (`job.token`).
* `workers/supervise.py:342`: the start token is compared once; SIGTERM (347), up to
  three seconds of waiting (349) and SIGKILL (351) follow without another look. On
  the resume path the executor is no child of this process, so its pid may be reused
  in between, and `killpg` reaches a stranger even under an identity with a token
  (`ex.raced` in `CancelObservedStops`; without that exception the run `client` finds
  it: compare, exit, reuse, SIGTERM).
* `workers/sandbox.py:378`: the cleanup at the end of a run signals the group of a
  leader that may have been waited for already, without comparing anything. The model
  keeps the number with the executor until its process leaves the run.
* `workers/mps.py:726`: an MPS report may score a checkpoint left by an earlier
  run, which a GPU report does not (`CompletedIsExecuted` asks it of `gpu-oci`).
* `workers/mps.py:809`: MPS checkpoints are ordered by path, so `checkpoint-10` comes
  before `checkpoint-9`; the model orders them by number, as `workers/gpu.py:1230`
  does. No property depends on which one an MPS report scores.
* `workers/gpu.py:1510`: the restore-observe log is append-only, so loads of an
  earlier run count for a later one.
* `storage/store.py:304`: the lifecycle marker is written only by the process
  that found no file; if it dies before, if the write fails (`:242`, ignored by
  design), if power is lost before the marker reaches the disk, or if the file it
  had seen was removed before it connected and made another, the store later reads
  as never populated (`env.unmarked` in `StoreLifecycle`).
* `storage/store.py:478`: `_upgrade_schema_if_needed` writes no marker, and schema
  version 1 is older than the marker (`CHANGELOG.md:306`). A store that was upgraded,
  held facts and was lost with its control directory still there is called
  not-yet-populated by `recovery/doctor.py:156`, although it held them
  (`env.unmarked` from the start in `StoreLifecycle`).
* `recovery/doctor.py:135`: the comment says that no marker tells a store that never
  was from one that was removed; lines 141-164 use the marker for just that. For a
  store without one the comment is right.
* `storage/store.py:496`: of two concurrent upgraders from version 1 the slower
  one compares schema objects outside its transaction and may refuse to open.
* `recovery/backup.py:415`: an effect reserved after the receipts were captured is
  not among the image's intents (`ImageIsPrefix` asks it of the ones before).
* `application/research.py:125`: the base revision is looked up in a query table
  that only `rebuild_query_tables` refreshes, so a recent revision may be missed.
* `execution/consume.py`: consuming a local authorization records nothing, so a
  native run can be repeated under one authorization.

## 7. Plan

Done: the models of every component of section 1 that keeps interleaved state,
and the proofs of section 4, which cover every safety property that a run checks.
Next: abstract specifications of the effect journal (an effect is reserved, then
happens at most once) and of the lease as its worker sees it.

## 8. Not modelled

Schema validation, canonical encoding, rendering, CLI parsing, routing and the
exported JSON schemas keep no state. HMAC tokens, TLS and digests are taken as
sound. Of the executors, container command lines, environment variables and the
contents of training files are left out: `Launch` keeps which check refuses and
how, `TrainingOutput` which checkpoint counts. The SSH onboarding documents touch
no modelled path. Browser sessions work under one lock, dashboard and extension
registry in one transaction per operation, each on private state; nothing in them
interleaves. Evaluation, evidence and reports are pure documents over stored
objects: only what they store, and in which order, is in `ApplicationService`. The
M1 and M2 flows are callers; their measurements are not about the system's state.
The race of a result with the wall clock (expiry not yet recorded when `complete`
appends) is listed as a hazard: no state of the log shows it. Paging of replay
does not change what a fold returns.
