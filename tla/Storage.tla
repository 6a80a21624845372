------------------------------ MODULE Storage -------------------------------
(***************************************************************************)
(* The processes that share one workspace on disk: commands that publish   *)
(* an object, append a fact that names it and record a receipt; rebuilds   *)
(* of the query tables; backups and restores; openers of the control       *)
(* database; the doctor.  SQLite commits are durable (synchronous = FULL); *)
(* a process may die at any step and the host may lose power.              *)
(***************************************************************************)
EXTENDS Backup

CONSTANTS Procs, Workloads

(* A control database as the program, or another one, may have left it,    *)
(* with its marker or without: a file is in a directory, one that is not   *)
(* there has no header, and each migration ran as often as its version     *)
(* says.                                                                   *)
StartFile(f) ==
    /\ f \in [dir : BOOLEAN, file : BOOLEAN, marker : BOOLEAN, application : {"none", "ours", "other"}, version : Nat,
              applied : [1..2 -> {0, 1}], facts : {0}, lost : {FALSE}, altered : BOOLEAN]
    /\ IF f.file THEN f.dir ELSE f.application = "none"
    /\ f.application # "ours" => f.applied = <<0, 0>>
    /\ f.application = "ours" /\ f.version = 1 => f.applied[2] = 0

(* A workload is bounded, nothing disturbed it yet, and a command names an *)
(* object.                                                                 *)
ASSUME WorkloadsAssumption ==
    \A w \in Workloads :
        /\ \A p \in Procs : w.job[p].tries \in Nat /\ w.job[p].digest \in Digests
        /\ StartFile(w.db)
        /\ w.env \in [crash : Nat, power : Nat, rot : Nat, rotted : {{}}, damage : Nat, damages : Nat, remove : Nat,
                      unmarked : {FALSE}]
        /\ w.env.damage = w.env.damages

VARIABLES ws,    \* event log, receipts, intents, query tables
          cas,   \* the artifact store
          db,    \* the control database as a file
          img,   \* the backup image at its destination
          tgt,   \* the restored workspace at its destination
          job,   \* what each process is asked to do
          pr,    \* the processes
          rep,   \* the doctor's last report, with the facts ever held when it was made
          env    \* what may still disturb the workload

vars == <<ws, cas, db, img, tgt, job, pr, rep, env>>

IdleProc(tries) ==
    [pc |-> "idle", tries |-> tries, temp |-> None, high |-> 0, seen |-> "none", version |-> 0, isNew |-> FALSE,
     image |-> NoImage, review |-> None, manifest |-> None, todo |-> {}, out |-> NewWorkspace, since |-> 0, reserved |-> {}]

At(p, op, pc) == job[p].op = op /\ pr[p].pc = pc
Go(p, pc) == [pr[p] EXCEPT !.pc = pc]
Step(p, new) == pr' = [pr EXCEPT ![p] = new]
Abort(p) == Step(p, IdleProc(pr[p].tries))
Finish(p) == Step(p, [IdleProc(0) EXCEPT !.pc = "done"])

(* A disturbance is taken from the workload's bound of its kind.           *)
Spend(kind) == env[kind] > 0

(* An operation is asked for a bounded number of times.                    *)
Begin(p) ==
    /\ pr[p].pc = "idle" /\ pr[p].tries > 0
    /\ Step(p, [Go(p, "begun") EXCEPT !.tries = @ - 1])
    /\ UNCHANGED <<ws, cas, db, img, tgt, job, rep, env>>

-----------------------------------------------------------------------------
(* A command.  An effect is reserved first and never asked for again; a    *)
(* command whose fact is in the log only records its receipt.              *)
ReserveEffect(p) ==
    /\ At(p, "command", "begun")
    /\ IF job[p].effect THEN ws.hasLog /\ ws' = [ws EXCEPT !.intents = @ \cup {p}] ELSE UNCHANGED ws
    /\ IF job[p].effect /\ p \in ws.intents THEN Finish(p) ELSE Step(p, Go(p, "temp"))
    /\ UNCHANGED <<cas, db, img, tgt, job, rep, env>>

Temp(p) ==
    /\ At(p, "command", "temp")
    /\ IF OpenRegularSource(job[p].source) /\ OpenTrustedRoot(cas)
       THEN Step(p, [Go(p, "sync") EXCEPT !.temp = CreateTemp(job[p].digest)]) ELSE Abort(p)
    /\ UNCHANGED <<ws, cas, db, img, tgt, job, rep, env>>

SyncTemp(p) ==
    /\ At(p, "command", "sync")
    /\ Step(p, [Go(p, "mkdir") EXCEPT !.temp = FsyncFile(@)])
    /\ UNCHANGED <<ws, cas, db, img, tgt, job, rep, env>>

MakeDirs(p) ==
    /\ At(p, "command", "mkdir")
    /\ cas' = EnsureChildDirs(cas) /\ Step(p, Go(p, "syncdirs"))
    /\ UNCHANGED <<ws, db, img, tgt, job, rep, env>>

SyncDirs(p) ==
    /\ At(p, "command", "syncdirs")
    /\ cas' = FsyncDirs(cas) /\ Step(p, Go(p, "link"))
    /\ UNCHANGED <<ws, db, img, tgt, job, rep, env>>

Link(p) ==
    /\ At(p, "command", "link")
    /\ \/ CanPublish(cas, pr[p].temp) /\ cas' = Publish(cas, pr[p].temp) /\ Step(p, Go(p, "publish"))
       \/ ~CanPublish(cas, pr[p].temp) /\ Abort(p) /\ UNCHANGED cas
    /\ UNCHANGED <<ws, db, img, tgt, job, rep, env>>

(* Mutant: only the publisher that made the link syncs the shard.          *)
SyncShardOnce(p) ==
    /\ At(p, "command", "publish")
    /\ cas' = (IF \E q \in Procs \ {p} : At(q, "command", "publish") THEN cas ELSE FsyncShard(cas))
    /\ Step(p, [Go(p, "append") EXCEPT !.temp = None])
    /\ UNCHANGED <<ws, db, img, tgt, job, rep, env>>

(* The shard is synced whether the link was made or found.                 *)
SyncShard(p) ==
    /\ At(p, "command", "publish")
    /\ cas' = FsyncShard(cas) /\ Step(p, [Go(p, "append") EXCEPT !.temp = None])
    /\ UNCHANGED <<ws, db, img, tgt, job, rep, env>>

Fact(p) == Event(p, job[p].type, job[p].run, job[p].spec, IF job[p].refs THEN {job[p].digest} ELSE {})

AppendFact(p) ==
    /\ At(p, "command", "append")
    /\ ws' = IF p \in FactIds(ws.log) THEN ws ELSE [ws EXCEPT !.log = Append(@, Fact(p))]
    /\ Step(p, Go(p, "row"))
    /\ UNCHANGED <<cas, db, img, tgt, job, rep, env>>

(* RunControl caches the Run's status as of the fact it appended, which    *)
(* may no longer be the head.                                              *)
CacheRun(p) ==
    /\ At(p, "command", "row")
    /\ LET n == SelectInSeq(ws.log, LAMBDA e : e.id = p)
       IN ws' = IF job[p].run = "none" THEN ws
                ELSE [ws EXCEPT !.tables = UpsertRunProjection(@, RunRow(SubSeq(ws.log, 1, n), job[p].run, n))]
    /\ Step(p, Go(p, "receipt"))
    /\ UNCHANGED <<cas, db, img, tgt, job, rep, env>>

AppendReceipt(p) ==
    /\ At(p, "command", "receipt")
    /\ ws' = [ws EXCEPT !.receipts = IF ws.hasLog THEN @ \cup {Receipt(p, Len(ws.log), {p}, {job[p].digest})} ELSE @]
    /\ Finish(p)
    /\ UNCHANGED <<cas, db, img, tgt, job, rep, env>>

Command(p) ==
    \/ ReserveEffect(p) \/ Temp(p) \/ SyncTemp(p) \/ MakeDirs(p) \/ SyncDirs(p) \/ Link(p) \/ SyncShard(p)
    \/ AppendFact(p) \/ CacheRun(p) \/ AppendReceipt(p)

-----------------------------------------------------------------------------
(* rebuild_query_tables: freeze, replay, then replace all four tables.     *)
FreezeHighWater(p) ==
    /\ At(p, "rebuild", "begun")
    /\ Step(p, [Go(p, "replace") EXCEPT !.high = Len(ws.log)])
    /\ UNCHANGED <<ws, cas, db, img, tgt, job, rep, env>>

ReplaceQueryTables(p) ==
    /\ At(p, "rebuild", "replace")
    /\ IF IndexSpecRevision(ReadEvents(ws.log, pr[p].high))
       THEN ws' = [ws EXCEPT !.tables = Rebuilt(ws.log, pr[p].high)] /\ Finish(p)
       ELSE UNCHANGED ws /\ Abort(p)
    /\ UNCHANGED <<cas, db, img, tgt, job, rep, env>>

Rebuild(p) == FreezeHighWater(p) \/ ReplaceQueryTables(p)

-----------------------------------------------------------------------------
(* create_backup: the receipts before the events, everything in a staging  *)
(* directory that is renamed once it verifies.                             *)
CaptureOperations(p) ==
    /\ At(p, "backup", "begun")
    /\ Step(p, IF img # None THEN IdleProc(pr[p].tries)
               ELSE [Go(p, "snapshot") EXCEPT !.image.ops = CaptureOperationState(ws), !.since = Len(ws.log), !.reserved = ws.intents])
    /\ UNCHANGED <<ws, cas, db, img, tgt, job, rep, env>>

TakeSnapshot(p) ==
    /\ At(p, "backup", "snapshot")
    /\ LET image == [SnapshotDatabase(ws.log) EXCEPT !.ops = pr[p].image.ops]
           refs  == References(image.ops, image.snap)
       IN Step(p, IF refs.ok THEN [Go(p, "objects") EXCEPT !.image = image, !.high = Len(image.snap),
                                                           !.todo = PrefixObjectState(image.ops, image.snap)]
                  ELSE IdleProc(pr[p].tries))
    /\ UNCHANGED <<ws, cas, db, img, tgt, job, rep, env>>

CopyObject(p) ==
    /\ At(p, "backup", "objects")
    /\ IF pr[p].todo = {} THEN Step(p, Go(p, "collapse"))
       ELSE \E d \in pr[p].todo :
              Step(p, IF CanCopyObject(cas, d) THEN [pr[p] EXCEPT !.todo = @ \ {d}, !.image.objects = @ \cup {d}]
                      ELSE IdleProc(pr[p].tries))
    /\ UNCHANGED <<ws, cas, db, img, tgt, job, rep, env>>

Collapse(p) ==
    /\ At(p, "backup", "collapse")
    /\ LET image == CollapseSnapshot(pr[p].image)
       IN Step(p, IF SnapshotStandalone(image, pr[p].high)
                  THEN [Go(p, "verify") EXCEPT !.image = [image EXCEPT !.manifest = Manifest(image, pr[p].high)]]
                  ELSE IdleProc(pr[p].tries))
    /\ UNCHANGED <<ws, cas, db, img, tgt, job, rep, env>>

RenameImage(p) ==
    /\ At(p, "backup", "verify")
    /\ IF VerifyImage(pr[p].image) /\ DestinationFree(img)
       THEN img' = [image |-> pr[p].image, since |-> pr[p].since, reserved |-> pr[p].reserved] /\ Finish(p)
       ELSE UNCHANGED img /\ Abort(p)
    /\ UNCHANGED <<ws, cas, db, tgt, job, rep, env>>

CreateBackup(p) == CaptureOperations(p) \/ TakeSnapshot(p) \/ CopyObject(p) \/ Collapse(p) \/ RenameImage(p)

-----------------------------------------------------------------------------
(* restore_backup: an image may be reviewed first; then it is verified,    *)
(* copied file by file into a staging directory, and renamed.              *)
ReviewImage(p) ==
    /\ At(p, "restore", "begun") /\ img # None
    /\ Step(p, [Go(p, "verify") EXCEPT !.review = LoadManifest(img.image)])
    /\ UNCHANGED <<ws, cas, db, img, tgt, job, rep, env>>

VerifyForRestore(p) ==
    /\ At(p, "restore", "verify")
    /\ LET m == LoadManifest(img.image)
       IN Step(p, IF VerifyImage(img.image) /\ (job[p].reviewed => m = pr[p].review) /\ DestinationFree(tgt)
                     /\ LayoutInside(job[p].layout)
                  THEN [Go(p, "events") EXCEPT !.manifest = m, !.todo = m.objects] ELSE IdleProc(pr[p].tries))
    /\ UNCHANGED <<ws, cas, db, img, tgt, job, rep, env>>

RestoreEvents(p) ==
    /\ At(p, "restore", "events")
    /\ Step(p, IF SnapshotUnchanged(img.image, pr[p].manifest)
               THEN [Go(p, "objects") EXCEPT !.out.log = img.image.snap, !.out.marker = TRUE] ELSE IdleProc(pr[p].tries))
    /\ UNCHANGED <<ws, cas, db, img, tgt, job, rep, env>>

RestoreObject(p) ==
    /\ At(p, "restore", "objects")
    /\ IF pr[p].todo = {} THEN Step(p, Go(p, "ledger"))
       ELSE \E d \in pr[p].todo :
              Step(p, IF ObjectRestored(img.image, d) THEN [pr[p] EXCEPT !.todo = @ \ {d}, !.out.objects = @ \cup {d}]
                      ELSE IdleProc(pr[p].tries))
    /\ UNCHANGED <<ws, cas, db, img, tgt, job, rep, env>>

RestoreLedger(p) ==
    /\ At(p, "restore", "ledger")
    /\ LET log == pr[p].out.log
       IN Step(p, IF Len(log) = pr[p].manifest.high /\ LedgerMatches(log, job[p].project)
                  THEN [Go(p, "operations") EXCEPT !.out.unknown = ReconcileRuns(log)] ELSE IdleProc(pr[p].tries))
    /\ UNCHANGED <<ws, cas, db, img, tgt, job, rep, env>>

RenameWorkspace(p) ==
    /\ At(p, "restore", "operations")
    /\ LET m == pr[p].manifest
           ok == VerifiedOperations(img.image, m, pr[p].out.log) /\ (m.v2 => job[p].project = Project)
       IN IF ok /\ DestinationFree(tgt)
          THEN /\ tgt' = [RestoreOperationState(pr[p].out, IF m.v2 THEN img.image.ops ELSE None)
                             EXCEPT !.review = IF job[p].reviewed THEN pr[p].review ELSE None]
               /\ Finish(p)
          ELSE UNCHANGED tgt /\ Abort(p)
    /\ UNCHANGED <<ws, cas, db, img, job, rep, env>>

RestoreBackup(p) ==
    ReviewImage(p) \/ VerifyForRestore(p) \/ RestoreEvents(p) \/ RestoreObject(p) \/ RestoreLedger(p) \/ RenameWorkspace(p)

-----------------------------------------------------------------------------
(* EventStore(path): look, connect (which makes the file), mark a new one, *)
(* read the header, create or upgrade, verify, and append a fact.          *)
(* A creator whose file has no marker yet.                                 *)
Unmarked(p) == At(p, "open", "mark") /\ pr[p].isNew /\ job[p].mode = "create"

Look(p) ==
    /\ At(p, "open", "begun")
    /\ IF ValidateDatabasePath(db) THEN Step(p, [Go(p, "connect") EXCEPT !.isNew = ~db.file]) ELSE Abort(p)
    /\ UNCHANGED <<ws, cas, db, img, tgt, job, rep, env>>

(* It may make the file although the look saw one, removed since.          *)
Connect(p) ==
    /\ At(p, "open", "connect")
    /\ \/ /\ CanConnect(db, job[p].mode) /\ db' = ConnectSqlite(db, job[p].mode) /\ Step(p, Go(p, "mark"))
          /\ env' = [env EXCEPT !.unmarked = @ \/ ~(db.file \/ db.marker \/ pr[p].isNew)]
       \/ ~CanConnect(db, job[p].mode) /\ Abort(p) /\ UNCHANGED <<db, env>>
    /\ UNCHANGED <<ws, cas, img, tgt, job, rep>>

(* The marker is best effort: a write that fails does not stop the open.   *)
MarkNew(p) ==
    /\ At(p, "open", "mark")
    /\ \/ /\ db' = IF Unmarked(p) THEN WriteControlStoreMarker(db) ELSE db
          /\ UNCHANGED env
       \/ /\ Unmarked(p) /\ Spend("crash")
          /\ env' = [env EXCEPT !.crash = @ - 1, !.unmarked = @ \/ ~db.marker]
          /\ UNCHANGED db
    /\ Step(p, [Go(p, "schema") EXCEPT !.seen = db.application, !.version = db.version])
    /\ UNCHANGED <<ws, cas, img, tgt, job, rep>>

InitializeSchema(p) ==
    /\ At(p, "open", "schema")
    /\ \/ CanInitialize(db, job[p].mode, pr[p].seen) /\ db' = Initialized(db, pr[p].seen) /\ Step(p, Go(p, "opened"))
       \/ ~CanInitialize(db, job[p].mode, pr[p].seen) /\ Abort(p) /\ UNCHANGED db
       \/ MigratedMeanwhile(db, pr[p].seen, pr[p].version) /\ Abort(p) /\ UNCHANGED db
    /\ UNCHANGED <<ws, cas, img, tgt, job, rep, env>>

UseStore(p) ==
    /\ At(p, "open", "opened")
    /\ IF VerifySchema(db) THEN Finish(p) ELSE Abort(p)
    /\ db' = IF VerifySchema(db) /\ job[p].mode # "readonly" THEN [db EXCEPT !.facts = @ + 1] ELSE db
    /\ UNCHANGED <<ws, cas, img, tgt, job, rep, env>>

OpenStore(p) == Look(p) \/ Connect(p) \/ MarkNew(p) \/ InitializeSchema(p) \/ UseStore(p)

(* workspace doctor.                                                       *)
Diagnose(p) ==
    /\ At(p, "doctor", "begun")
    /\ rep' = [store |-> CheckControlStore(db), migration |-> CheckMigration(db), plan |-> PlanMigration(db),
               held |-> db.facts > 0 \/ db.lost]
    /\ Finish(p)
    /\ UNCHANGED <<ws, cas, db, img, tgt, job, env>>

-----------------------------------------------------------------------------
(* A process dies, or one of its system calls fails.                       *)
Crash(p) ==
    /\ pr[p].pc \notin {"idle", "done"} /\ Spend("crash") /\ Abort(p)
    /\ env' = [env EXCEPT !.crash = @ - 1, !.unmarked = @ \/ Unmarked(p)]
    /\ UNCHANGED <<ws, cas, db, img, tgt, job, rep>>

(* The marker is written without a sync.                                   *)
PowerLoss ==
    /\ Spend("power")
    /\ cas' \in PowerLost(cas)
    /\ \E kept \in BOOLEAN :
          /\ db' = [db EXCEPT !.marker = @ /\ kept]
          /\ env' = [env EXCEPT !.power = @ - 1, !.unmarked = @ \/ (db.marker /\ ~kept) \/ \E p \in Procs : Unmarked(p)]
    /\ pr' = [p \in Procs |-> IF pr[p].pc = "done" THEN pr[p] ELSE IdleProc(pr[p].tries)]
    /\ UNCHANGED <<ws, img, tgt, job, rep>>

(* Bytes of an object go bad on the disk.                                  *)
ObjectRots ==
    /\ Spend("rot")
    /\ \E d \in Digests :
          /\ cas.name[d] = "durable" /\ cas.bytes[d] = "good"
          /\ cas' = [cas EXCEPT !.bytes[d] = "torn"] /\ env' = [env EXCEPT !.rot = @ - 1, !.rotted = @ \cup {d}]
    /\ UNCHANGED <<ws, db, img, tgt, job, pr, rep>>

(* An image is damaged, edited, or replaced by an older valid one.         *)
Damaged(image) ==
    {[image EXCEPT !.snap = Front(@)], [image EXCEPT !.snap = Append(Front(@), Event("foreign", "run.queued", "r9", NoSpec, {}))],
     [image EXCEPT !.objects = {}], [image EXCEPT !.manifest = None], [image EXCEPT !.manifest.objects = {}],
     [image EXCEPT !.manifest.keys = "other"], [image EXCEPT !.manifest.schema = SCHEMA_VERSION + 1],
     [image EXCEPT !.ops = IF image.ops = None THEN None ELSE [image.ops EXCEPT !.intents = {}]],
     [NoImage EXCEPT !.manifest = Manifest(NoImage, 0)]}

DamageImage ==
    /\ Spend("damage") /\ img # None /\ img.image.manifest # None /\ img.image.snap # <<>>
    /\ \E i \in Damaged(img.image) : img' = [img EXCEPT !.image = i]
    /\ env' = [env EXCEPT !.damage = @ - 1]
    /\ UNCHANGED <<ws, cas, db, tgt, job, pr, rep>>

(* The control database, or its directory, is removed.  Who has it open    *)
(* fails and may make another one.                                         *)
RemoveStore ==
    /\ Spend("remove") /\ db.file
    /\ \E dir \in BOOLEAN : db' = [NoFile EXCEPT !.dir = dir, !.marker = db.marker /\ dir, !.lost = db.lost \/ db.facts > 0]
    /\ env' = [env EXCEPT !.remove = @ - 1, !.unmarked = @ \/ \E p \in Procs : Unmarked(p)]
    /\ pr' = [p \in Procs |-> IF job[p].op = "open" /\ pr[p].pc \in {"mark", "schema", "opened"}
                              THEN IdleProc(pr[p].tries) ELSE pr[p]]
    /\ UNCHANGED <<ws, cas, img, tgt, job, rep>>

Init ==
    \E w \in Workloads :
        /\ ws = [log |-> <<>>, receipts |-> {}, intents |-> {}, hasLog |-> w.hasLog, tables |-> EmptyTables]
        /\ cas = [EmptyCas EXCEPT !.root = w.root]
        /\ db = w.db /\ img = None /\ tgt = None /\ rep = None
        /\ job = w.job
        /\ env = [w.env EXCEPT !.unmarked = w.db.file /\ w.db.application # "other" /\ ~w.db.marker]
        /\ pr = [p \in Procs |-> IdleProc(w.job[p].tries)]

Work(p) ==
    Begin(p) \/ Command(p) \/ Rebuild(p) \/ CreateBackup(p) \/ RestoreBackup(p) \/ OpenStore(p) \/ Diagnose(p) \/ Crash(p)

Next == (\E p \in Procs : Work(p)) \/ PowerLoss \/ ObjectRots \/ DamageImage \/ RemoveStore

Spec == Init /\ [][Next]_vars

-----------------------------------------------------------------------------
(* The event log and the receipts never name an object the store could     *)
(* lose: what put returned (store.py _publish) and a later commit refers   *)
(* to has a durable name under durable directories and intact bytes, even  *)
(* when two publishers of the same digest race, one of them dies, and the  *)
(* power goes.  Bytes that rot on the disk later are outside.              *)
ReferencedIsHeld ==
    \A d \in (Referenced(ws.log) \cup UNION {r.artifacts : r \in ws.receipts}) \ env.rotted :
        cas.dirs = "durable" /\ cas.name[d] = "durable" /\ cas.bytes[d] = "good"

(* An image that reaches its destination (backup.py create_backup) is      *)
(* consistent although commands kept appending while it was built: its     *)
(* events are a prefix of the log no older than the start of the backup,   *)
(* it holds every object the events and the receipts in it name, every     *)
(* receipt cites facts it holds, and no effect reserved before the backup  *)
(* began is forgotten.                                                     *)
ImageIsPrefix ==
    img # None /\ env.damage = env.damages =>
        LET i == img.image IN
        /\ IsPrefix(i.snap, ws.log) /\ Len(i.snap) >= img.since /\ ~i.wal
        /\ Referenced(i.snap) \subseteq i.objects
        /\ i.ops # None =>
              /\ \A r \in i.ops.receipts : r.facts \subseteq FactIds(i.snap) /\ r.artifacts \subseteq i.objects
              /\ img.reserved \subseteq i.ops.intents

(* A workspace that appears at the restore destination (backup.py          *)
(* restore_backup) is whole: whatever was damaged in the image, before the *)
(* verification or after it, the events are a prefix of the source log,    *)
(* every object they and the receipts name is there, receipts cite facts   *)
(* that are there, and every Run still in flight is listed as unknown.     *)
(* After a review the workspace is that of the image that was reviewed.    *)
RestoredIsWhole ==
    tgt # None =>
        /\ IsPrefix(tgt.log, ws.log)
        /\ Referenced(tgt.log) \cup UNION {r.artifacts : r \in tgt.receipts} \subseteq tgt.objects
        /\ \A r \in tgt.receipts : r.facts \subseteq FactIds(tgt.log)
        /\ tgt.unknown = {r \in Runs(tgt.log) : RunStatus(tgt.log, r) # "completed"}
        /\ tgt.review # None =>
              /\ tgt.log = tgt.review.snap /\ tgt.objects = tgt.review.objects
              /\ tgt.review.v2 => tgt.receipts = tgt.review.ops.receipts /\ tgt.intents = tgt.review.ops.intents

(* The query tables (projections/sqlite.py rebuild_query_tables) are never *)
(* a mixture: specs and links are those of one prefix of the log, and a    *)
(* Run's row is its status at exactly the sequence the row carries,        *)
(* whatever was appended or cached between the freeze and the replace.     *)
TablesReplay ==
    /\ \E n \in 0..Len(ws.log) :
          LET prefix == SubSeq(ws.log, 1, n)
          IN ws.tables.specs = SpecRevisions(prefix) /\ ws.tables.links = ArtifactLinks(prefix)
    /\ \A row \in ws.tables.runs : row = RunRow(SubSeq(ws.log, 1, row.last), row.run, row.last)

(* Opening the control database (store.py EventStore) from several         *)
(* processes applies each migration once and never over a foreign or newer *)
(* file, and the doctor tells a store that held facts and is gone from one *)
(* that never was, although another may have been made in between.         *)
(* Outside (env.unmarked) are the stores whose marker is missing: one of a *)
(* schema older than the marker, which its upgrade does not mark; one with *)
(* a creator that died, or a file that was removed, before the marker was  *)
(* written; one made by an opener that had seen a file, removed since; one *)
(* whose marker could not be written or was taken by a power loss.         *)
StoreLifecycle ==
    /\ \A i \in 1..2 : db.applied[i] <= 1
    /\ db.facts > 0 => db.application = "ours" /\ db.version = SCHEMA_VERSION
    /\ rep # None /\ rep.store = "not-yet-populated" => ~rep.held \/ env.unmarked
=============================================================================
