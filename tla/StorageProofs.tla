---------------------------- MODULE StorageProofs ----------------------------
(***************************************************************************)
(* Proofs about the workspace on disk.  The inductive invariant has one    *)
(* part per kind of process: what a command, a rebuild, a backup, a        *)
(* restore and an opener know at each of their steps, beside what the      *)
(* store, the tables, the image, the restored workspace and the database   *)
(* file hold.                                                              *)
(***************************************************************************)
EXTENDS Storage, SequenceTheorems, WellFoundedInduction, TLAPS

-----------------------------------------------------------------------------
(* Shapes.  A record is a function of its field names.                     *)
Rec(r, F) == r = [f \in F |-> r[f]]

ImageFields == {"manifest", "snap", "wal", "objects", "ops"}
OutFields == {"log", "objects", "receipts", "intents", "marker", "unknown", "review"}
ProcFields == {"pc", "tries", "temp", "high", "seen", "version", "isNew", "image", "review", "manifest", "todo", "out",
               "since", "reserved"}

IsImage(i) == Rec(i, ImageFields)
IsOut(o) == Rec(o, OutFields)
IsProc(r) == Rec(r, ProcFields) /\ IsImage(r.image) /\ IsOut(r.out) /\ r.tries \in Nat

ProcsShaped == pr = [p \in Procs |-> pr[p]] /\ \A p \in Procs : IsProc(pr[p])

(* The facts a log can hold, and the jobs of some workload.                *)
Facts ==
    {Event(p, w.job[p].type, w.job[p].run, w.job[p].spec, refs) : w \in Workloads, p \in Procs, refs \in SUBSET Digests}

JobGiven == \E w \in Workloads : job = w.job

WsShaped ==
    /\ Rec(ws, {"log", "receipts", "intents", "hasLog", "tables"}) /\ Rec(ws.tables, {"specs", "links", "runs"})
    /\ ws.log \in Seq(Facts)

CasShaped ==
    /\ Rec(cas, {"root", "dirs", "name", "bytes"})
    /\ cas.name \in [Digests -> {"absent", "entered", "durable"}]
    /\ cas.bytes \in [Digests -> {"none", "good", "torn"}]

EnvShaped ==
    /\ Rec(env, {"crash", "power", "rot", "rotted", "damage", "damages", "remove", "unmarked"})
    /\ env.damage \in Nat /\ env.damages \in Nat /\ env.damage <= env.damages

(* Every process not of one of these kinds rests or stands where it was.   *)
Resting == {"idle", "begun", "done"}
Quiet(ops) == \A q \in Procs : pr'[q] = pr[q] \/ job[q].op \in ops \/ pr'[q].pc \in Resting

(* A process outside its operation knows nothing: IdleProc is a process    *)
(* record at rest.                                                         *)
LEMMA IdleIsProc ==
    ASSUME NEW n \in Nat
    PROVE  IsProc(IdleProc(n)) /\ IdleProc(n).pc = "idle" /\ IdleProc(n).tries = n
  BY DEF IsProc, IdleProc, IsImage, IsOut, NoImage, NewWorkspace, Rec, ImageFields, OutFields, ProcFields

(* A process whose operation has ended is a process record at rest.        *)
LEMMA DoneIsProc ==
    LET r == [IdleProc(0) EXCEPT !.pc = "done"]
    IN  IsProc(r) /\ r.pc = "done" /\ r.tries = 0
  BY DEF IsProc, IdleProc, IsImage, IsOut, NoImage, NewWorkspace, Rec, ImageFields, OutFields, ProcFields

(* Moving to a program point keeps a process record one.                   *)
LEMMA GoIsProc ==
    ASSUME ProcsShaped, NEW p \in Procs, NEW pc
    PROVE  IsProc(Go(p, pc)) /\ Go(p, pc).pc = pc
  BY DEF IsProc, ProcsShaped, Go, Rec, ProcFields

(* So does every update of its fields that a step makes.                   *)
LEMMA UpdatesKeepProc ==
    ASSUME NEW r, IsProc(r), NEW x, NEW y, NEW z
    PROVE  /\ IsProc([r EXCEPT !.temp = x]) /\ IsProc([r EXCEPT !.high = x]) /\ IsProc([r EXCEPT !.isNew = x])
           /\ IsProc([r EXCEPT !.review = x]) /\ IsProc([r EXCEPT !.seen = x, !.version = y])
           /\ IsProc([r EXCEPT !.manifest = x, !.todo = y])
           /\ IsProc([r EXCEPT !.image.ops = x, !.since = y, !.reserved = z])
           /\ IsImage(x) => IsProc([r EXCEPT !.image = x, !.high = y, !.todo = z]) /\ IsProc([r EXCEPT !.image = x])
           /\ IsProc([r EXCEPT !.todo = x, !.image.objects = y])
           /\ IsProc([r EXCEPT !.todo = x, !.out.objects = y])
           /\ IsProc([r EXCEPT !.out.log = x, !.out.marker = y])
           /\ IsProc([r EXCEPT !.out.unknown = x])
  <1> USE DEF IsProc, Rec, ProcFields
  <1>1. IsProc([r EXCEPT !.temp = x]) /\ IsProc([r EXCEPT !.high = x]) /\ IsProc([r EXCEPT !.isNew = x])
    OBVIOUS
  <1>2. IsProc([r EXCEPT !.review = x]) /\ IsProc([r EXCEPT !.seen = x, !.version = y])
    OBVIOUS
  <1>3. IsProc([r EXCEPT !.manifest = x, !.todo = y])
    OBVIOUS
  <1>4. IsProc([r EXCEPT !.image.ops = x, !.since = y, !.reserved = z])
    BY DEF IsImage, ImageFields
  <1>5. IsImage(x) => IsProc([r EXCEPT !.image = x, !.high = y, !.todo = z]) /\ IsProc([r EXCEPT !.image = x])
    OBVIOUS
  <1>6. IsProc([r EXCEPT !.todo = x, !.image.objects = y])
    BY DEF IsImage, ImageFields
  <1>7. IsProc([r EXCEPT !.todo = x, !.out.objects = y])
    BY DEF IsOut, OutFields
  <1>8. IsProc([r EXCEPT !.out.log = x, !.out.marker = y])
    BY DEF IsOut, OutFields
  <1>9. IsProc([r EXCEPT !.out.unknown = x])
    BY DEF IsOut, OutFields
  <1> QED BY <1>1, <1>2, <1>3, <1>4, <1>5, <1>6, <1>7, <1>8, <1>9

(* Step changes one process and leaves the others where they were.         *)
LEMMA Stepped ==
    ASSUME ProcsShaped, NEW p \in Procs, NEW new, IsProc(new), Step(p, new)
    PROVE  ProcsShaped' /\ pr'[p] = new /\ \A q \in Procs \ {p} : pr'[q] = pr[q]
  <1>1. pr' = [q \in Procs |-> IF q = p THEN new ELSE pr[q]]
    BY DEF ProcsShaped, Step
  <1>2. pr'[p] = new /\ \A q \in Procs \ {p} : pr'[q] = pr[q]
    BY <1>1
  <1>3. pr' = [q \in Procs |-> pr'[q]]
    BY <1>1
  <1>4. \A q \in Procs : IsProc(pr'[q])
    BY <1>2 DEF ProcsShaped
  <1> QED BY <1>2, <1>3, <1>4 DEF ProcsShaped

(* Whatever a process does, its own record is replaced by a process record.*)
LEMMA AbortSteps ==
    ASSUME ProcsShaped, NEW p \in Procs, Abort(p)
    PROVE  ProcsShaped' /\ pr'[p] = IdleProc(pr[p].tries) /\ pr'[p].pc = "idle" /\ \A q \in Procs \ {p} : pr'[q] = pr[q]
  <1>1. IsProc(IdleProc(pr[p].tries)) /\ IdleProc(pr[p].tries).pc = "idle"
    BY IdleIsProc DEF ProcsShaped, IsProc
  <1> QED BY <1>1, Stepped DEF Abort

(* The same of an operation that ends.                                     *)
LEMMA FinishSteps ==
    ASSUME ProcsShaped, NEW p \in Procs, Finish(p)
    PROVE  ProcsShaped' /\ pr'[p].pc = "done" /\ pr'[p].tries = 0 /\ \A q \in Procs \ {p} : pr'[q] = pr[q]
  BY DoneIsProc, Stepped DEF Finish

(* A command moves no other process.                                       *)
LEMMA CommandMoves ==
    ASSUME ProcsShaped, NEW p \in Procs, Command(p)
    PROVE  ProcsShaped' /\ job[p].op = "command" /\ \A q \in Procs \ {p} : pr'[q] = pr[q]
  <1> USE DEF At
  <1>1. CASE ReserveEffect(p)
    <2>1. Finish(p) \/ Step(p, Go(p, "temp"))
      BY <1>1 DEF ReserveEffect
    <2> QED BY <1>1, <2>1, FinishSteps, Stepped, GoIsProc DEF ReserveEffect
  <1>2. CASE Temp(p)
    <2>1. IsProc([Go(p, "sync") EXCEPT !.temp = CreateTemp(job[p].digest)])
      BY GoIsProc, UpdatesKeepProc
    <2>2. Abort(p) \/ Step(p, [Go(p, "sync") EXCEPT !.temp = CreateTemp(job[p].digest)])
      BY <1>2 DEF Temp
    <2> QED BY <1>2, <2>1, <2>2, AbortSteps, Stepped DEF Temp
  <1>3. CASE SyncTemp(p)
    <2>1. IsProc([Go(p, "mkdir") EXCEPT !.temp = FsyncFile(@)])
      BY GoIsProc, UpdatesKeepProc
    <2> QED BY <1>3, <2>1, Stepped DEF SyncTemp
  <1>4. CASE MakeDirs(p)
    BY <1>4, Stepped, GoIsProc DEF MakeDirs
  <1>5. CASE SyncDirs(p)
    BY <1>5, Stepped, GoIsProc DEF SyncDirs
  <1>6. CASE Link(p)
    <2>1. Abort(p) \/ Step(p, Go(p, "publish"))
      BY <1>6 DEF Link
    <2> QED BY <1>6, <2>1, AbortSteps, Stepped, GoIsProc DEF Link
  <1>7. CASE SyncShard(p)
    <2>1. IsProc([Go(p, "append") EXCEPT !.temp = None])
      BY GoIsProc, UpdatesKeepProc
    <2> QED BY <1>7, <2>1, Stepped DEF SyncShard
  <1>8. CASE AppendFact(p)
    BY <1>8, Stepped, GoIsProc DEF AppendFact
  <1>9. CASE CacheRun(p)
    BY <1>9, Stepped, GoIsProc DEF CacheRun
  <1>10. CASE AppendReceipt(p)
    BY <1>10, FinishSteps DEF AppendReceipt
  <1> QED BY <1>1, <1>2, <1>3, <1>4, <1>5, <1>6, <1>7, <1>8, <1>9, <1>10 DEF Command

(* Nor does a rebuild; it changes the tables alone.                        *)
LEMMA RebuildMoves ==
    ASSUME ProcsShaped, NEW p \in Procs, Rebuild(p)
    PROVE  /\ ProcsShaped' /\ job[p].op = "rebuild" /\ \A q \in Procs \ {p} : pr'[q] = pr[q]
           /\ UNCHANGED <<cas, db, img, tgt, job, rep, env>>
  <1> USE DEF At
  <1>1. CASE FreezeHighWater(p)
    <2>1. IsProc([Go(p, "replace") EXCEPT !.high = Len(ws.log)])
      BY GoIsProc, UpdatesKeepProc
    <2> QED BY <1>1, <2>1, Stepped DEF FreezeHighWater
  <1>2. CASE ReplaceQueryTables(p)
    BY <1>2, FinishSteps, AbortSteps DEF ReplaceQueryTables
  <1> QED BY <1>1, <1>2 DEF Rebuild

(* A backup changes the image at its destination alone.                    *)
LEMMA BackupMoves ==
    ASSUME ProcsShaped, NEW p \in Procs, CreateBackup(p)
    PROVE  /\ ProcsShaped' /\ job[p].op = "backup" /\ \A q \in Procs \ {p} : pr'[q] = pr[q]
           /\ UNCHANGED <<ws, cas, db, tgt, job, rep, env>>
  <1> USE DEF At
  <1>0. IsProc(IdleProc(pr[p].tries))
    BY IdleIsProc DEF ProcsShaped, IsProc
  <1>1. CASE CaptureOperations(p)
    <2> DEFINE new == [Go(p, "snapshot") EXCEPT !.image.ops = CaptureOperationState(ws), !.since = Len(ws.log),
                                               !.reserved = ws.intents]
    <2>1. IsProc(new)
      BY GoIsProc, UpdatesKeepProc
    <2>2. Step(p, IdleProc(pr[p].tries)) \/ Step(p, new)
      BY <1>1 DEF CaptureOperations
    <2> QED BY <1>0, <1>1, <2>1, <2>2, Stepped DEF CaptureOperations
  <1>2. CASE TakeSnapshot(p)
    <2> DEFINE image == [SnapshotDatabase(ws.log) EXCEPT !.ops = pr[p].image.ops]
               new == [Go(p, "objects") EXCEPT !.image = image, !.high = Len(image.snap),
                                              !.todo = PrefixObjectState(image.ops, image.snap)]
    <2>1. IsImage(image)
      BY DEF SnapshotDatabase, NoImage, IsImage, Rec, ImageFields
    <2>2. Step(p, IdleProc(pr[p].tries)) \/ Step(p, new)
      BY <1>2 DEF TakeSnapshot
    <2> HIDE DEF image
    <2>3. IsProc(new)
      BY <2>1, GoIsProc, UpdatesKeepProc
    <2> QED BY <1>0, <1>2, <2>2, <2>3, Stepped DEF TakeSnapshot
  <1>3. CASE CopyObject(p)
    <2>1. ASSUME NEW d PROVE IsProc([pr[p] EXCEPT !.todo = @ \ {d}, !.image.objects = @ \cup {d}])
      BY UpdatesKeepProc DEF ProcsShaped
    <2>2. \/ Step(p, Go(p, "collapse")) \/ Step(p, IdleProc(pr[p].tries))
          \/ \E d : Step(p, [pr[p] EXCEPT !.todo = @ \ {d}, !.image.objects = @ \cup {d}])
      BY <1>3 DEF CopyObject
    <2> QED BY <1>0, <1>3, <2>1, <2>2, Stepped, GoIsProc DEF CopyObject
  <1>4. CASE Collapse(p)
    <2> DEFINE image == CollapseSnapshot(pr[p].image)
               new == [Go(p, "verify") EXCEPT !.image = [image EXCEPT !.manifest = Manifest(image, pr[p].high)]]
    <2>1. IsImage([image EXCEPT !.manifest = Manifest(image, pr[p].high)])
      BY DEF CollapseSnapshot, IsImage, Rec, ImageFields, ProcsShaped, IsProc
    <2>2. Step(p, IdleProc(pr[p].tries)) \/ Step(p, new)
      BY <1>4 DEF Collapse
    <2> HIDE DEF image
    <2>3. IsProc(new)
      BY <2>1, GoIsProc, UpdatesKeepProc
    <2> QED BY <1>0, <1>4, <2>2, <2>3, Stepped DEF Collapse
  <1>5. CASE RenameImage(p)
    BY <1>5, FinishSteps, AbortSteps DEF RenameImage
  <1> QED BY <1>1, <1>2, <1>3, <1>4, <1>5 DEF CreateBackup

(* A restore changes the workspace at its destination alone.               *)
LEMMA RestoreMoves ==
    ASSUME ProcsShaped, NEW p \in Procs, RestoreBackup(p)
    PROVE  /\ ProcsShaped' /\ job[p].op = "restore" /\ \A q \in Procs \ {p} : pr'[q] = pr[q]
           /\ UNCHANGED <<ws, cas, db, img, job, rep, env>>
  <1> USE DEF At
  <1>0. IsProc(IdleProc(pr[p].tries))
    BY IdleIsProc DEF ProcsShaped, IsProc
  <1>1. CASE ReviewImage(p)
    <2>1. IsProc([Go(p, "verify") EXCEPT !.review = LoadManifest(img.image)])
      BY GoIsProc, UpdatesKeepProc
    <2> QED BY <1>1, <2>1, Stepped DEF ReviewImage
  <1>2. CASE VerifyForRestore(p)
    <2> DEFINE m == LoadManifest(img.image)
               new == [Go(p, "events") EXCEPT !.manifest = m, !.todo = m.objects]
    <2>1. IsProc(new)
      BY GoIsProc, UpdatesKeepProc
    <2>2. Step(p, IdleProc(pr[p].tries)) \/ Step(p, new)
      BY <1>2 DEF VerifyForRestore
    <2> QED BY <1>0, <1>2, <2>1, <2>2, Stepped DEF VerifyForRestore
  <1>3. CASE RestoreEvents(p)
    <2> DEFINE new == [Go(p, "objects") EXCEPT !.out.log = img.image.snap, !.out.marker = TRUE]
    <2>1. IsProc(new)
      BY GoIsProc, UpdatesKeepProc
    <2>2. Step(p, IdleProc(pr[p].tries)) \/ Step(p, new)
      BY <1>3 DEF RestoreEvents
    <2> QED BY <1>0, <1>3, <2>1, <2>2, Stepped DEF RestoreEvents
  <1>4. CASE RestoreObject(p)
    <2>1. ASSUME NEW d PROVE IsProc([pr[p] EXCEPT !.todo = @ \ {d}, !.out.objects = @ \cup {d}])
      BY UpdatesKeepProc DEF ProcsShaped
    <2>2. \/ Step(p, Go(p, "ledger")) \/ Step(p, IdleProc(pr[p].tries))
          \/ \E d : Step(p, [pr[p] EXCEPT !.todo = @ \ {d}, !.out.objects = @ \cup {d}])
      BY <1>4 DEF RestoreObject
    <2> QED BY <1>0, <1>4, <2>1, <2>2, Stepped, GoIsProc DEF RestoreObject
  <1>5. CASE RestoreLedger(p)
    <2> DEFINE new == [Go(p, "operations") EXCEPT !.out.unknown = ReconcileRuns(pr[p].out.log)]
    <2>1. IsProc(new)
      BY GoIsProc, UpdatesKeepProc
    <2>2. Step(p, IdleProc(pr[p].tries)) \/ Step(p, new)
      BY <1>5 DEF RestoreLedger
    <2> QED BY <1>0, <1>5, <2>1, <2>2, Stepped DEF RestoreLedger
  <1>6. CASE RenameWorkspace(p)
    BY <1>6, FinishSteps, AbortSteps DEF RenameWorkspace
  <1> QED BY <1>1, <1>2, <1>3, <1>4, <1>5, <1>6 DEF RestoreBackup

(* An opener changes the database file, and spends at most a failed write. *)
LEMMA OpenMoves ==
    ASSUME ProcsShaped, EnvShaped, NEW p \in Procs, OpenStore(p)
    PROVE  /\ ProcsShaped' /\ job[p].op = "open" /\ \A q \in Procs \ {p} : pr'[q] = pr[q]
           /\ UNCHANGED <<ws, cas, img, tgt, job, rep>>
           /\ EnvShaped' /\ env'.rotted = env.rotted /\ env'.damage = env.damage /\ env'.damages = env.damages
  <1> USE DEF At
  <1>1. CASE Look(p)
    <2>1. IsProc([Go(p, "connect") EXCEPT !.isNew = ~db.file])
      BY GoIsProc, UpdatesKeepProc
    <2> QED BY <1>1, <2>1, Stepped, AbortSteps DEF Look, EnvShaped
  <1>2. CASE Connect(p)
    <2>1. /\ ProcsShaped' /\ job[p].op = "open" /\ \A q \in Procs \ {p} : pr'[q] = pr[q]
      BY <1>2, Stepped, GoIsProc, AbortSteps DEF Connect
    <2>2. EnvShaped' /\ env'.rotted = env.rotted /\ env'.damage = env.damage /\ env'.damages = env.damages
      BY <1>2 DEF Connect, EnvShaped, Rec
    <2> QED BY <1>2, <2>1, <2>2 DEF Connect
  <1>3. CASE MarkNew(p)
    <2>1. IsProc([Go(p, "schema") EXCEPT !.seen = db.application, !.version = db.version])
      BY GoIsProc, UpdatesKeepProc
    <2>2. /\ ProcsShaped' /\ job[p].op = "open" /\ \A q \in Procs \ {p} : pr'[q] = pr[q]
      BY <1>3, <2>1, Stepped DEF MarkNew
    <2>3. EnvShaped' /\ env'.rotted = env.rotted /\ env'.damage = env.damage /\ env'.damages = env.damages
      BY <1>3 DEF MarkNew, Spend, EnvShaped, Rec
    <2> QED BY <1>3, <2>2, <2>3 DEF MarkNew
  <1>4. CASE InitializeSchema(p)
    BY <1>4, Stepped, GoIsProc, AbortSteps DEF InitializeSchema, EnvShaped
  <1>5. CASE UseStore(p)
    BY <1>5, FinishSteps, AbortSteps DEF UseStore, EnvShaped
  <1> QED BY <1>1, <1>2, <1>3, <1>4, <1>5 DEF OpenStore

(* Starting an operation or dying in one leaves a process at rest.         *)
LEMMA BeginMoves ==
    ASSUME ProcsShaped, EnvShaped, NEW p \in Procs, Begin(p) \/ Crash(p) \/ Diagnose(p)
    PROVE  /\ ProcsShaped' /\ pr'[p].pc \in Resting /\ \A q \in Procs \ {p} : pr'[q] = pr[q]
           /\ UNCHANGED <<ws, cas, db, img, tgt, job>>
           /\ EnvShaped' /\ env'.rotted = env.rotted /\ env'.damage = env.damage /\ env'.damages = env.damages
  <1>1. CASE Begin(p)
    <2> DEFINE new == [Go(p, "begun") EXCEPT !.tries = @ - 1]
    <2>1. Go(p, "begun").tries = pr[p].tries /\ pr[p].tries \in Nat
      BY DEF Go, ProcsShaped, IsProc, Rec, ProcFields
    <2>2. IsProc(new) /\ new.pc = "begun"
      BY <1>1, <2>1, GoIsProc DEF IsProc, Rec, ProcFields, Begin
    <2> QED BY <1>1, <2>2, Stepped DEF Begin, EnvShaped, Resting
  <1>2. CASE Crash(p)
    <2>1. EnvShaped' /\ env'.rotted = env.rotted /\ env'.damage = env.damage /\ env'.damages = env.damages
      BY <1>2 DEF Crash, Spend, EnvShaped, Rec, Unmarked, At
    <2> QED BY <1>2, <2>1, AbortSteps DEF Crash, Resting
  <1>3. CASE Diagnose(p)
    BY <1>3, FinishSteps DEF Diagnose, EnvShaped, Resting
  <1> QED BY <1>1, <1>2, <1>3

(* What disturbs the workspace from outside leaves every process at rest   *)
(* or where it was.                                                        *)
LEMMA DisturbMoves ==
    ASSUME ProcsShaped, EnvShaped, PowerLoss \/ ObjectRots \/ DamageImage \/ RemoveStore
    PROVE  ProcsShaped' /\ Quiet({}) /\ EnvShaped' /\ job' = job /\ ws' = ws /\ tgt' = tgt /\ env'.damages = env.damages
  <1>0. \A p \in Procs : pr[p].tries \in Nat
    BY DEF ProcsShaped, IsProc
  <1>1. CASE PowerLoss
    <2>1. /\ pr' = [p \in Procs |-> pr'[p]]
          /\ \A p \in Procs : pr'[p] = pr[p] \/ pr'[p] = IdleProc(pr[p].tries)
      BY <1>1 DEF PowerLoss
    <2>2. EnvShaped' /\ env'.damages = env.damages
      BY <1>1 DEF PowerLoss, Spend, EnvShaped, Rec
    <2> QED BY <1>0, <1>1, <2>1, <2>2, IdleIsProc DEF PowerLoss, ProcsShaped, Quiet, Resting
  <1>2. CASE ObjectRots
    <2>1. EnvShaped' /\ env'.damages = env.damages
      BY <1>2 DEF ObjectRots, Spend, EnvShaped, Rec
    <2> QED BY <1>2, <2>1 DEF ObjectRots, Quiet, ProcsShaped
  <1>3. CASE DamageImage
    <2>1. EnvShaped' /\ env'.damages = env.damages
      BY <1>3, SMTT(30) DEF DamageImage, Spend, EnvShaped, Rec
    <2> QED BY <1>3, <2>1 DEF DamageImage, Quiet, ProcsShaped
  <1>4. CASE RemoveStore
    <2>1. /\ pr' = [p \in Procs |-> pr'[p]]
          /\ \A p \in Procs : pr'[p] = pr[p] \/ pr'[p] = IdleProc(pr[p].tries)
      BY <1>4 DEF RemoveStore
    <2>2. EnvShaped' /\ env'.damages = env.damages
      BY <1>4 DEF RemoveStore, Spend, EnvShaped, Rec
    <2> QED BY <1>0, <1>4, <2>1, <2>2, IdleIsProc DEF RemoveStore, ProcsShaped, Quiet, Resting
  <1> QED BY <1>1, <1>2, <1>3, <1>4

-----------------------------------------------------------------------------
(* Every part of the state keeps its shape.                                *)
Shaped == JobGiven /\ ProcsShaped /\ WsShaped /\ EnvShaped

(* The jobs are those of a workload, so a command names an object.         *)
LEMMA JobNamesObject ==
    ASSUME JobGiven, NEW p \in Procs
    PROVE  job[p].digest \in Digests /\ Fact(p) \in Facts
  <1>1. PICK w \in Workloads : job = w.job
    BY DEF JobGiven
  <1>2. job[p].digest \in Digests
    BY <1>1, WorkloadsAssumption
  <1>3. (IF job[p].refs THEN {job[p].digest} ELSE {}) \in SUBSET Digests
    BY <1>2
  <1> QED BY <1>1, <1>2, <1>3 DEF Facts, Fact

(* How a command changes the workspace: at most one fact is appended, by   *)
(* AppendFact, one receipt recorded, by AppendReceipt, and the rows        *)
(* replaced by CacheRun.                                                   *)
LEMMA CommandKeepsShape ==
    ASSUME Shaped, NEW p \in Procs, Command(p)
    PROVE  WsShaped' /\ UNCHANGED <<db, img, tgt, job, rep, env>>
  <1> USE DEF Shaped, WsShaped, Rec
  <1>1. CASE ReserveEffect(p)
    BY <1>1 DEF ReserveEffect
  <1>2. CASE Temp(p) \/ SyncTemp(p) \/ MakeDirs(p) \/ SyncDirs(p) \/ Link(p) \/ SyncShard(p)
    BY <1>2 DEF Temp, SyncTemp, MakeDirs, SyncDirs, Link, SyncShard
  <1>3. CASE AppendFact(p)
    <2>1. Append(ws.log, Fact(p)) \in Seq(Facts)
      BY JobNamesObject
    <2> QED BY <1>3, <2>1 DEF AppendFact
  <1>4. CASE CacheRun(p)
    BY <1>4 DEF CacheRun, UpsertRunProjection
  <1>5. CASE AppendReceipt(p)
    BY <1>5 DEF AppendReceipt
  <1> QED BY <1>1, <1>2, <1>3, <1>4, <1>5 DEF Command

(* A rebuild replaces the tables and nothing else of the workspace.        *)
LEMMA RebuildKeepsShape ==
    ASSUME Shaped, NEW p \in Procs, Rebuild(p)
    PROVE  WsShaped' /\ ws'.log = ws.log /\ ws'.receipts = ws.receipts /\ ws'.intents = ws.intents
  BY DEF Shaped, WsShaped, Rec, Rebuild, FreezeHighWater, ReplaceQueryTables, Rebuilt

(* The shape is inductive.                                                 *)
LEMMA ShapeStep ==
    ASSUME Shaped, Next
    PROVE  Shaped'
  <1>1. ASSUME NEW p \in Procs, Work(p) PROVE Shaped'
    <2>1. CASE Command(p)
      BY <2>1, CommandMoves, CommandKeepsShape DEF Shaped, JobGiven, EnvShaped
    <2>2. CASE Rebuild(p)
      BY <2>2, RebuildMoves, RebuildKeepsShape DEF Shaped, JobGiven, EnvShaped
    <2>3. CASE CreateBackup(p)
      BY <2>3, BackupMoves DEF Shaped, JobGiven, EnvShaped, WsShaped
    <2>4. CASE RestoreBackup(p)
      BY <2>4, RestoreMoves DEF Shaped, JobGiven, EnvShaped, WsShaped
    <2>5. CASE OpenStore(p)
      BY <2>5, OpenMoves DEF Shaped, JobGiven, WsShaped
    <2>6. CASE Begin(p) \/ Crash(p) \/ Diagnose(p)
      BY <2>6, BeginMoves DEF Shaped, JobGiven, WsShaped
    <2> QED BY <1>1, <2>1, <2>2, <2>3, <2>4, <2>5, <2>6 DEF Work
  <1>2. CASE PowerLoss \/ ObjectRots \/ DamageImage \/ RemoveStore
    BY <1>2, DisturbMoves DEF Shaped, JobGiven, WsShaped
  <1> QED BY <1>1, <1>2 DEF Next

(* It holds at the start.                                                  *)
LEMMA ShapeInit ==
    ASSUME Init
    PROVE  Shaped
  <1>1. PICK w \in Workloads :
            /\ ws = [log |-> <<>>, receipts |-> {}, intents |-> {}, hasLog |-> w.hasLog, tables |-> EmptyTables]
            /\ job = w.job
            /\ env = [w.env EXCEPT !.unmarked = w.db.file /\ w.db.application # "other" /\ ~w.db.marker]
            /\ pr = [p \in Procs |-> IdleProc(w.job[p].tries)]
    BY DEF Init
  <1>2. JobGiven
    BY <1>1 DEF JobGiven
  <1>3. ProcsShaped
    BY <1>1, IdleIsProc, WorkloadsAssumption DEF ProcsShaped
  <1>4. WsShaped
    <2>1. Rec(EmptyTables, {"specs", "links", "runs"})
      BY DEF EmptyTables, Rec
    <2>2. Rec(ws, {"log", "receipts", "intents", "hasLog", "tables"})
      BY <1>1 DEF Rec
    <2>3. ws.tables = EmptyTables /\ ws.log = <<>>
      BY <1>1
    <2> QED BY <2>1, <2>2, <2>3 DEF WsShaped
  <1>5. EnvShaped
    <2>1. /\ w.env \in [crash : Nat, power : Nat, rot : Nat, rotted : {{}}, damage : Nat, damages : Nat, remove : Nat,
                        unmarked : {FALSE}]
          /\ w.env.damage = w.env.damages
      BY WorkloadsAssumption
    <2> DEFINE u == w.db.file /\ w.db.application # "other" /\ ~w.db.marker
    <2>2. env = [w.env EXCEPT !.unmarked = u]
      BY <1>1
    <2> HIDE DEF u
    <2>3. Rec(env, {"crash", "power", "rot", "rotted", "damage", "damages", "remove", "unmarked"})
      BY <2>1, <2>2 DEF Rec
    <2>4. env.damage = w.env.damage /\ env.damages = w.env.damages
      BY <2>1, <2>2
    <2>5. w.env.damage \in Nat /\ w.env.damages \in Nat /\ w.env.damage = w.env.damages
      BY <2>1
    <2>6. env.damage \in Nat /\ env.damages \in Nat /\ env.damage <= env.damages
      BY <2>4, <2>5
    <2> HIDE <2>1, <2>2
    <2> QED BY <2>3, <2>6 DEF EnvShaped
  <1> QED BY <1>2, <1>3, <1>4, <1>5 DEF Shaped

-----------------------------------------------------------------------------
(* The artifact store.  A held digest has a durable name under durable     *)
(* directories; a name stands for good bytes unless they rotted; and a     *)
(* command knows, at each of its steps, how far its object has got.        *)
Held(d) == d \in Digests /\ cas.dirs = "durable" /\ cas.name[d] = "durable"

NamesAreGood == \A d \in Digests : cas.name[d] # "absent" => cas.bytes[d] = "good" \/ d \in env.rotted

LogHeld ==
    /\ \A d \in Referenced(ws.log) : Held(d)
    /\ \A r \in ws.receipts : \A d \in r.artifacts : Held(d)

Copied(temp, d) == temp.digest = d /\ temp.synced

Knows(p) ==
    /\ pr[p].pc = "sync" => pr[p].temp = CreateTemp(job[p].digest)
    /\ pr[p].pc \in {"mkdir", "syncdirs", "link", "publish"} => Copied(pr[p].temp, job[p].digest)
    /\ pr[p].pc \in {"link", "publish"} => cas.dirs = "durable"
    /\ pr[p].pc = "publish" => cas.name[job[p].digest] # "absent"
    /\ pr[p].pc \in {"append", "row", "receipt"} => Held(job[p].digest)

CommandKnows == \A p \in Procs : job[p].op = "command" => Knows(p)

HoldInv == CasShaped /\ NamesAreGood /\ LogHeld /\ CommandKnows

(* A step of another process, or one that only ends or starts an           *)
(* operation, disturbs none of this.                                       *)
LEMMA HoldFrame ==
    ASSUME HoldInv, cas' = cas, job' = job, ws'.log = ws.log, ws'.receipts = ws.receipts, env'.rotted = env.rotted,
           \A q \in Procs : pr'[q] = pr[q] \/ job[q].op # "command" \/ pr'[q].pc \in Resting
    PROVE  HoldInv'
  <1>1. CasShaped' /\ NamesAreGood' /\ LogHeld'
    BY DEF HoldInv, CasShaped, NamesAreGood, LogHeld, Held
  <1>2. CommandKnows'
    BY DEF HoldInv, CommandKnows, Knows, Held, Resting
  <1> QED BY <1>1, <1>2 DEF HoldInv

(* A step of command p that changes the store for the better keeps what    *)
(* was held, so only p's own knowledge is left to show.                    *)
Advanced(d) ==
    /\ cas.dirs = "durable" => cas'.dirs = "durable"
    /\ cas.name[d] # "absent" => cas'.name[d] # "absent"
    /\ cas.name[d] = "durable" => cas'.name[d] = "durable"

LEMMA HoldAdvances ==
    ASSUME Shaped, HoldInv, NEW p \in Procs, job' = job, ws'.log = ws.log, ws'.receipts = ws.receipts,
           \A d \in Digests : Advanced(d), \A q \in Procs \ {p} : pr'[q] = pr[q], CasShaped', NamesAreGood'
    PROVE  LogHeld' /\ \A q \in Procs \ {p} : job[q].op = "command" => Knows(q)'
  <1>1. \A d : Held(d) => Held(d)'
    BY DEF Held, Advanced
  <1>2. LogHeld'
    BY <1>1 DEF LogHeld, HoldInv
  <1>3. \A q \in Procs : job[q].digest \in Digests
    BY JobNamesObject DEF Shaped
  <1> QED BY <1>1, <1>2, <1>3 DEF HoldInv, CommandKnows, Knows, Advanced

(* What a command newly learns is true: its copy is synced before it is    *)
(* linked, the directories are synced before the link and the shard after  *)
(* it, whoever made the link.                                              *)
LEMMA CommandHolds ==
    ASSUME Shaped, HoldInv, NEW p \in Procs, Command(p)
    PROVE  HoldInv'
  <1>0. /\ job[p].digest \in Digests /\ job[p].op = "command" /\ job' = job /\ env' = env
        /\ \A q \in Procs \ {p} : pr'[q] = pr[q]
    BY JobNamesObject, CommandMoves, CommandKeepsShape DEF Shaped
  <1>s. ProcsShaped /\ Rec(pr[p], ProcFields)
    BY DEF Shaped, ProcsShaped, IsProc
  <1>k. CommandKnows /\ CasShaped /\ NamesAreGood /\ LogHeld
    BY DEF HoldInv
  <1>1. CASE ReserveEffect(p)
    <2>1. cas' = cas /\ ws'.log = ws.log /\ ws'.receipts = ws.receipts
      BY <1>1 DEF ReserveEffect, Shaped, WsShaped, Rec
    <2>2. Finish(p) \/ Step(p, Go(p, "temp"))
      BY <1>1 DEF ReserveEffect
    <2>3. pr'[p].pc \in {"done", "temp"}
      BY <2>2, <1>s, FinishSteps, Stepped, GoIsProc
    <2>4. CommandKnows'
      BY <1>0, <1>k, <2>1, <2>3 DEF CommandKnows, Knows, Held
    <2> QED BY <1>0, <1>k, <2>1, <2>4 DEF HoldInv, CasShaped, NamesAreGood, LogHeld, Held
  <1>2. CASE Temp(p)
    <2> DEFINE new == [Go(p, "sync") EXCEPT !.temp = CreateTemp(job[p].digest)]
    <2>1. IsProc(new)
      BY <1>s, GoIsProc, UpdatesKeepProc
    <2>2. new.pc = "sync" /\ new.temp = CreateTemp(job[p].digest)
      BY <1>s DEF Go, Rec, ProcFields
    <2>3. Abort(p) \/ Step(p, new)
      BY <1>2 DEF Temp
    <2> HIDE DEF new
    <2>4. pr'[p].pc = "idle" \/ (pr'[p].pc = "sync" /\ pr'[p].temp = CreateTemp(job[p].digest))
      BY <1>s, <2>1, <2>2, <2>3, AbortSteps, Stepped
    <2>5. cas' = cas /\ ws' = ws
      BY <1>2 DEF Temp
    <2>6. CommandKnows'
      BY <1>0, <1>k, <2>4, <2>5 DEF CommandKnows, Knows, Held
    <2> QED BY <1>0, <1>k, <2>5, <2>6 DEF HoldInv, CasShaped, NamesAreGood, LogHeld, Held
  <1>3. CASE SyncTemp(p)
    <2> DEFINE new == [Go(p, "mkdir") EXCEPT !.temp = FsyncFile(@)]
    <2>1. IsProc(new)
      BY <1>s, GoIsProc, UpdatesKeepProc
    <2>2. pr[p].temp = CreateTemp(job[p].digest)
      BY <1>3, <1>0, <1>k DEF CommandKnows, Knows, SyncTemp, At
    <2>3. new.pc = "mkdir" /\ new.temp = FsyncFile(pr[p].temp)
      BY <1>s DEF Go, Rec, ProcFields
    <2> HIDE DEF new
    <2>4. Copied(new.temp, job[p].digest)
      BY <2>2, <2>3 DEF FsyncFile, CreateTemp, Copied
    <2>5. pr'[p].pc = "mkdir" /\ Copied(pr'[p].temp, job[p].digest)
      <3>1. Step(p, new)
        BY <1>3 DEF SyncTemp, new
      <3> QED BY <1>s, <2>1, <2>3, <2>4, <3>1, Stepped
    <2>6. cas' = cas /\ ws' = ws
      BY <1>3 DEF SyncTemp
    <2>7. CommandKnows'
      BY <1>0, <1>k, <2>5, <2>6 DEF CommandKnows, Knows, Held
    <2> QED BY <1>0, <1>k, <2>6, <2>7 DEF HoldInv, CasShaped, NamesAreGood, LogHeld, Held
  <1>4. CASE MakeDirs(p)
    <2>1. pr'[p] = Go(p, "syncdirs") /\ ws' = ws
      BY <1>4, <1>s, Stepped, GoIsProc DEF MakeDirs
    <2>2. pr'[p].pc = "syncdirs" /\ pr'[p].temp = pr[p].temp
      BY <2>1, <1>s DEF Go, Rec, ProcFields
    <2>3. Copied(pr[p].temp, job[p].digest)
      BY <1>4, <1>0, <1>k DEF CommandKnows, Knows, MakeDirs, At
    <2>4. cas'.name = cas.name /\ cas'.bytes = cas.bytes /\ CasShaped' /\ (cas.dirs = "durable" => cas'.dirs = "durable")
      BY <1>4, <1>k DEF MakeDirs, EnsureChildDirs, CasShaped, Rec
    <2>5. NamesAreGood' /\ \A d \in Digests : Advanced(d)
      BY <1>0, <1>k, <2>4 DEF NamesAreGood, Advanced
    <2> QED BY <1>0, <2>1, <2>2, <2>3, <2>4, <2>5, HoldAdvances DEF HoldInv, CommandKnows, Knows
  <1>5. CASE SyncDirs(p)
    <2>1. pr'[p] = Go(p, "link") /\ ws' = ws
      BY <1>5, <1>s, Stepped, GoIsProc DEF SyncDirs
    <2>2. pr'[p].pc = "link" /\ pr'[p].temp = pr[p].temp
      BY <2>1, <1>s DEF Go, Rec, ProcFields
    <2>3. Copied(pr[p].temp, job[p].digest)
      BY <1>5, <1>0, <1>k DEF CommandKnows, Knows, SyncDirs, At
    <2>4. cas'.name = cas.name /\ cas'.bytes = cas.bytes /\ CasShaped' /\ cas'.dirs = "durable"
      BY <1>5, <1>k DEF SyncDirs, FsyncDirs, CasShaped, Rec
    <2>5. NamesAreGood' /\ \A d \in Digests : Advanced(d)
      BY <1>0, <1>k, <2>4 DEF NamesAreGood, Advanced
    <2> QED BY <1>0, <2>1, <2>2, <2>3, <2>4, <2>5, HoldAdvances DEF HoldInv, CommandKnows, Knows
  <1>6. CASE Link(p)
    <2>t. /\ Copied(pr[p].temp, job[p].digest) /\ cas.dirs = "durable" /\ ws' = ws
      BY <1>6, <1>0, <1>k DEF CommandKnows, Knows, Link, At
    <2>1. CASE CanPublish(cas, pr[p].temp) /\ cas' = Publish(cas, pr[p].temp) /\ Step(p, Go(p, "publish"))
      <3>1. pr'[p] = Go(p, "publish")
        BY <2>1, <1>s, Stepped, GoIsProc
      <3>2. pr'[p].pc = "publish" /\ pr'[p].temp = pr[p].temp
        BY <3>1, <1>s DEF Go, Rec, ProcFields
      <3>3. CASE ProbeObject(cas, job[p].digest)
        <4>1. cas' = cas
          BY <2>t, <2>1, <3>3 DEF Publish, Copied
        <4>2. NamesAreGood' /\ CasShaped' /\ \A d \in Digests : Advanced(d)
          BY <1>0, <1>k, <4>1 DEF NamesAreGood, CasShaped, Advanced
        <4> QED BY <1>0, <2>t, <3>2, <3>3, <4>1, <4>2, HoldAdvances DEF HoldInv, CommandKnows, Knows, ProbeObject
      <3>4. CASE ~ProbeObject(cas, job[p].digest)
        <4>1. cas' = [cas EXCEPT !.name[job[p].digest] = "entered", !.bytes[job[p].digest] = "good"]
          BY <2>t, <2>1, <3>4 DEF Publish, Copied
        <4>2. /\ cas'.dirs = cas.dirs /\ Rec(cas', {"root", "dirs", "name", "bytes"})
              /\ cas'.name = [cas.name EXCEPT ![job[p].digest] = "entered"]
              /\ cas'.bytes = [cas.bytes EXCEPT ![job[p].digest] = "good"]
          BY <4>1, <1>k DEF CasShaped, Rec
        <4>3. CasShaped'
          BY <4>2, <1>k, <1>0 DEF CasShaped
        <4>4. NamesAreGood' /\ \A d \in Digests : Advanced(d)
          BY <1>0, <1>k, <3>4, <4>2 DEF NamesAreGood, Advanced, ProbeObject, CasShaped
        <4>5. cas'.name[job[p].digest] = "entered"
          BY <1>0, <1>k, <4>2 DEF CasShaped
        <4>6. LogHeld' /\ \A q \in Procs \ {p} : job[q].op = "command" => Knows(q)'
          BY <1>0, <2>t, <4>3, <4>4, HoldAdvances
        <4>7. Knows(p)'
          BY <1>0, <2>t, <3>2, <4>2, <4>5 DEF Knows
        <4>8. CommandKnows'
          BY <1>0, <4>6, <4>7 DEF CommandKnows, Knows
        <4> QED BY <4>3, <4>4, <4>6, <4>8 DEF HoldInv
      <3> QED BY <3>3, <3>4
    <2>2. CASE Abort(p) /\ cas' = cas
      BY <1>0, <1>s, <2>t, <2>2, AbortSteps, HoldFrame DEF Resting
    <2> QED BY <1>6, <2>1, <2>2 DEF Link
  <1>7. CASE SyncShard(p)
    <2> DEFINE new == [Go(p, "append") EXCEPT !.temp = None]
    <2>1. IsProc(new)
      BY <1>s, GoIsProc, UpdatesKeepProc
    <2>2. new.pc = "append"
      BY <1>s DEF Go, Rec, ProcFields
    <2>3. Step(p, new) /\ ws' = ws /\ cas' = FsyncShard(cas)
      BY <1>7 DEF SyncShard
    <2> HIDE DEF new
    <2>4. pr'[p].pc = "append"
      BY <1>s, <2>1, <2>2, <2>3, Stepped
    <2>5. cas.dirs = "durable" /\ cas.name[job[p].digest] # "absent"
      BY <1>7, <1>0, <1>k DEF CommandKnows, Knows, SyncShard, At
    <2>6. /\ cas'.dirs = cas.dirs /\ cas'.bytes = cas.bytes /\ Rec(cas', {"root", "dirs", "name", "bytes"})
          /\ cas'.name = [d \in Digests |-> IF cas.name[d] = "entered" THEN "durable" ELSE cas.name[d]]
      BY <2>3, <1>k DEF FsyncShard, CasShaped, Rec
    <2>7. CasShaped'
      BY <2>6, <1>k DEF CasShaped
    <2>8. NamesAreGood' /\ (\A d \in Digests : Advanced(d)) /\ Held(job[p].digest)'
      BY <1>0, <1>k, <2>5, <2>6 DEF NamesAreGood, Advanced, CasShaped, Held
    <2> QED BY <1>0, <2>3, <2>4, <2>7, <2>8, HoldAdvances DEF HoldInv, CommandKnows, Knows
  <1>8. CASE AppendFact(p)
    <2>1. pr'[p].pc = "row" /\ cas' = cas
      BY <1>8, <1>s, Stepped, GoIsProc DEF AppendFact
    <2>2. Held(job[p].digest)
      BY <1>8, <1>0, <1>k DEF CommandKnows, Knows, AppendFact, At
    <2>3. CommandKnows'
      BY <1>0, <1>k, <2>1, <2>2 DEF CommandKnows, Knows, Held
    <2>4. ws'.receipts = ws.receipts /\ \A d \in Referenced(ws'.log) : Held(d)
      <3>1. CASE ws' = ws
        BY <3>1, <1>k DEF LogHeld
      <3>2. CASE ws' = [ws EXCEPT !.log = Append(@, Fact(p))]
        <4>1. ws'.log = Append(ws.log, Fact(p)) /\ ws'.receipts = ws.receipts /\ ws.log \in Seq(Facts) /\ Fact(p) \in Facts
          BY <3>2, JobNamesObject DEF Shaped, WsShaped, Rec
        <4>2. \A i \in DOMAIN ws'.log : (i \in DOMAIN ws.log /\ ws'.log[i] = ws.log[i]) \/ ws'.log[i] = Fact(p)
          BY <4>1
        <4>3. \A d \in Referenced(ws'.log) : d \in Referenced(ws.log) \/ d \in Fact(p).refs
          BY <4>2 DEF Referenced, ReferencedDigests
        <4>4. Fact(p).refs \subseteq {job[p].digest}
          BY DEF Fact, Event
        <4> QED BY <1>k, <2>2, <4>1, <4>3, <4>4 DEF LogHeld
      <3> QED BY <1>8, <3>1, <3>2 DEF AppendFact
    <2> QED BY <1>0, <1>k, <2>1, <2>3, <2>4 DEF HoldInv, CasShaped, NamesAreGood, LogHeld, Held
  <1>9. CASE CacheRun(p)
    <2>1. pr'[p].pc = "receipt" /\ cas' = cas
      BY <1>9, <1>s, Stepped, GoIsProc DEF CacheRun
    <2>2. Held(job[p].digest)
      BY <1>9, <1>0, <1>k DEF CommandKnows, Knows, CacheRun, At
    <2>3. CommandKnows'
      BY <1>0, <1>k, <2>1, <2>2 DEF CommandKnows, Knows, Held
    <2>4. ws'.receipts = ws.receipts /\ ws'.log = ws.log
      BY <1>9 DEF CacheRun, Shaped, WsShaped, Rec
    <2> QED BY <1>0, <1>k, <2>1, <2>3, <2>4 DEF HoldInv, CasShaped, NamesAreGood, LogHeld, Held
  <1>10. CASE AppendReceipt(p)
    <2>1. pr'[p].pc = "done" /\ cas' = cas
      BY <1>10, <1>s, FinishSteps DEF AppendReceipt
    <2>2. Held(job[p].digest)
      BY <1>10, <1>0, <1>k DEF CommandKnows, Knows, AppendReceipt, At
    <2>3. CommandKnows'
      BY <1>0, <1>k, <2>1 DEF CommandKnows, Knows, Held
    <2>4. ws'.log = ws.log /\ \A r \in ws'.receipts : r \in ws.receipts \/ r.artifacts = {job[p].digest}
      BY <1>10 DEF AppendReceipt, Shaped, WsShaped, Rec, Receipt
    <2> QED BY <1>0, <1>k, <2>1, <2>2, <2>3, <2>4 DEF HoldInv, CasShaped, NamesAreGood, LogHeld, Held
  <1> QED BY <1>1, <1>2, <1>3, <1>4, <1>5, <1>6, <1>7, <1>8, <1>9, <1>10 DEF Command

(* A power loss keeps what is durable and stops every command; a rotten    *)
(* object is known as one.                                                 *)
LEMMA DisturbHolds ==
    ASSUME Shaped, HoldInv, PowerLoss \/ ObjectRots \/ DamageImage \/ RemoveStore
    PROVE  HoldInv'
  <1>0. Quiet({}) /\ job' = job /\ ws' = ws
    BY DisturbMoves DEF Shaped
  <1>k. CommandKnows /\ CasShaped /\ NamesAreGood /\ LogHeld
    BY DEF HoldInv
  <1>1. CASE PowerLoss
    <2>1. PICK keepDirs \in BOOLEAN, kept \in SUBSET Digests : cas' = AfterPowerLoss(cas, keepDirs, kept)
      <3>1. cas' \in PowerLost(cas)
        BY <1>1 DEF PowerLoss
      <3>2. PowerLost(cas) = {AfterPowerLoss(cas, keepDirs, kept) : keepDirs \in BOOLEAN, kept \in SUBSET Digests}
        BY DEF PowerLost
      <3> HIDE DEF PowerLost
      <3> QED BY <3>1, <3>2
    <2>2. /\ Rec(cas', {"root", "dirs", "name", "bytes"})
          /\ cas.dirs = "durable" => cas'.dirs = "durable"
          /\ cas'.name = [d \in Digests |->
                IF cas.name[d] = "absent" \/ (cas.dirs = "entered" /\ ~keepDirs) \/ (cas.name[d] = "entered" /\ d \notin kept)
                THEN "absent" ELSE "durable"]
          /\ cas'.bytes = [d \in Digests |->
                IF cas.bytes[d] = "unsynced" THEN (IF d \in kept THEN "good" ELSE "torn") ELSE cas.bytes[d]]
      BY <2>1, <1>k DEF AfterPowerLoss, CasShaped, Rec
    <2>3. CasShaped'
      BY <2>2, <1>k DEF CasShaped
    <2>4. env'.rotted = env.rotted
      BY <1>1 DEF PowerLoss, Shaped, EnvShaped, Rec
    <2>5. NamesAreGood'
      BY <1>k, <2>2, <2>4 DEF NamesAreGood, CasShaped
    <2>6. \A d : Held(d) => Held(d)'
      BY <2>2 DEF Held
    <2>7. \A q \in Procs : pr'[q].pc \in Resting
      <3>1. \A q \in Procs : pr[q].tries \in Nat
        BY DEF Shaped, ProcsShaped, IsProc
      <3> QED BY <1>1, <3>1, IdleIsProc DEF PowerLoss, Resting
    <2>8. CommandKnows'
      BY <2>7 DEF CommandKnows, Knows, Resting
    <2>9. LogHeld'
      BY <1>0, <1>k, <2>6 DEF LogHeld
    <2> QED BY <2>3, <2>5, <2>8, <2>9 DEF HoldInv
  <1>2. CASE ObjectRots
    <2>1. PICK d \in Digests : cas' = [cas EXCEPT !.bytes[d] = "torn"] /\ env' = [env EXCEPT !.rot = @ - 1, !.rotted = @ \cup {d}]
      BY <1>2 DEF ObjectRots
    <2>2. /\ Rec(cas', {"root", "dirs", "name", "bytes"}) /\ cas'.dirs = cas.dirs /\ cas'.name = cas.name
          /\ cas'.bytes = [cas.bytes EXCEPT ![d] = "torn"] /\ env'.rotted = env.rotted \cup {d}
      BY <2>1, <1>k DEF CasShaped, Rec, Shaped, EnvShaped
    <2>3. CasShaped'
      BY <2>2, <1>k DEF CasShaped
    <2>4. NamesAreGood'
      BY <1>k, <2>2 DEF NamesAreGood, CasShaped
    <2>5. pr' = pr
      BY <1>2 DEF ObjectRots
    <2>6. LogHeld' /\ CommandKnows'
      BY <1>0, <1>k, <2>2, <2>5 DEF LogHeld, CommandKnows, Knows, Held
    <2> QED BY <2>3, <2>4, <2>6 DEF HoldInv
  <1>3. CASE DamageImage
    <2>1. cas' = cas /\ env'.rotted = env.rotted
      BY <1>3 DEF DamageImage, Shaped, EnvShaped, Rec
    <2> QED BY <1>0, <2>1, HoldFrame DEF Quiet
  <1>4. CASE RemoveStore
    <2>1. cas' = cas /\ env'.rotted = env.rotted
      BY <1>4 DEF RemoveStore, Shaped, EnvShaped, Rec
    <2> QED BY <1>0, <2>1, HoldFrame DEF Quiet
  <1> QED BY <1>1, <1>2, <1>3, <1>4

(* The store's invariant is inductive.                                     *)
LEMMA HoldStep ==
    ASSUME Shaped, HoldInv, Next
    PROVE  HoldInv'
  <1>1. ASSUME NEW p \in Procs, Work(p) PROVE HoldInv'
    <2> USE DEF Shaped
    <2>1. CASE Command(p)
      BY <2>1, CommandHolds
    <2>2. CASE Rebuild(p)
      BY <2>2, RebuildMoves, RebuildKeepsShape, HoldFrame
    <2>3. CASE CreateBackup(p)
      BY <2>3, BackupMoves, HoldFrame
    <2>4. CASE RestoreBackup(p)
      BY <2>4, RestoreMoves, HoldFrame
    <2>5. CASE OpenStore(p)
      BY <2>5, OpenMoves, HoldFrame
    <2>6. CASE Begin(p) \/ Crash(p) \/ Diagnose(p)
      BY <2>6, BeginMoves, HoldFrame
    <2> QED BY <1>1, <2>1, <2>2, <2>3, <2>4, <2>5, <2>6 DEF Work
  <1>2. CASE PowerLoss \/ ObjectRots \/ DamageImage \/ RemoveStore
    BY <1>2, DisturbHolds
  <1> QED BY <1>1, <1>2 DEF Next

(* It holds in an empty store.                                             *)
LEMMA HoldInit ==
    ASSUME Init
    PROVE  HoldInv
  <1>1. PICK w \in Workloads :
            /\ ws = [log |-> <<>>, receipts |-> {}, intents |-> {}, hasLog |-> w.hasLog, tables |-> EmptyTables]
            /\ cas = [EmptyCas EXCEPT !.root = w.root]
            /\ pr = [p \in Procs |-> IdleProc(w.job[p].tries)]
    BY DEF Init
  <1>2. CasShaped /\ \A d \in Digests : cas.name[d] = "absent"
    BY <1>1 DEF CasShaped, EmptyCas, Rec
  <1>3. \A p \in Procs : pr[p].pc = "idle"
    BY <1>1, IdleIsProc, WorkloadsAssumption
  <1>4. LogHeld
    BY <1>1 DEF LogHeld, Referenced
  <1> QED BY <1>2, <1>3, <1>4 DEF HoldInv, NamesAreGood, CommandKnows, Knows

(* For every number of processes and objects: the event log and the        *)
(* receipts never name an object the store could lose (store.py _publish). *)
THEOREM ReferencesHold == Spec => []ReferencedIsHeld
  <1>1. Init => Shaped /\ HoldInv
    BY ShapeInit, HoldInit
  <1>2. Shaped /\ HoldInv /\ [Next]_vars => (Shaped /\ HoldInv)'
    <2>1. CASE Next
      BY <2>1, ShapeStep, HoldStep
    <2>2. CASE UNCHANGED vars
      BY <2>2 DEF vars, Shaped, JobGiven, ProcsShaped, WsShaped, EnvShaped, HoldInv, CasShaped, NamesAreGood, LogHeld,
                  CommandKnows, Knows, Held
    <2> QED BY <2>1, <2>2
  <1>3. HoldInv => ReferencedIsHeld
    <2> SUFFICES ASSUME HoldInv,
                        NEW d \in (Referenced(ws.log) \cup UNION {r.artifacts : r \in ws.receipts}) \ env.rotted
                 PROVE  cas.dirs = "durable" /\ cas.name[d] = "durable" /\ cas.bytes[d] = "good"
      BY DEF ReferencedIsHeld
    <2>1. Held(d)
      BY DEF HoldInv, LogHeld
    <2> QED BY <2>1 DEF HoldInv, NamesAreGood, Held
  <1> QED BY <1>1, <1>2, <1>3, PTL DEF Spec

-----------------------------------------------------------------------------
(* Sequences.  A prefix of the log is not changed by an append.            *)
LEMMA PrefixOfAppend ==
    ASSUME NEW S, NEW s \in Seq(S), NEW e \in S, NEW n \in 0..Len(s)
    PROVE  SubSeq(Append(s, e), 1, n) = SubSeq(s, 1, n)
  <1>1. \A i \in 1..n : Append(s, e)[i] = s[i]
    OBVIOUS
  <1> QED BY <1>1

(* A nonempty set of naturals has a least element.                         *)
LEMMA LeastNatural ==
    ASSUME NEW T \in SUBSET Nat, T # {}
    PROVE  \E x \in T : \A y \in T : x <= y
  <1> DEFINE R == OpToRel(<, Nat)
  <1>1. IsWellFoundedOn(R, Nat)
    BY NatLessThanWellFounded
  <1>2. \A x, y \in Nat : y < x => <<y, x>> \in R
    BY DEF OpToRel
  <1> HIDE DEF R
  <1>3. PICK x \in T : \A y \in T : ~ (<<y, x>> \in R)
    BY <1>1, WFMin
  <1>4. \A y \in T : ~ (y < x)
    BY <1>2, <1>3
  <1>5. \A y \in T : x <= y
    BY <1>4
  <1> QED BY <1>5

(* The first place of a set of places of the log, or 0, is a place of it.  *)
LEMMA FirstPlace ==
    ASSUME NEW n \in Nat, NEW T \in SUBSET (1..n)
    PROVE  (IF T # {} THEN Min(T) ELSE 0) \in 0..n
  <1>1. CASE T # {}
    <2>1. T \in SUBSET Nat
      OBVIOUS
    <2>2. \E x \in T : \A y \in T : x <= y
      BY <1>1, <2>1, LeastNatural
    <2>3. Min(T) \in T
      BY <2>2 DEF Min
    <2>4. Min(T) \in 0..n
      <3> DEFINE m == Min(T)
      <3>1. m \in T
        BY <2>3
      <3> HIDE DEF m
      <3>2. m \in 0..n
        BY <3>1
      <3> QED BY <3>2 DEF m
    <2> QED BY <1>1, <2>4
  <1>2. CASE T = {}
    BY <1>2
  <1> QED BY <1>1, <1>2

-----------------------------------------------------------------------------
(* The query tables.  Specs and links are those of one prefix, a row is    *)
(* that of the prefix it names, and a rebuild froze a place of the log.    *)
TablesOf(n) ==
    ws.tables.specs = SpecRevisions(SubSeq(ws.log, 1, n)) /\ ws.tables.links = ArtifactLinks(SubSeq(ws.log, 1, n))

RowSound(row) == row.last \in 0..Len(ws.log) /\ row = RunRow(SubSeq(ws.log, 1, row.last), row.run, row.last)

Froze(p) == pr[p].pc = "replace" => pr[p].high \in 0..Len(ws.log)

TablesInv ==
    /\ \E n \in 0..Len(ws.log) : TablesOf(n)
    /\ \A row \in ws.tables.runs : RowSound(row)
    /\ \A p \in Procs : job[p].op = "rebuild" => Froze(p)

(* A step that leaves the log, the tables and the rebuilds alone.          *)
LEMMA TablesFrame ==
    ASSUME TablesInv, job' = job, ws'.log = ws.log, ws'.tables = ws.tables,
           \A q \in Procs : pr'[q] = pr[q] \/ job[q].op # "rebuild" \/ pr'[q].pc \in Resting
    PROVE  TablesInv'
  <1>1. \A q \in Procs : job[q].op = "rebuild" => Froze(q)'
    BY DEF TablesInv, Froze, Resting
  <1> QED BY <1>1 DEF TablesInv, TablesOf, RowSound

(* An append keeps every prefix, so the tables and the rows stay theirs.   *)
LEMMA TablesOfAppend ==
    ASSUME Shaped, TablesInv, NEW p \in Procs, AppendFact(p)
    PROVE  TablesInv'
  <1>1. job[p].op = "command" /\ job' = job /\ \A q \in Procs \ {p} : pr'[q] = pr[q]
    <2>1. Command(p)
      BY DEF Command
    <2> QED BY <2>1, CommandMoves DEF Shaped, AppendFact
  <1>2. CASE ws' = ws
    BY <1>1, <1>2, TablesFrame
  <1>3. CASE ws' = [ws EXCEPT !.log = Append(@, Fact(p))]
    <2>1. ws'.log = Append(ws.log, Fact(p)) /\ ws'.tables = ws.tables /\ ws.log \in Seq(Facts) /\ Fact(p) \in Facts
      BY <1>3, JobNamesObject DEF Shaped, WsShaped, Rec
    <2>2. \A n \in 0..Len(ws.log) : SubSeq(ws'.log, 1, n) = SubSeq(ws.log, 1, n)
      BY <2>1, PrefixOfAppend
    <2>3. \A n \in 0..Len(ws.log) : n \in 0..Len(ws'.log)
      BY <2>1
    <2>4. \E n \in 0..Len(ws'.log) : TablesOf(n)'
      BY <2>1, <2>2, <2>3 DEF TablesInv, TablesOf
    <2>5. \A row \in ws'.tables.runs : RowSound(row)'
      BY <2>1, <2>2, <2>3 DEF TablesInv, RowSound
    <2>6. \A q \in Procs : job[q].op = "rebuild" => Froze(q)'
      BY <1>1, <2>3 DEF TablesInv, Froze
    <2> QED BY <1>1, <2>4, <2>5, <2>6 DEF TablesInv
  <1> QED BY <1>2, <1>3 DEF AppendFact

(* The row a command writes is that of its own fact's place.               *)
LEMMA TablesOfCache ==
    ASSUME Shaped, TablesInv, NEW p \in Procs, CacheRun(p)
    PROVE  TablesInv'
  <1>1. job[p].op = "command" /\ job' = job /\ \A q \in Procs \ {p} : pr'[q] = pr[q]
    <2>1. Command(p)
      BY DEF Command
    <2> QED BY <2>1, CommandMoves DEF Shaped, CacheRun
  <1> DEFINE n == SelectInSeq(ws.log, LAMBDA e : e.id = p)
             row == RunRow(SubSeq(ws.log, 1, n), job[p].run, n)
  <1>2. n \in 0..Len(ws.log)
    <2> DEFINE T == {i \in 1..Len(ws.log) : ws.log[i].id = p}
    <2>1. n = IF T # {} THEN Min(T) ELSE 0
      BY DEF SelectInSeq
    <2>2. Len(ws.log) \in Nat
      BY LenProperties DEF Shaped, WsShaped
    <2>3. T \in SUBSET (1..Len(ws.log))
      OBVIOUS
    <2> HIDE DEF T, n
    <2> QED BY <2>1, <2>2, <2>3, FirstPlace
  <1>3. CASE ws' = ws
    BY <1>1, <1>3, TablesFrame
  <1>4. CASE ws' = [ws EXCEPT !.tables = UpsertRunProjection(@, row)]
    <2>1. ws'.log = ws.log /\ ws'.tables = UpsertRunProjection(ws.tables, row)
      BY <1>4 DEF Shaped, WsShaped, Rec
    <2>2. row.last = n /\ row.run = job[p].run /\ row = RunRow(SubSeq(ws.log, 1, n), job[p].run, n)
      BY DEF RunRow
    <2> HIDE DEF n, row
    <2>3. /\ ws'.tables.specs = ws.tables.specs /\ ws'.tables.links = ws.tables.links
          /\ ws'.tables.runs \subseteq ws.tables.runs \cup {row}
      BY <2>1 DEF UpsertRunProjection, Shaped, WsShaped, Rec
    <2>4. RowSound(row)
      BY <1>2, <2>2 DEF RowSound
    <2>5. \A r \in ws'.tables.runs : RowSound(r)'
      BY <2>1, <2>3, <2>4 DEF TablesInv, RowSound
    <2>6. \E k \in 0..Len(ws'.log) : TablesOf(k)'
      BY <2>1, <2>3 DEF TablesInv, TablesOf
    <2>7. \A q \in Procs : job[q].op = "rebuild" => Froze(q)'
      BY <1>1, <2>1 DEF TablesInv, Froze
    <2> QED BY <1>1, <2>5, <2>6, <2>7 DEF TablesInv
  <1> QED BY <1>3, <1>4 DEF CacheRun

(* A rebuild replays the prefix it froze, whatever was appended since.     *)
LEMMA TablesOfRebuild ==
    ASSUME Shaped, TablesInv, NEW p \in Procs, Rebuild(p)
    PROVE  TablesInv'
  <1>1. job[p].op = "rebuild" /\ job' = job /\ ws'.log = ws.log /\ \A q \in Procs \ {p} : pr'[q] = pr[q]
    BY RebuildMoves, RebuildKeepsShape DEF Shaped
  <1>2. \A q \in Procs \ {p} : job[q].op = "rebuild" => Froze(q)'
    BY <1>1 DEF TablesInv, Froze
  <1>3. ProcsShaped /\ Rec(pr[p], ProcFields) /\ Len(ws.log) \in Nat
    BY LenProperties DEF Shaped, ProcsShaped, IsProc, WsShaped
  <1>4. CASE FreezeHighWater(p)
    <2> DEFINE new == [Go(p, "replace") EXCEPT !.high = Len(ws.log)]
    <2>1. IsProc(new) /\ new.high = Len(ws.log)
      <3>1. IsProc(new)
        BY <1>3, GoIsProc, UpdatesKeepProc
      <3>2. new.high = Len(ws.log)
        BY <1>3 DEF Go, Rec, ProcFields
      <3> QED BY <3>1, <3>2
    <2>2. Step(p, new) /\ ws' = ws
      BY <1>4 DEF FreezeHighWater
    <2> HIDE DEF new
    <2>3. pr'[p].high = Len(ws.log)
      BY <1>3, <2>1, <2>2, Stepped
    <2>4. Froze(p)'
      BY <1>3, <2>2, <2>3 DEF Froze
    <2> QED BY <1>1, <1>2, <2>2, <2>4 DEF TablesInv, TablesOf, RowSound
  <1>5. CASE ReplaceQueryTables(p)
    <2>1. pr'[p].pc \in {"idle", "done"}
      BY <1>3, <1>5, FinishSteps, AbortSteps DEF ReplaceQueryTables
    <2>2. Froze(p)'
      BY <2>1 DEF Froze
    <2>3. CASE ws' = ws
      BY <1>1, <1>2, <2>2, <2>3 DEF TablesInv, TablesOf, RowSound
    <2>4. CASE ws' = [ws EXCEPT !.tables = Rebuilt(ws.log, pr[p].high)]
      <3>1. pr[p].high \in 0..Len(ws.log)
        BY <1>1, <1>5 DEF TablesInv, Froze, ReplaceQueryTables, At
      <3>2. ws'.tables = Rebuilt(ws.log, pr[p].high)
        BY <2>4 DEF Shaped, WsShaped, Rec
      <3> DEFINE prefix == SubSeq(ws.log, 1, pr[p].high)
      <3>3. /\ ws'.tables.specs = SpecRevisions(prefix) /\ ws'.tables.links = ArtifactLinks(prefix)
            /\ ws'.tables.runs = {RunRow(prefix, r, pr[p].high) : r \in Runs(prefix)}
        BY <3>2 DEF Rebuilt, ReadEvents
      <3>4. \E k \in 0..Len(ws'.log) : TablesOf(k)'
        BY <1>1, <3>1, <3>3 DEF TablesOf
      <3>6. ASSUME NEW row \in ws'.tables.runs PROVE RowSound(row)'
        <4>1. PICK r \in Runs(prefix) : row = RunRow(prefix, r, pr[p].high)
          BY <3>3
        <4>2. row.last = pr[p].high /\ row.run = r
          BY <4>1 DEF RunRow
        <4>3. row = RunRow(SubSeq(ws.log, 1, row.last), row.run, row.last)
          BY <4>1, <4>2
        <4> QED BY <1>1, <3>1, <4>2, <4>3 DEF RowSound
      <3> QED BY <1>1, <1>2, <2>2, <3>4, <3>6 DEF TablesInv
    <2> QED BY <1>5, <2>3, <2>4 DEF ReplaceQueryTables
  <1> QED BY <1>4, <1>5 DEF Rebuild

(* The tables' invariant is inductive.                                     *)
LEMMA TablesStep ==
    ASSUME Shaped, TablesInv, Next
    PROVE  TablesInv'
  <1>1. ASSUME NEW p \in Procs, Work(p) PROVE TablesInv'
    <2> USE DEF Shaped
    <2>1. CASE Command(p)
      <3>0. job[p].op = "command" /\ job' = job /\ \A q \in Procs \ {p} : pr'[q] = pr[q]
        BY <2>1, CommandMoves, CommandKeepsShape
      <3>1. CASE AppendFact(p)
        BY <3>1, TablesOfAppend
      <3>2. CASE CacheRun(p)
        BY <3>2, TablesOfCache
      <3>3. CASE ~AppendFact(p) /\ ~CacheRun(p)
        <4>1. ws'.log = ws.log /\ ws'.tables = ws.tables
          BY <2>1, <3>3 DEF Command, ReserveEffect, Temp, SyncTemp, MakeDirs, SyncDirs, Link, SyncShard, AppendReceipt,
                            WsShaped, Rec
        <4> QED BY <3>0, <4>1, TablesFrame
      <3> QED BY <3>1, <3>2, <3>3
    <2>2. CASE Rebuild(p)
      BY <2>2, TablesOfRebuild
    <2>3. CASE CreateBackup(p)
      BY <2>3, BackupMoves, TablesFrame
    <2>4. CASE RestoreBackup(p)
      BY <2>4, RestoreMoves, TablesFrame
    <2>5. CASE OpenStore(p)
      BY <2>5, OpenMoves, TablesFrame
    <2>6. CASE Begin(p) \/ Crash(p) \/ Diagnose(p)
      BY <2>6, BeginMoves, TablesFrame
    <2> QED BY <1>1, <2>1, <2>2, <2>3, <2>4, <2>5, <2>6 DEF Work
  <1>2. CASE PowerLoss \/ ObjectRots \/ DamageImage \/ RemoveStore
    BY <1>2, DisturbMoves, TablesFrame DEF Shaped, Quiet
  <1> QED BY <1>1, <1>2 DEF Next

(* For every number of processes: the query tables are never a mixture     *)
(* (projections/sqlite.py rebuild_query_tables).                           *)
THEOREM TablesAreReplays == Spec => []TablesReplay
  <1>1. Init => Shaped /\ TablesInv
    <2> SUFFICES ASSUME Init PROVE TablesInv
      BY ShapeInit
    <2>1. PICK w \in Workloads :
            /\ ws = [log |-> <<>>, receipts |-> {}, intents |-> {}, hasLog |-> w.hasLog, tables |-> EmptyTables]
            /\ pr = [p \in Procs |-> IdleProc(w.job[p].tries)]
      BY DEF Init
    <2>2. \A p \in Procs : pr[p].pc = "idle"
      BY <2>1, IdleIsProc, WorkloadsAssumption
    <2>3. ws.log = <<>> /\ ws.tables = EmptyTables
      BY <2>1
    <2>4. SubSeq(<<>>, 1, 0) = <<>>
      OBVIOUS
    <2>5. SpecRevisions(<<>>) = {} /\ ArtifactLinks(<<>>) = {}
      BY DEF SpecRevisions, ArtifactLinks
    <2>6. TablesOf(0) /\ 0 \in 0..Len(ws.log)
      <3>1. SubSeq(ws.log, 1, 0) = <<>> /\ Len(ws.log) = 0
        BY <2>3, <2>4
      <3>2. ws.tables.specs = {} /\ ws.tables.links = {}
        BY <2>3 DEF EmptyTables
      <3>3. TablesOf(0)
        BY <3>1, <3>2, <2>5 DEF TablesOf
      <3> QED BY <3>1, <3>3
    <2>7. \A row \in ws.tables.runs : RowSound(row)
      BY <2>3 DEF EmptyTables
    <2> QED BY <2>2, <2>6, <2>7 DEF TablesInv, Froze
  <1>2. Shaped /\ TablesInv /\ [Next]_vars => (Shaped /\ TablesInv)'
    <2>1. CASE Next
      BY <2>1, ShapeStep, TablesStep
    <2>2. CASE UNCHANGED vars
      BY <2>2, TablesFrame DEF vars, Shaped, JobGiven, ProcsShaped, WsShaped, EnvShaped
    <2> QED BY <2>1, <2>2
  <1>3. TablesInv => TablesReplay
    BY DEF TablesInv, TablesReplay, TablesOf, RowSound
  <1> QED BY <1>1, <1>2, <1>3, PTL DEF Spec

-----------------------------------------------------------------------------
(* The control database as a file.  Its header and its migrations agree, a *)
(* file without a marker is foreign, or its creator is about to write the  *)
(* marker, or is one of the cases set aside; and an opener past Look knows *)
(* that the file is there and, once it has read the header, whose it is.   *)
DbFields == {"dir", "file", "marker", "application", "version", "applied", "facts", "lost", "altered"}

Header(f) ==
    /\ Rec(f, DbFields) /\ f.facts \in Nat /\ f.applied \in [1..2 -> {0, 1}]
    /\ f.application # "ours" => f.applied[1] = 0 /\ f.applied[2] = 0
    /\ f.application = "ours" /\ f.version = 1 => f.applied[2] = 0
    /\ f.facts > 0 => f.application = "ours" /\ f.version = SCHEMA_VERSION
    /\ IF f.file THEN f.dir ELSE f.facts = 0

MarkerKept ==
    /\ db.lost => db.marker \/ ~db.dir \/ env.unmarked
    /\ db.file => db.marker \/ db.application = "other" \/ env.unmarked \/ \E p \in Procs : Unmarked(p)

Opens(p) ==
    /\ pr[p].pc \in {"mark", "schema", "opened"} => db.file
    /\ pr[p].pc = "schema" /\ pr[p].seen = "ours" => db.application = "ours"

ReportHonest == rep # None /\ rep.store = "not-yet-populated" => ~rep.held \/ env.unmarked

FileInv == Header(db) /\ MarkerKept /\ (\A p \in Procs : job[p].op = "open" => Opens(p)) /\ ReportHonest

(* A step that leaves the file and the openers alone.                      *)
LEMMA FileFrame ==
    ASSUME FileInv, db' = db, job' = job, rep' = rep, env'.unmarked = env.unmarked,
           \A q \in Procs : pr'[q] = pr[q] \/ job[q].op # "open"
    PROVE  FileInv'
  <1>1. \A q \in Procs : job[q].op = "open" => Opens(q)'
    BY DEF FileInv, Opens
  <1>2. \A q \in Procs : Unmarked(q) <=> Unmarked(q)'
    BY DEF Unmarked, At
  <1> QED BY <1>1, <1>2 DEF FileInv, MarkerKept, ReportHonest

(* A process that starts or dies leaves the file alone; a creator that     *)
(* dies before its marker is set aside.                                    *)
LEMMA FileBegins ==
    ASSUME Shaped, FileInv, NEW p \in Procs, Begin(p) \/ Crash(p)
    PROVE  FileInv'
  <1>0. /\ db' = db /\ job' = job /\ rep' = rep /\ \A q \in Procs \ {p} : pr'[q] = pr[q]
        /\ env.unmarked => env'.unmarked
    BY BeginMoves DEF Shaped, Begin, Crash, EnvShaped, Rec
  <1>s. ProcsShaped /\ Rec(pr[p], ProcFields) /\ pr[p].tries \in Nat
    BY DEF Shaped, ProcsShaped, IsProc
  <1>1. \A q \in Procs \ {p} : (job[q].op = "open" => Opens(q)') /\ (Unmarked(q) <=> Unmarked(q)')
    BY <1>0 DEF FileInv, Opens, Unmarked, At
  <1>2. CASE Begin(p)
    <2>1. ~Unmarked(p) /\ env' = env
      BY <1>2 DEF Begin, Unmarked, At
    <2>2. pr'[p].pc = "begun"
      <3> DEFINE new == [Go(p, "begun") EXCEPT !.tries = @ - 1]
      <3>1. Go(p, "begun").tries = pr[p].tries
        BY <1>s DEF Go, Rec, ProcFields
      <3>2. IsProc(new) /\ new.pc = "begun"
        BY <1>2, <1>s, <3>1, GoIsProc DEF IsProc, Rec, ProcFields, Begin
      <3> QED BY <1>2, <1>s, <3>2, Stepped DEF Begin
    <2>3. job[p].op = "open" => Opens(p)'
      BY <1>0, <2>1, <2>2 DEF FileInv, Opens
    <2>4. MarkerKept'
      BY <1>0, <1>1, <2>1 DEF FileInv, MarkerKept
    <2> QED BY <1>0, <1>1, <2>1, <2>3, <2>4 DEF FileInv, ReportHonest
  <1>3. CASE Crash(p)
    <2>1. Unmarked(p) => env'.unmarked
      BY <1>3 DEF Crash, Shaped, EnvShaped, Rec
    <2>2. pr'[p].pc = "idle"
      BY <1>3, <1>s, AbortSteps DEF Crash
    <2>4. job[p].op = "open" => Opens(p)'
      BY <1>0, <2>2 DEF FileInv, Opens
    <2>5. MarkerKept'
      BY <1>0, <1>1, <2>1 DEF FileInv, MarkerKept
    <2> QED BY <1>0, <1>1, <2>4, <2>5 DEF FileInv, ReportHonest
  <1> QED BY <1>2, <1>3

(* The doctor calls a store not yet populated only when none held facts.   *)
LEMMA FileDiagnosed ==
    ASSUME Shaped, FileInv, NEW p \in Procs, Diagnose(p)
    PROVE  FileInv'
  <1>1. /\ db' = db /\ job' = job /\ env' = env /\ job[p].op = "doctor" /\ \A q \in Procs \ {p} : pr'[q] = pr[q]
    BY BeginMoves DEF Shaped, Diagnose, At
  <1>2. /\ rep' = [store |-> CheckControlStore(db), migration |-> CheckMigration(db), plan |-> PlanMigration(db),
                   held |-> db.facts > 0 \/ db.lost]
    BY DEF Diagnose
  <1>3. rep'.store = CheckControlStore(db) /\ rep'.held = (db.facts > 0 \/ db.lost)
    BY <1>2
  <1>4. CheckControlStore(db) = "not-yet-populated" => ~db.file /\ ~db.marker /\ db.dir
    BY DEF CheckControlStore, AbsentControlStore, ControlStoreWasRemoved
  <1>5. ReportHonest'
    <2>1. ~db.file => ~(db.facts > 0)
      BY DEF FileInv, Header
    <2>2. db.lost => db.marker \/ ~db.dir \/ env.unmarked
      BY DEF FileInv, MarkerKept
    <2>3. rep'.store = "not-yet-populated" => ~db.file /\ ~db.marker /\ db.dir
      BY <1>3, <1>4
    <2>4. rep'.store = "not-yet-populated" => ~rep'.held \/ env.unmarked
      BY <1>3, <2>1, <2>2, <2>3, Zenon
    <2>5. env'.unmarked = env.unmarked
      BY <1>1
    <2> QED BY <2>4, <2>5, Zenon DEF ReportHonest
  <1>6. \A q \in Procs : job[q].op = "open" => Opens(q)'
    BY <1>1 DEF FileInv, Opens
  <1>7. \A q \in Procs : Unmarked(q) <=> Unmarked(q)'
    BY <1>1 DEF Unmarked, At
  <1> QED BY <1>1, <1>5, <1>6, <1>7 DEF FileInv, MarkerKept

(* What an opener does to the file keeps all of this.                      *)
LEMMA FileOpened ==
    ASSUME Shaped, FileInv, NEW p \in Procs, OpenStore(p)
    PROVE  FileInv'
  <1>0. /\ job[p].op = "open" /\ job' = job /\ rep' = rep /\ \A q \in Procs \ {p} : pr'[q] = pr[q]
    BY OpenMoves DEF Shaped
  <1>s. ProcsShaped /\ Rec(pr[p], ProcFields)
    BY DEF Shaped, ProcsShaped, IsProc
  <1>o. Opens(p) /\ Header(db) /\ MarkerKept /\ ReportHonest
    BY <1>0 DEF FileInv
  <1>1. \A q \in Procs \ {p} : Unmarked(q) <=> Unmarked(q)'
    BY <1>0 DEF Unmarked, At
  <1>2. CASE Look(p)
    <2>1. db' = db /\ env' = env /\ ~Unmarked(p)
      BY <1>2 DEF Look, At, Unmarked
    <2>2. pr'[p].pc \in {"idle", "connect"}
      <3> DEFINE new == [Go(p, "connect") EXCEPT !.isNew = ~db.file]
      <3>1. IsProc(new)
        BY <1>s, GoIsProc, UpdatesKeepProc
      <3>2. new.pc = "connect"
        BY <1>s DEF Go, Rec, ProcFields
      <3>3. Abort(p) \/ Step(p, new)
        BY <1>2 DEF Look
      <3> HIDE DEF new
      <3> QED BY <1>s, <3>1, <3>2, <3>3, AbortSteps, Stepped
    <2>3. \A q \in Procs : job[q].op = "open" => Opens(q)'
      BY <1>0, <2>1, <2>2 DEF FileInv, Opens
    <2>4. MarkerKept'
      BY <1>o, <1>1, <2>1 DEF MarkerKept
    <2> QED BY <1>0, <1>o, <2>1, <2>3, <2>4 DEF FileInv, ReportHonest
  <1>3. CASE Connect(p)
    <2>1. ~Unmarked(p)
      BY <1>3 DEF Connect, At, Unmarked
    <2>2. CASE /\ CanConnect(db, job[p].mode) /\ db' = ConnectSqlite(db, job[p].mode) /\ Step(p, Go(p, "mark"))
               /\ env' = [env EXCEPT !.unmarked = @ \/ ~(db.file \/ db.marker \/ pr[p].isNew)]
      <3>1. /\ db'.file /\ db'.dir = db.dir /\ db'.marker = db.marker /\ db'.application = db.application
            /\ db'.facts = db.facts /\ db'.lost = db.lost /\ Header(db')
        BY <1>o, <2>2 DEF CanConnect, ConnectSqlite, Header, Rec, DbFields
      <3>2. pr'[p].pc = "mark" /\ pr'[p].isNew = pr[p].isNew
        <4>1. pr'[p] = Go(p, "mark")
          BY <1>s, <2>2, Stepped, GoIsProc
        <4> QED BY <1>s, <4>1 DEF Go, Rec, ProcFields
      <3>3. env'.unmarked = (env.unmarked \/ ~(db.file \/ db.marker \/ pr[p].isNew))
        BY <2>2 DEF Shaped, EnvShaped, Rec
      <3>4. \A q \in Procs : job[q].op = "open" => Opens(q)'
        BY <1>0, <3>1, <3>2 DEF FileInv, Opens
      <3>5. MarkerKept'
        <4>1. CASE db.file
          BY <1>o, <1>1, <2>1, <3>1, <3>3, <4>1 DEF MarkerKept
        <4>2. CASE ~db.file
          <5>1. job[p].mode = "create"
            BY <2>2, <4>2 DEF CanConnect
          <5>2. pr[p].isNew => Unmarked(p)'
            BY <1>0, <3>2, <5>1 DEF Unmarked, At
          <5> QED BY <1>o, <3>1, <3>3, <4>2, <5>2 DEF MarkerKept
        <4> QED BY <4>1, <4>2
      <3> QED BY <1>0, <1>o, <3>1, <3>3, <3>4, <3>5 DEF FileInv, ReportHonest
    <2>3. CASE Abort(p) /\ db' = db /\ env' = env
      <3>1. pr'[p].pc = "idle"
        BY <1>s, <2>3, AbortSteps
      <3>2. (\A q \in Procs : job[q].op = "open" => Opens(q)') /\ MarkerKept'
        BY <1>0, <1>o, <1>1, <2>1, <2>3, <3>1 DEF FileInv, Opens, MarkerKept
      <3> QED BY <1>0, <1>o, <2>3, <3>2 DEF FileInv, ReportHonest
    <2> QED BY <1>3, <2>2, <2>3 DEF Connect
  <1>4. CASE MarkNew(p)
    <2> DEFINE new == [Go(p, "schema") EXCEPT !.seen = db.application, !.version = db.version]
    <2>1. IsProc(new) /\ new.pc = "schema" /\ new.seen = db.application
      <3>1. IsProc(new)
        BY <1>s, GoIsProc, UpdatesKeepProc
      <3>2. new.pc = "schema" /\ new.seen = db.application
        BY <1>s DEF Go, Rec, ProcFields
      <3> QED BY <3>1, <3>2
    <2>2. Step(p, new)
      BY <1>4 DEF MarkNew
    <2> HIDE DEF new
    <2>3. pr'[p].pc = "schema" /\ pr'[p].seen = db.application
      BY <1>s, <2>1, <2>2, Stepped
    <2>4. db.file
      BY <1>4, <1>o DEF MarkNew, At, Opens
    <2>5. /\ db'.file = db.file /\ db'.application = db.application /\ db'.facts = db.facts /\ Header(db')
          /\ db'.dir = db.dir /\ db'.lost = db.lost
          /\ db.marker => db'.marker
          /\ Unmarked(p) => db'.marker \/ env'.unmarked
          /\ env.unmarked => env'.unmarked
      BY <1>4, <1>o DEF MarkNew, WriteControlStoreMarker, Header, Rec, DbFields, Shaped, EnvShaped
    <2>6. Opens(p)' /\ \A q \in Procs \ {p} : job[q].op = "open" => Opens(q)'
      BY <1>0, <2>3, <2>4, <2>5 DEF FileInv, Opens
    <2>7. MarkerKept'
      BY <1>o, <1>1, <2>4, <2>5 DEF MarkerKept
    <2> QED BY <1>0, <1>o, <2>5, <2>6, <2>7 DEF FileInv, ReportHonest
  <1>5. CASE InitializeSchema(p)
    <2>1. env' = env /\ db.file /\ ~Unmarked(p) /\ (pr[p].seen = "ours" => db.application = "ours")
      BY <1>5, <1>o DEF InitializeSchema, At, Opens, Unmarked
    <2>2. pr'[p].pc \in {"opened", "idle"}
      BY <1>5, <1>s, AbortSteps, Stepped, GoIsProc DEF InitializeSchema
    <2>3. /\ db'.file = db.file /\ db'.dir = db.dir /\ db'.facts = db.facts /\ db'.lost = db.lost /\ db'.marker = db.marker /\ Header(db')
          /\ db.application = "ours" => db'.application = "ours"
          /\ db.application = "other" => db'.application = "other"
      <3>1. CASE db' = db
        BY <1>o, <3>1
      <3>2. CASE CanInitialize(db, job[p].mode, pr[p].seen) /\ db' = Initialized(db, pr[p].seen)
        <4>1. CASE pr[p].seen = "none" /\ db.application # "ours"
          <5>1. db' = CreateUnchecked(db) /\ db.application = "none"
            BY <3>2, <4>1 DEF CanInitialize, Initialized, CreateSchema
          <5>2. db.applied[1] = 0 /\ db.applied[2] = 0 /\ ~(db.facts > 0)
            BY <1>o, <2>1, <4>1 DEF Header
          <5>3. /\ Rec(db', DbFields) /\ db'.file = db.file
                /\ db'.dir = db.dir /\ db'.facts = db.facts /\ db'.lost = db.lost /\ db'.marker = db.marker
                /\ db'.application = "ours" /\ db'.version = SCHEMA_VERSION
                /\ db'.applied = <<db.applied[1] + 1, db.applied[2] + 1>>
            BY <1>o, <5>1 DEF CreateUnchecked, Header, Rec, DbFields
          <5>4. db'.applied = <<1, 1>>
            BY <5>2, <5>3
          <5> QED BY <1>o, <5>1, <5>3, <5>4 DEF Header, SCHEMA_VERSION
        <4>2. CASE pr[p].seen = "none" /\ db.application = "ours"
          BY <1>o, <3>2, <4>2 DEF Initialized, CreateSchema
        <4>3. CASE pr[p].seen # "none"
          <5>1. db.application = "ours" /\ db' = UpgradeSchema(db)
            BY <2>1, <3>2, <4>3 DEF CanInitialize, Initialized
          <5>2. CASE db.version = 1
            <6>1. db.applied[2] = 0
              BY <1>o, <5>1, <5>2 DEF Header
            <6>2. /\ Rec(db', DbFields) /\ db'.file = db.file
                /\ db'.dir = db.dir /\ db'.facts = db.facts /\ db'.lost = db.lost /\ db'.marker = db.marker
                  /\ db'.application = "ours" /\ db'.version = SCHEMA_VERSION
                  /\ db'.applied = [db.applied EXCEPT ![2] = @ + 1]
              BY <1>o, <5>1, <5>2 DEF UpgradeSchema, Header, Rec, DbFields
            <6>3. db'.applied \in [1..2 -> {0, 1}]
              BY <1>o, <6>1, <6>2 DEF Header
            <6> QED BY <1>o, <5>1, <6>2, <6>3 DEF Header, SCHEMA_VERSION
          <5>3. CASE db.version # 1
            BY <1>o, <5>1, <5>3 DEF UpgradeSchema
          <5> QED BY <5>2, <5>3
        <4> QED BY <4>1, <4>2, <4>3
      <3> QED BY <1>5, <3>1, <3>2 DEF InitializeSchema
    <2>4. Opens(p)' /\ \A q \in Procs \ {p} : job[q].op = "open" => Opens(q)'
      BY <1>0, <2>1, <2>2, <2>3 DEF FileInv, Opens
    <2>5. MarkerKept'
      BY <1>o, <1>1, <2>1, <2>3 DEF MarkerKept
    <2> QED BY <1>0, <1>o, <2>1, <2>3, <2>4, <2>5 DEF FileInv, ReportHonest
  <1>6. CASE UseStore(p)
    <2>1. env' = env /\ db.file /\ ~Unmarked(p)
      BY <1>6, <1>o DEF UseStore, At, Opens, Unmarked
    <2>2. pr'[p].pc \in {"done", "idle"}
      BY <1>6, <1>s, AbortSteps, FinishSteps DEF UseStore
    <2>3. /\ db'.file = db.file /\ db'.dir = db.dir /\ db'.lost = db.lost /\ db'.marker = db.marker /\ db'.application = db.application /\ Header(db')
      <3>1. CASE db' = db
        BY <1>o, <3>1
      <3>2. CASE VerifySchema(db) /\ db' = [db EXCEPT !.facts = @ + 1]
        BY <1>o, <2>1, <3>2 DEF VerifySchema, Header, Rec, DbFields
      <3> QED BY <1>6, <3>1, <3>2 DEF UseStore
    <2>4. Opens(p)' /\ \A q \in Procs \ {p} : job[q].op = "open" => Opens(q)'
      BY <1>0, <2>1, <2>2, <2>3 DEF FileInv, Opens
    <2>5. MarkerKept'
      BY <1>o, <1>1, <2>1, <2>3 DEF MarkerKept
    <2> QED BY <1>0, <1>o, <2>1, <2>3, <2>4, <2>5 DEF FileInv, ReportHonest
  <1> QED BY <1>2, <1>3, <1>4, <1>5, <1>6 DEF OpenStore

(* A power loss and a removal of the file keep it too.                     *)
LEMMA FileDisturbed ==
    ASSUME Shaped, FileInv, PowerLoss \/ ObjectRots \/ DamageImage \/ RemoveStore
    PROVE  FileInv'
  <1>0. job' = job /\ rep' = rep
    BY DEF PowerLoss, ObjectRots, DamageImage, RemoveStore
  <1>o. Header(db) /\ MarkerKept /\ ReportHonest
    BY DEF FileInv
  <1>t. \A p \in Procs : pr[p].tries \in Nat
    BY DEF Shaped, ProcsShaped, IsProc
  <1>1. CASE PowerLoss
    <2>1. PICK kept \in BOOLEAN :
            /\ db' = [db EXCEPT !.marker = @ /\ kept]
            /\ env' = [env EXCEPT !.power = @ - 1, !.unmarked = @ \/ (db.marker /\ ~kept) \/ \E p \in Procs : Unmarked(p)]
      BY <1>1 DEF PowerLoss
    <2>2. /\ db'.file = db.file /\ db'.dir = db.dir /\ db'.lost = db.lost /\ db'.application = db.application
          /\ db'.marker = (db.marker /\ kept) /\ Header(db')
      BY <1>o, <2>1 DEF Header, Rec, DbFields
    <2>3. env'.unmarked = (env.unmarked \/ (db.marker /\ ~kept) \/ \E p \in Procs : Unmarked(p))
      BY <2>1 DEF Shaped, EnvShaped, Rec
    <2>4. \A p \in Procs : pr'[p].pc \in {"idle", "done"}
      BY <1>1, <1>t, IdleIsProc DEF PowerLoss
    <2>5. \A p \in Procs : job[p].op = "open" => Opens(p)'
      BY <2>2, <2>4 DEF FileInv, Opens
    <2>6. MarkerKept'
      BY <1>o, <2>2, <2>3 DEF MarkerKept
    <2> QED BY <1>0, <1>o, <2>2, <2>3, <2>5, <2>6 DEF FileInv, ReportHonest
  <1>2. CASE ObjectRots \/ DamageImage
    <2>1. db' = db /\ pr' = pr /\ env'.unmarked = env.unmarked
      BY <1>2 DEF ObjectRots, DamageImage, Shaped, EnvShaped, Rec
    <2> QED BY <1>0, <2>1, FileFrame
  <1>3. CASE RemoveStore
    <2>1. PICK dir \in BOOLEAN :
            db' = [NoFile EXCEPT !.dir = dir, !.marker = db.marker /\ dir, !.lost = db.lost \/ db.facts > 0]
      BY <1>3 DEF RemoveStore
    <2>2. /\ ~db'.file /\ db'.dir = dir /\ db'.facts = 0 /\ db'.marker = (db.marker /\ dir)
          /\ db'.lost = (db.lost \/ db.facts > 0) /\ db'.application = "none" /\ db'.applied = <<0, 0>> /\ Rec(db', DbFields)
      BY <2>1 DEF NoFile, Rec, DbFields
    <2>3. Header(db')
      BY <2>2 DEF Header
    <2>4. env'.unmarked = (env.unmarked \/ \E p \in Procs : Unmarked(p)) /\ db.file
      BY <1>3 DEF RemoveStore, Shaped, EnvShaped, Rec
    <2>5. \A p \in Procs : job[p].op = "open" => pr'[p].pc \notin {"mark", "schema", "opened"}
      BY <1>3, <1>t, IdleIsProc DEF RemoveStore
    <2>6. \A p \in Procs : job[p].op = "open" => Opens(p)'
      BY <1>0, <2>5 DEF Opens
    <2>7. MarkerKept'
      BY <1>o, <2>2, <2>4 DEF MarkerKept, Header
    <2> QED BY <1>0, <1>o, <2>3, <2>4, <2>6, <2>7 DEF FileInv, ReportHonest
  <1> QED BY <1>1, <1>2, <1>3

(* The file's invariant is inductive.                                      *)
LEMMA FileStep ==
    ASSUME Shaped, FileInv, Next
    PROVE  FileInv'
  <1>1. ASSUME NEW p \in Procs, Work(p) PROVE FileInv'
    <2> USE DEF Shaped
    <2>1. CASE Command(p)
      BY <2>1, CommandMoves, CommandKeepsShape, FileFrame
    <2>2. CASE Rebuild(p)
      BY <2>2, RebuildMoves, FileFrame
    <2>3. CASE CreateBackup(p)
      BY <2>3, BackupMoves, FileFrame
    <2>4. CASE RestoreBackup(p)
      BY <2>4, RestoreMoves, FileFrame
    <2>5. CASE OpenStore(p)
      BY <2>5, FileOpened
    <2>6. CASE Begin(p) \/ Crash(p)
      BY <2>6, FileBegins
    <2>7. CASE Diagnose(p)
      BY <2>7, FileDiagnosed
    <2> QED BY <1>1, <2>1, <2>2, <2>3, <2>4, <2>5, <2>6, <2>7 DEF Work
  <1>2. CASE PowerLoss \/ ObjectRots \/ DamageImage \/ RemoveStore
    BY <1>2, FileDisturbed
  <1> QED BY <1>1, <1>2 DEF Next

(* For every number of openers and every file they may find: each          *)
(* migration is applied at most once, facts are only held by a file of     *)
(* ours at the current version, and the doctor tells a store that held     *)
(* facts and is gone from one that never was, unless one of the stores in  *)
(* question had no marker (storage/store.py EventStore).                   *)
THEOREM StoreOpensSafely == Spec => []StoreLifecycle
  <1>1. Init => Shaped /\ FileInv
    <2> SUFFICES ASSUME Init PROVE FileInv
      BY ShapeInit
    <2>1. PICK w \in Workloads :
            /\ db = w.db /\ rep = None /\ job = w.job /\ pr = [p \in Procs |-> IdleProc(w.job[p].tries)]
            /\ env = [w.env EXCEPT !.unmarked = w.db.file /\ w.db.application # "other" /\ ~w.db.marker]
      BY DEF Init
    <2>2. /\ StartFile(db)
          /\ w.env \in [crash : Nat, power : Nat, rot : Nat, rotted : {{}}, damage : Nat, damages : Nat, remove : Nat,
                        unmarked : {FALSE}]
      BY <2>1, WorkloadsAssumption
    <2>3. Header(db) /\ ~db.lost
      <3>1. db \in [dir : BOOLEAN, file : BOOLEAN, marker : BOOLEAN, application : {"none", "ours", "other"}, version : Nat,
                    applied : [1..2 -> {0, 1}], facts : {0}, lost : {FALSE}, altered : BOOLEAN]
        BY <2>2 DEF StartFile
      <3>2. Rec(db, DbFields)
        BY <3>1 DEF Rec, DbFields
      <3>3. db.facts = 0 /\ db.applied \in [1..2 -> {0, 1}] /\ ~db.lost
        BY <3>1
      <3>4. /\ db.application # "ours" => db.applied[1] = 0 /\ db.applied[2] = 0
            /\ db.application = "ours" /\ db.version = 1 => db.applied[2] = 0
            /\ db.file => db.dir
        BY <2>2 DEF StartFile
      <3> QED BY <3>2, <3>3, <3>4 DEF Header
    <2>4. env.unmarked = (db.file /\ db.application # "other" /\ ~db.marker)
      BY <2>1, <2>2
    <2>5. \A p \in Procs : pr[p].pc = "idle"
      BY <2>1, IdleIsProc, WorkloadsAssumption
    <2> QED BY <2>1, <2>3, <2>4, <2>5 DEF FileInv, MarkerKept, Opens, ReportHonest
  <1>2. Shaped /\ FileInv /\ [Next]_vars => (Shaped /\ FileInv)'
    <2>1. CASE Next
      BY <2>1, ShapeStep, FileStep
    <2>2. CASE UNCHANGED vars
      BY <2>2, FileFrame DEF vars, Shaped, JobGiven, ProcsShaped, WsShaped, EnvShaped
    <2> QED BY <2>1, <2>2
  <1>3. FileInv => StoreLifecycle
    BY DEF FileInv, Header, ReportHonest, StoreLifecycle
  <1> QED BY <1>1, <1>2, <1>3, PTL DEF Spec

-----------------------------------------------------------------------------
(* Prefixes of the log.  A sequence is a prefix of itself, and stays one   *)
(* when the other grows.                                                   *)
LEMMA PrefixSelf ==
    ASSUME NEW S, NEW s \in Seq(S)
    PROVE  IsPrefix(s, s) /\ IsPrefix(<<>>, s)
  <1>1. Len(s) \in Nat /\ SubSeq(s, 1, 0) = <<>> /\ SubSeq(<<>>, 1, 0) = <<>> /\ Len(<<>>) = 0
    OBVIOUS
  <1> QED BY <1>1 DEF IsPrefix

(* An append leaves a prefix one.                                          *)
LEMMA PrefixGrows ==
    ASSUME NEW S, NEW s \in Seq(S), NEW t \in Seq(S), NEW e \in S, IsPrefix(s, t)
    PROVE  IsPrefix(s, Append(t, e))
  <1>1. Len(s) \in 0..Len(t) /\ SubSeq(s, 1, Len(s)) = SubSeq(t, 1, Len(s))
    BY DEF IsPrefix
  <1>2. SubSeq(Append(t, e), 1, Len(s)) = SubSeq(t, 1, Len(s))
    BY <1>1, PrefixOfAppend
  <1>3. Len(Append(t, e)) = Len(t) + 1
    OBVIOUS
  <1> QED BY <1>1, <1>2, <1>3 DEF IsPrefix

PrefixSnap(s) == s \in Seq(Facts) /\ IsPrefix(s, ws.log)

Grows == Len(ws.log) <= Len(ws'.log) /\ \A s : PrefixSnap(s) => PrefixSnap(s)'

(* The log only grows, and nothing else of the workspace is lost.          *)
LEMMA LogGrows ==
    ASSUME Shaped, Next
    PROVE  Grows
  <1>0. ws.log \in Seq(Facts) /\ Len(ws.log) \in Nat
    BY LenProperties DEF Shaped, WsShaped
  <1>1. ws'.log = ws.log \/ \E p \in Procs : ws'.log = Append(ws.log, Fact(p))
    <2>1. ASSUME NEW p \in Procs, Work(p) PROVE ws'.log = ws.log \/ ws'.log = Append(ws.log, Fact(p))
      <3> USE DEF Shaped
      <3>1. CASE Command(p)
        BY <3>1 DEF Command, ReserveEffect, Temp, SyncTemp, MakeDirs, SyncDirs, Link, SyncShard, AppendFact, CacheRun,
                    AppendReceipt, WsShaped, Rec
      <3>2. CASE Rebuild(p)
        BY <3>2, RebuildKeepsShape
      <3>3. CASE CreateBackup(p) \/ RestoreBackup(p) \/ OpenStore(p)
        BY <3>3, BackupMoves, RestoreMoves, OpenMoves
      <3>4. CASE Begin(p) \/ Crash(p) \/ Diagnose(p)
        BY <3>4, BeginMoves
      <3> QED BY <2>1, <3>1, <3>2, <3>3, <3>4 DEF Work
    <2>2. CASE PowerLoss \/ ObjectRots \/ DamageImage \/ RemoveStore
      BY <2>2, DisturbMoves DEF Shaped
    <2> QED BY <2>1, <2>2 DEF Next
  <1>2. CASE ws'.log = ws.log
    BY <1>0, <1>2 DEF Grows, PrefixSnap
  <1>3. CASE \E p \in Procs : ws'.log = Append(ws.log, Fact(p))
    <2>1. PICK p \in Procs : ws'.log = Append(ws.log, Fact(p))
      BY <1>3
    <2>2. Fact(p) \in Facts
      BY JobNamesObject DEF Shaped
    <2>3. Len(ws.log) <= Len(ws'.log)
      BY <1>0, <2>1, <2>2
    <2>4. \A s : PrefixSnap(s) => PrefixSnap(s)'
      BY <1>0, <2>1, <2>2, PrefixGrows DEF PrefixSnap
    <2> QED BY <2>3, <2>4 DEF Grows
  <1> QED BY <1>1, <1>2, <1>3

-----------------------------------------------------------------------------
(* Backups.  What a backup has staged is a prefix of the log no older than *)
(* its start, with every object it needs copied or still to be copied; the *)
(* manifest of an image, whatever happens to the image, names a prefix.    *)
ManifestFields == {"project", "high", "last", "schema", "snap", "objects", "keys", "v2", "ops"}

ManifestOK(i) ==
    /\ Rec(i, {"image", "since", "reserved"}) /\ IsImage(i.image)
    /\ i.image.manifest # None => Rec(i.image.manifest, ManifestFields) /\ PrefixSnap(i.image.manifest.snap)

Needed(image) == PrefixObjectState(image.ops, image.snap)

Stages(p) ==
    LET image == pr[p].image
    IN /\ pr[p].pc \in {"snapshot", "objects", "collapse", "verify"} =>
             /\ pr[p].since \in 0..Len(ws.log)
             /\ image.ops # None => pr[p].reserved \subseteq image.ops.intents
       /\ pr[p].pc \in {"objects", "collapse", "verify"} =>
             PrefixSnap(image.snap) /\ Len(image.snap) >= pr[p].since /\ References(image.ops, image.snap).ok
       /\ pr[p].pc = "objects" => Needed(image) \subseteq pr[p].todo \cup image.objects
       /\ pr[p].pc \in {"collapse", "verify"} => Needed(image) \subseteq image.objects
       /\ pr[p].pc = "verify" =>
             ~image.wal /\ Rec(image.manifest, ManifestFields) /\ image.manifest.snap = image.snap

ImageHolds(i) ==
    /\ PrefixSnap(i.image.snap) /\ Len(i.image.snap) >= i.since /\ ~i.image.wal
    /\ Referenced(i.image.snap) \subseteq i.image.objects
    /\ i.image.ops # None =>
          /\ \A r \in i.image.ops.receipts : r.facts \subseteq FactIds(i.image.snap) /\ r.artifacts \subseteq i.image.objects
          /\ i.reserved \subseteq i.image.ops.intents

ImageInv ==
    /\ img # None /\ env.damage = env.damages => ImageHolds(img)
    /\ img # None => ManifestOK(img)
    /\ \A p \in Procs : job[p].op = "backup" => Stages(p)

(* A step that leaves the image and the backups alone, however the log     *)
(* grows.                                                                  *)
LEMMA ImageFrame ==
    ASSUME ImageInv, Grows, img' = img, job' = job, env'.damage = env.damage, env'.damages = env.damages,
           Len(ws.log) \in Nat, Len(ws'.log) \in Nat,
           \A q \in Procs : pr'[q] = pr[q] \/ job[q].op # "backup" \/ pr'[q].pc \in Resting
    PROVE  ImageInv'
  <1>1. \A n \in 0..Len(ws.log) : n \in 0..Len(ws'.log)
    BY DEF Grows
  <1>2. \A s : PrefixSnap(s) => PrefixSnap(s)'
    BY DEF Grows
  <1>3. \A q \in Procs : job[q].op = "backup" => Stages(q)'
    <2> SUFFICES ASSUME NEW q \in Procs, job[q].op = "backup" PROVE Stages(q)'
      OBVIOUS
    <2>1. CASE pr'[q] = pr[q]
      BY <1>1, <1>2, <2>1 DEF ImageInv, Stages
    <2>2. CASE pr'[q].pc \in Resting
      BY <2>2 DEF Stages, Resting
    <2> QED BY <2>1, <2>2
  <1>4. img # None => ManifestOK(img)'
    BY <1>2 DEF ImageInv, ManifestOK
  <1>5. img # None /\ env.damage = env.damages => ImageHolds(img)'
    BY <1>2 DEF ImageInv, ImageHolds
  <1> QED BY <1>3, <1>4, <1>5 DEF ImageInv

(* A backup's own steps: the receipts are read before the events, the      *)
(* references are checked before any object is copied, and the image is    *)
(* renamed only once everything it needs is in it.                         *)
LEMMA BackupStages ==
    ASSUME Shaped, ImageInv, NEW p \in Procs, CreateBackup(p)
    PROVE  ImageInv'
  <1>0. /\ job[p].op = "backup" /\ job' = job /\ ws' = ws /\ env' = env /\ \A q \in Procs \ {p} : pr'[q] = pr[q]
    BY BackupMoves DEF Shaped
  <1>s. ProcsShaped /\ Rec(pr[p], ProcFields) /\ IsImage(pr[p].image) /\ pr[p].tries \in Nat
    BY DEF Shaped, ProcsShaped, IsProc
  <1>l. ws.log \in Seq(Facts) /\ Len(ws.log) \in Nat
    BY LenProperties DEF Shaped, WsShaped
  <1>g. Stages(p)
    BY <1>0 DEF ImageInv
  <1>1. \A q \in Procs \ {p} : job[q].op = "backup" => Stages(q)'
    BY <1>0 DEF ImageInv, Stages, PrefixSnap
  <1>2. ASSUME img' = img, Stages(p)' PROVE ImageInv'
    <2>1. img # None => ManifestOK(img)'
      BY <1>0, <1>2 DEF ImageInv, ManifestOK, PrefixSnap
    <2>2. img # None /\ env.damage = env.damages => ImageHolds(img)'
      BY <1>0, <1>2 DEF ImageInv, ImageHolds, PrefixSnap
    <2> QED BY <1>0, <1>1, <1>2, <2>1, <2>2 DEF ImageInv
  <1>3. pr'[p].pc \in Resting => Stages(p)'
    BY DEF Stages, Resting
  <1>4. IsProc(IdleProc(pr[p].tries)) /\ IdleProc(pr[p].tries).pc = "idle"
    BY <1>s, IdleIsProc
  <1>5. CASE CaptureOperations(p)
    <2> DEFINE new == [Go(p, "snapshot") EXCEPT !.image.ops = CaptureOperationState(ws), !.since = Len(ws.log),
                                               !.reserved = ws.intents]
    <2>1. IsProc(new)
      BY <1>s, GoIsProc, UpdatesKeepProc
    <2>2. /\ new.pc = "snapshot" /\ new.since = Len(ws.log) /\ new.reserved = ws.intents
          /\ new.image.ops = CaptureOperationState(ws)
      BY <1>s DEF Go, Rec, ProcFields, IsImage, ImageFields
    <2>3. Step(p, IdleProc(pr[p].tries)) \/ Step(p, new)
      BY <1>5 DEF CaptureOperations
    <2> HIDE DEF new
    <2>4. pr'[p] = IdleProc(pr[p].tries) \/ pr'[p] = new
      BY <1>s, <1>4, <2>1, <2>3, Stepped
    <2>5. CaptureOperationState(ws) # None => ws.intents \subseteq CaptureOperationState(ws).intents
      BY DEF CaptureOperationState, OperationState
    <2>6. CASE pr'[p] = new
      <3>1. Stages(p)'
        BY <1>0, <1>l, <2>2, <2>5, <2>6 DEF Stages
      <3> QED BY <1>2, <1>5, <3>1 DEF CaptureOperations
    <2> QED BY <1>2, <1>3, <1>4, <1>5, <2>4, <2>6 DEF Resting, CaptureOperations
  <1>6. CASE TakeSnapshot(p)
    <2> DEFINE image == [SnapshotDatabase(ws.log) EXCEPT !.ops = pr[p].image.ops]
               new == [Go(p, "objects") EXCEPT !.image = image, !.high = Len(image.snap),
                                              !.todo = PrefixObjectState(image.ops, image.snap)]
    <2>1. IsImage(image) /\ image.snap = ws.log /\ image.ops = pr[p].image.ops
      BY DEF SnapshotDatabase, NoImage, IsImage, Rec, ImageFields
    <2>2. Step(p, IdleProc(pr[p].tries)) \/ (References(image.ops, image.snap).ok /\ Step(p, new))
      BY <1>6 DEF TakeSnapshot
    <2> HIDE DEF image
    <2>3. IsProc(new)
      BY <1>s, <2>1, GoIsProc, UpdatesKeepProc
    <2>4. /\ new.pc = "objects" /\ new.image = image /\ new.todo = Needed(image)
          /\ new.since = pr[p].since /\ new.reserved = pr[p].reserved
      BY <1>s DEF Go, Rec, ProcFields, Needed
    <2> HIDE DEF new
    <2>5. pr'[p] = IdleProc(pr[p].tries) \/ (References(image.ops, image.snap).ok /\ pr'[p] = new)
      BY <1>s, <1>4, <2>2, <2>3, Stepped
    <2>6. PrefixSnap(image.snap)
      BY <1>l, <2>1, PrefixSelf DEF PrefixSnap
    <2>7. /\ pr[p].since \in 0..Len(ws.log)
          /\ pr[p].image.ops # None => pr[p].reserved \subseteq pr[p].image.ops.intents
      BY <1>g, <1>6 DEF Stages, TakeSnapshot, At
    <2>8. CASE References(image.ops, image.snap).ok /\ pr'[p] = new
      <3>1. Stages(p)'
        BY <1>0, <1>l, <2>1, <2>4, <2>6, <2>7, <2>8 DEF Stages, PrefixSnap
      <3> QED BY <1>2, <1>6, <3>1 DEF TakeSnapshot
    <2> QED BY <1>2, <1>3, <1>4, <1>6, <2>5, <2>8 DEF Resting, TakeSnapshot
  <1>7. CASE CopyObject(p)
    <2>0. pr[p].pc = "objects"
      BY <1>7 DEF CopyObject, At
    <2>1. CASE Step(p, IdleProc(pr[p].tries))
      <3>1. pr'[p] = IdleProc(pr[p].tries)
        BY <1>s, <1>4, <2>1, Stepped
      <3> QED BY <1>2, <1>3, <1>4, <1>7, <3>1 DEF Resting, CopyObject
    <2>2. CASE pr[p].todo = {} /\ Step(p, Go(p, "collapse"))
      <3>1. pr'[p] = Go(p, "collapse")
        BY <1>s, <2>2, Stepped, GoIsProc
      <3>2. /\ pr'[p].pc = "collapse" /\ pr'[p].image = pr[p].image /\ pr'[p].since = pr[p].since
            /\ pr'[p].reserved = pr[p].reserved
        BY <1>s, <3>1 DEF Go, Rec, ProcFields
      <3>3. Stages(p)'
        BY <1>0, <1>g, <2>0, <2>2, <3>2 DEF Stages, PrefixSnap
      <3> QED BY <1>2, <1>7, <3>3 DEF CopyObject
    <2>3. ASSUME NEW d \in pr[p].todo, Step(p, [pr[p] EXCEPT !.todo = @ \ {d}, !.image.objects = @ \cup {d}])
          PROVE  ImageInv'
      <3> DEFINE new == [pr[p] EXCEPT !.todo = @ \ {d}, !.image.objects = @ \cup {d}]
      <3>1. IsProc(new)
        BY UpdatesKeepProc DEF Shaped, ProcsShaped
      <3>2. /\ new.pc = pr[p].pc /\ new.since = pr[p].since /\ new.reserved = pr[p].reserved
            /\ new.todo = pr[p].todo \ {d} /\ new.image.objects = pr[p].image.objects \cup {d}
            /\ new.image.snap = pr[p].image.snap /\ new.image.ops = pr[p].image.ops
        BY <1>s DEF Rec, ProcFields, IsImage, ImageFields
      <3>3. Step(p, new)
        BY <2>3
      <3> HIDE DEF new
      <3>4. pr'[p] = new
        BY <1>s, <3>1, <3>3, Stepped
      <3>5. Stages(p)'
        BY <1>0, <1>g, <2>0, <3>2, <3>4 DEF Stages, PrefixSnap, Needed
      <3> QED BY <1>2, <1>7, <3>5 DEF CopyObject
    <2> QED BY <1>7, <2>1, <2>2, <2>3 DEF CopyObject
  <1>8. CASE Collapse(p)
    <2> DEFINE image == CollapseSnapshot(pr[p].image)
               full == [image EXCEPT !.manifest = Manifest(image, pr[p].high)]
               new == [Go(p, "verify") EXCEPT !.image = full]
    <2>0. pr[p].pc = "collapse" /\ (Step(p, IdleProc(pr[p].tries)) \/ Step(p, new))
      BY <1>8 DEF Collapse, At
    <2>1. /\ IsImage(image) /\ image.snap = pr[p].image.snap /\ image.ops = pr[p].image.ops
          /\ image.objects = pr[p].image.objects /\ image.wal = FALSE
      BY <1>s DEF CollapseSnapshot, IsImage, Rec, ImageFields
    <2> HIDE DEF image
    <2>2. /\ IsImage(full) /\ full.snap = image.snap /\ full.ops = image.ops /\ full.objects = image.objects
          /\ full.wal = image.wal /\ full.manifest = Manifest(image, pr[p].high)
      BY <2>1 DEF IsImage, Rec, ImageFields
    <2> HIDE DEF full
    <2>3. IsProc(new)
      BY <1>s, <2>2, GoIsProc, UpdatesKeepProc
    <2>4. new.pc = "verify" /\ new.image = full /\ new.since = pr[p].since /\ new.reserved = pr[p].reserved
      BY <1>s DEF Go, Rec, ProcFields
    <2> HIDE DEF new
    <2>5. pr'[p] = IdleProc(pr[p].tries) \/ pr'[p] = new
      BY <1>s, <1>4, <2>0, <2>3, Stepped
    <2>6. Rec(Manifest(image, pr[p].high), ManifestFields) /\ Manifest(image, pr[p].high).snap = image.snap
      BY DEF Manifest, Rec, ManifestFields
    <2>7. CASE pr'[p] = new
      <3>1. Stages(p)'
        BY <1>0, <1>g, <2>0, <2>1, <2>2, <2>4, <2>6, <2>7 DEF Stages, PrefixSnap, Needed
      <3> QED BY <1>2, <1>8, <3>1 DEF Collapse
    <2> QED BY <1>2, <1>3, <1>4, <1>8, <2>5, <2>7 DEF Resting, Collapse
  <1>9. CASE RenameImage(p)
    <2>1. pr'[p].pc \in Resting
      BY <1>9, <1>s, FinishSteps, AbortSteps DEF RenameImage, Resting
    <2>2. CASE img' = img
      BY <1>2, <1>3, <2>1, <2>2
    <2>3. CASE img' = [image |-> pr[p].image, since |-> pr[p].since, reserved |-> pr[p].reserved]
      <3> DEFINE i == pr[p].image
      <3>1. /\ img'.image = i /\ img'.since = pr[p].since /\ img'.reserved = pr[p].reserved
            /\ Rec(img', {"image", "since", "reserved"})
        BY <2>3 DEF Rec
      <3>2. /\ i.ops # None => pr[p].reserved \subseteq i.ops.intents
            /\ PrefixSnap(i.snap) /\ Len(i.snap) >= pr[p].since /\ References(i.ops, i.snap).ok
            /\ Needed(i) \subseteq i.objects
            /\ ~i.wal /\ Rec(i.manifest, ManifestFields) /\ i.manifest.snap = i.snap
        BY <1>9, <1>g DEF RenameImage, At, Stages
      <3>3. IsImage(i)
        BY <1>s
      <3> HIDE DEF i
      <3>4. Referenced(i.snap) \subseteq i.objects
        BY <3>2 DEF Needed, PrefixObjectState
      <3>5. i.ops # None => \A r \in i.ops.receipts : r.facts \subseteq FactIds(i.snap) /\ r.artifacts \subseteq i.objects
        BY <3>2 DEF Needed, PrefixObjectState, References, OperationReferences
      <3>6. ImageHolds(img)'
        BY <1>0, <3>1, <3>2, <3>4, <3>5 DEF ImageHolds, PrefixSnap
      <3>7. ManifestOK(img)'
        BY <1>0, <3>1, <3>2, <3>3 DEF ManifestOK, PrefixSnap
      <3> QED BY <1>0, <1>1, <1>3, <2>1, <3>6, <3>7 DEF ImageInv
    <2> QED BY <1>9, <2>2, <2>3 DEF RenameImage
  <1> QED BY <1>5, <1>6, <1>7, <1>8, <1>9 DEF CreateBackup

(* Whatever is done to an image, a manifest in it still names a prefix.    *)
LEMMA DamagedManifest ==
    ASSUME Shaped, NEW i, ManifestOK(i), i.image.manifest # None, NEW d \in Damaged(i.image)
    PROVE  IsImage(d) /\ (d.manifest # None => Rec(d.manifest, ManifestFields) /\ PrefixSnap(d.manifest.snap))
  <1> DEFINE image == i.image
  <1>1. IsImage(image) /\ Rec(image.manifest, ManifestFields) /\ PrefixSnap(image.manifest.snap)
    BY DEF ManifestOK
  <1>2. \/ \E s : d = [image EXCEPT !.snap = s]
        \/ d = [image EXCEPT !.objects = {}]
        \/ d = [image EXCEPT !.manifest = None]
        \/ \E m : /\ d = [image EXCEPT !.manifest = m]
                  /\ m \in {[image.manifest EXCEPT !.objects = {}], [image.manifest EXCEPT !.keys = "other"],
                            [image.manifest EXCEPT !.schema = SCHEMA_VERSION + 1]}
        \/ \E o : d = [image EXCEPT !.ops = o]
        \/ d = [NoImage EXCEPT !.manifest = Manifest(NoImage, 0)]
    BY DEF Damaged
  <1> HIDE DEF image
  <1> USE DEF IsImage, Rec, ImageFields
  <1>3. CASE \E s : d = [image EXCEPT !.snap = s]
    BY <1>1, <1>3
  <1>4. CASE d = [image EXCEPT !.objects = {}]
    BY <1>1, <1>4
  <1>5. CASE d = [image EXCEPT !.manifest = None]
    BY <1>1, <1>5
  <1>6. CASE \E m : /\ d = [image EXCEPT !.manifest = m]
                    /\ m \in {[image.manifest EXCEPT !.objects = {}], [image.manifest EXCEPT !.keys = "other"],
                              [image.manifest EXCEPT !.schema = SCHEMA_VERSION + 1]}
    <2>1. PICK m : /\ d = [image EXCEPT !.manifest = m]
                   /\ m \in {[image.manifest EXCEPT !.objects = {}], [image.manifest EXCEPT !.keys = "other"],
                             [image.manifest EXCEPT !.schema = SCHEMA_VERSION + 1]}
      BY <1>6
    <2>2. Rec(m, ManifestFields) /\ m.snap = image.manifest.snap
      BY <1>1, <2>1 DEF ManifestFields
    <2>3. IsImage(d) /\ d.manifest = m
      BY <1>1, <2>1
    <2> QED BY <1>1, <2>2, <2>3
  <1>7. CASE \E o : d = [image EXCEPT !.ops = o]
    BY <1>1, <1>7
  <1>8. CASE d = [NoImage EXCEPT !.manifest = Manifest(NoImage, 0)]
    <2>1. Rec(Manifest(NoImage, 0), ManifestFields) /\ Manifest(NoImage, 0).snap = <<>>
      BY DEF Manifest, ManifestFields, NoImage
    <2>2. IsImage(d) /\ d.manifest = Manifest(NoImage, 0)
      BY <1>8 DEF NoImage
    <2>3. PrefixSnap(<<>>)
      BY PrefixSelf DEF PrefixSnap, Shaped, WsShaped
    <2> QED BY <2>1, <2>2, <2>3
  <1> QED BY <1>2, <1>3, <1>4, <1>5, <1>6, <1>7, <1>8

(* So damage leaves the invariant, which promises nothing of a damaged     *)
(* image beyond its manifest.                                              *)
LEMMA DamageKeeps ==
    ASSUME Shaped, ImageInv, DamageImage
    PROVE  ImageInv' /\ ManifestOK(img)' /\ ManifestOK(img)
  <1>1. img # None /\ img.image.manifest # None /\ ManifestOK(img)
    BY DEF DamageImage, ImageInv
  <1>2. PICK d \in Damaged(img.image) : img' = [img EXCEPT !.image = d]
    BY DEF DamageImage
  <1>3. /\ ws' = ws /\ job' = job /\ pr' = pr
    BY DEF DamageImage
  <1>4. Rec(img', {"image", "since", "reserved"}) /\ img'.image = d
    BY <1>1, <1>2 DEF ManifestOK, Rec
  <1>5. IsImage(d) /\ (d.manifest # None => Rec(d.manifest, ManifestFields) /\ PrefixSnap(d.manifest.snap))
    BY <1>1, DamagedManifest
  <1>6. ManifestOK(img)'
    BY <1>3, <1>4, <1>5 DEF ManifestOK, PrefixSnap
  <1>7. ~(env'.damage = env'.damages)
    BY DEF DamageImage, Spend, Shaped, EnvShaped, Rec
  <1>8. \A q \in Procs : job[q].op = "backup" => Stages(q)'
    BY <1>3 DEF ImageInv, Stages, PrefixSnap
  <1> QED BY <1>1, <1>3, <1>6, <1>7, <1>8 DEF ImageInv

(* The image's invariant is inductive.                                     *)
LEMMA ImageStep ==
    ASSUME Shaped, ImageInv, Next
    PROVE  ImageInv'
  <1>0. Grows /\ Len(ws.log) \in Nat /\ Len(ws'.log) \in Nat
    BY LogGrows, ShapeStep, LenProperties DEF Shaped, WsShaped
  <1>1. ASSUME NEW p \in Procs, Work(p) PROVE ImageInv'
    <2> USE DEF Shaped
    <2>1. CASE Command(p)
      BY <1>0, <2>1, CommandMoves, CommandKeepsShape, ImageFrame
    <2>2. CASE Rebuild(p)
      BY <1>0, <2>2, RebuildMoves, ImageFrame
    <2>3. CASE CreateBackup(p)
      BY <2>3, BackupStages
    <2>4. CASE RestoreBackup(p)
      BY <1>0, <2>4, RestoreMoves, ImageFrame
    <2>5. CASE OpenStore(p)
      BY <1>0, <2>5, OpenMoves, ImageFrame
    <2>6. CASE Begin(p) \/ Crash(p) \/ Diagnose(p)
      BY <1>0, <2>6, BeginMoves, ImageFrame
    <2> QED BY <1>1, <2>1, <2>2, <2>3, <2>4, <2>5, <2>6 DEF Work
  <1>2. CASE DamageImage
    BY <1>2, DamageKeeps
  <1>3. CASE PowerLoss \/ ObjectRots \/ RemoveStore
    <2>1. img' = img /\ env'.damage = env.damage
      BY <1>3 DEF PowerLoss, ObjectRots, RemoveStore, Shaped, EnvShaped, Rec
    <2> QED BY <1>0, <1>3, <2>1, DisturbMoves, ImageFrame DEF Shaped, Quiet
  <1> QED BY <1>1, <1>2, <1>3 DEF Next

(* It holds when there is no image.                                        *)
LEMMA ImageInit ==
    ASSUME Init
    PROVE  ImageInv
  <1>1. PICK w \in Workloads : img = None /\ pr = [p \in Procs |-> IdleProc(w.job[p].tries)]
    BY DEF Init
  <1>2. \A p \in Procs : pr[p].pc = "idle"
    BY <1>1, IdleIsProc, WorkloadsAssumption
  <1> QED BY <1>1, <1>2 DEF ImageInv, Stages

(* For every number of processes, objects and crashes: an image that       *)
(* reaches its destination is a consistent prefix (recovery/backup.py      *)
(* create_backup), although commands kept appending while it was built.    *)
THEOREM ImagesAreConsistent == Spec => []ImageIsPrefix
  <1>1. Init => Shaped /\ ImageInv
    BY ShapeInit, ImageInit
  <1>2. Shaped /\ ImageInv /\ [Next]_vars => (Shaped /\ ImageInv)'
    <2>1. CASE Next
      BY <2>1, ShapeStep, ImageStep
    <2>2. CASE UNCHANGED vars
      BY <2>2 DEF vars, Shaped, JobGiven, ProcsShaped, WsShaped, EnvShaped, ImageInv, ImageHolds, ManifestOK, Stages, PrefixSnap
    <2> QED BY <2>1, <2>2
  <1>3. ImageInv => ImageIsPrefix
    BY DEF ImageInv, ImageHolds, ImageIsPrefix, PrefixSnap
  <1> QED BY <1>1, <1>2, <1>3, PTL DEF Spec

-----------------------------------------------------------------------------
(* Restores.  A manifest that was verified names a prefix of the log and   *)
(* exactly the objects the prefix and its receipts need; a restore works   *)
(* from that manifest whatever happens to the image afterwards.            *)
OpsOf(m) == IF m.v2 THEN m.ops ELSE None

ManifestSound(m) ==
    /\ PrefixSnap(m.snap)
    /\ m.objects = PrefixObjectState(OpsOf(m), m.snap)
    /\ m.v2 => m.ops # None /\ OperationReferences(m.ops, m.snap).ok

Restores(p) ==
    LET m == pr[p].manifest
        o == pr[p].out
    IN /\ pr[p].pc = "verify" => ManifestOK(img)
       /\ pr[p].pc \in {"idle", "begun", "verify", "events"} => o = NewWorkspace
       /\ pr[p].pc \in {"events", "objects", "ledger", "operations"} =>
             ManifestSound(m) /\ (job[p].reviewed => m = pr[p].review) /\ o.receipts = {} /\ o.intents = {}
       /\ pr[p].pc = "events" => pr[p].todo = m.objects
       /\ pr[p].pc \in {"objects", "ledger", "operations"} => o.log = m.snap
       /\ pr[p].pc = "objects" => pr[p].todo \cup o.objects = m.objects
       /\ pr[p].pc \in {"ledger", "operations"} => o.objects = m.objects
       /\ pr[p].pc = "operations" => o.unknown = ReconcileRuns(o.log)

Whole(t) ==
    /\ PrefixSnap(t.log)
    /\ Referenced(t.log) \cup UNION {r.artifacts : r \in t.receipts} \subseteq t.objects
    /\ \A r \in t.receipts : r.facts \subseteq FactIds(t.log)
    /\ t.unknown = {r \in Runs(t.log) : RunStatus(t.log, r) # "completed"}
    /\ t.review # None =>
          /\ t.log = t.review.snap /\ t.objects = t.review.objects
          /\ t.review.v2 => t.receipts = t.review.ops.receipts /\ t.intents = t.review.ops.intents

RestoreInv ==
    /\ tgt # None => Whole(tgt)
    /\ \A p \in Procs : job[p].op = "restore" => Restores(p)

AtRest(p) == pr[p].pc \in Resting /\ pr[p].out = NewWorkspace

(* A process that is not in an operation has nothing staged.               *)
LEMMA RestsFresh ==
    ASSUME ProcsShaped, NEW p \in Procs
    PROVE  /\ Abort(p) \/ Finish(p) => AtRest(p)'
           /\ \A n \in Nat : IdleProc(n).pc \in Resting /\ IdleProc(n).out = NewWorkspace
  <1>1. \A n \in Nat : IdleProc(n).pc \in Resting /\ IdleProc(n).out = NewWorkspace
    BY DEF IdleProc, Resting
  <1>2. ASSUME Abort(p) PROVE AtRest(p)'
    BY <1>1, <1>2, AbortSteps DEF AtRest, ProcsShaped, IsProc
  <1>3. ASSUME Finish(p) PROVE AtRest(p)'
    <2> DEFINE r == [IdleProc(0) EXCEPT !.pc = "done"]
    <2>1. IsProc(r) /\ r.pc = "done" /\ r.out = NewWorkspace
      BY DoneIsProc DEF IdleProc
    <2>2. Step(p, r)
      BY <1>3 DEF Finish
    <2> HIDE DEF r
    <2> QED BY <2>1, <2>2, Stepped DEF AtRest, Resting
  <1> QED BY <1>1, <1>2, <1>3

(* A step that leaves the restores alone and the image no worse, however   *)
(* the log grows.                                                          *)
LEMMA RestoreFrame ==
    ASSUME RestoreInv, Grows, tgt' = tgt, job' = job, img' = img \/ ManifestOK(img)',
           \A q \in Procs : pr'[q] = pr[q] \/ job[q].op # "restore" \/ AtRest(q)'
    PROVE  RestoreInv'
  <1>1. \A s : PrefixSnap(s) => PrefixSnap(s)'
    BY DEF Grows
  <1>2. ManifestOK(img) => ManifestOK(img)'
    BY <1>1 DEF ManifestOK
  <1>3. \A m : ManifestSound(m) => ManifestSound(m)'
    BY <1>1 DEF ManifestSound
  <1>4. \A q \in Procs : job[q].op = "restore" => Restores(q)'
    <2> SUFFICES ASSUME NEW q \in Procs, job[q].op = "restore" PROVE Restores(q)'
      OBVIOUS
    <2>1. CASE pr'[q] = pr[q]
      BY <1>2, <1>3, <2>1 DEF RestoreInv, Restores
    <2>2. CASE AtRest(q)'
      BY <2>2 DEF Restores, Resting, AtRest
    <2> QED BY <2>1, <2>2
  <1>5. \A t : Whole(t) => Whole(t)'
    BY <1>1 DEF Whole
  <1> QED BY <1>4, <1>5 DEF RestoreInv

(* An image that passes verify_backup has a sound manifest.                *)
LEMMA VerifiedIsSound ==
    ASSUME NEW i, ManifestOK(i), VerifyImage(i.image)
    PROVE  ManifestSound(LoadManifest(i.image))
  <1> DEFINE m == i.image.manifest
  <1>1. m # None /\ i.image.snap = m.snap /\ VerifiedOperations(i.image, m, i.image.snap)
        /\ PrefixObjectState(IF m.v2 THEN i.image.ops ELSE None, i.image.snap) = m.objects
    BY DEF VerifyImage, LoadManifest
  <1>2. PrefixSnap(m.snap)
    BY <1>1 DEF ManifestOK
  <1>3. m.v2 => i.image.ops = m.ops /\ m.ops # None /\ OperationReferences(m.ops, m.snap).ok
    BY <1>1 DEF VerifiedOperations
  <1>4. (IF m.v2 THEN i.image.ops ELSE None) = OpsOf(m)
    BY <1>3 DEF OpsOf
  <1> QED BY <1>1, <1>2, <1>3, <1>4 DEF ManifestSound, LoadManifest

(* A restore's own steps.                                                  *)
LEMMA RestoreStages ==
    ASSUME Shaped, ImageInv, RestoreInv, NEW p \in Procs, RestoreBackup(p)
    PROVE  RestoreInv'
  <1>0. /\ job[p].op = "restore" /\ job' = job /\ ws' = ws /\ img' = img /\ \A q \in Procs \ {p} : pr'[q] = pr[q]
    BY RestoreMoves DEF Shaped
  <1>s. ProcsShaped /\ Rec(pr[p], ProcFields) /\ IsOut(pr[p].out) /\ pr[p].tries \in Nat
    BY DEF Shaped, ProcsShaped, IsProc
  <1>g. Restores(p)
    BY <1>0 DEF RestoreInv
  <1>p. \A s : PrefixSnap(s) <=> PrefixSnap(s)'
    BY <1>0 DEF PrefixSnap
  <1>m. (\A m : ManifestSound(m) <=> ManifestSound(m)') /\ (ManifestOK(img) <=> ManifestOK(img)')
    BY <1>0, <1>p DEF ManifestSound, ManifestOK
  <1>1. \A q \in Procs \ {p} : job[q].op = "restore" => Restores(q)'
    BY <1>0, <1>m DEF RestoreInv, Restores
  <1>2. ASSUME tgt' = tgt, Restores(p)' PROVE RestoreInv'
    <2>1. tgt # None => Whole(tgt)'
      BY <1>2, <1>p DEF RestoreInv, Whole
    <2> QED BY <1>0, <1>1, <1>2, <2>1 DEF RestoreInv
  <1>3. AtRest(p)' => Restores(p)'
    BY DEF Restores, Resting, AtRest
  <1>i. ASSUME tgt' = tgt, Step(p, IdleProc(pr[p].tries)) PROVE RestoreInv'
    <2>1. Abort(p)
      BY <1>i DEF Abort
    <2> QED BY <1>s, <1>i, <1>2, <1>3, <2>1, RestsFresh
  <1>5. CASE ReviewImage(p)
    <2> DEFINE new == [Go(p, "verify") EXCEPT !.review = LoadManifest(img.image)]
    <2>1. IsProc(new)
      BY <1>s, GoIsProc, UpdatesKeepProc
    <2>2. new.pc = "verify" /\ new.out = pr[p].out
      BY <1>s DEF Go, Rec, ProcFields
    <2>3. Step(p, new)
      BY <1>5 DEF ReviewImage
    <2> HIDE DEF new
    <2>4. pr'[p] = new
      BY <1>s, <2>1, <2>3, Stepped
    <2>5. pr[p].pc = "begun" /\ img # None /\ ManifestOK(img)
      BY <1>5 DEF ReviewImage, At, ImageInv
    <2>6. pr[p].out = NewWorkspace
      BY <1>g, <2>5 DEF Restores
    <2>7. Restores(p)'
      BY <1>0, <1>m, <2>2, <2>4, <2>5, <2>6 DEF Restores
    <2> QED BY <1>2, <1>5, <2>7 DEF ReviewImage
  <1>6. CASE VerifyForRestore(p)
    <2> DEFINE m == LoadManifest(img.image)
               new == [Go(p, "events") EXCEPT !.manifest = m, !.todo = m.objects]
    <2>0. pr[p].pc = "verify" /\ ManifestOK(img) /\ pr[p].out = NewWorkspace
      BY <1>6, <1>g DEF VerifyForRestore, At, Restores
    <2>1. IsProc(new)
      BY <1>s, GoIsProc, UpdatesKeepProc
    <2>2. new.pc = "events" /\ new.out = pr[p].out /\ new.manifest = m /\ new.todo = m.objects /\ new.review = pr[p].review
      BY <1>s DEF Go, Rec, ProcFields
    <2>3. Step(p, IdleProc(pr[p].tries)) \/ (VerifyImage(img.image) /\ (job[p].reviewed => m = pr[p].review) /\ Step(p, new))
      BY <1>6 DEF VerifyForRestore
    <2>4. CASE VerifyImage(img.image) /\ (job[p].reviewed => m = pr[p].review) /\ Step(p, new)
      <3>1. ManifestSound(m)
        BY <2>0, <2>4, VerifiedIsSound
      <3>2. NewWorkspace.receipts = {} /\ NewWorkspace.intents = {}
        BY DEF NewWorkspace
      <3> HIDE DEF new, m
      <3>3. pr'[p] = new
        BY <1>s, <2>1, <2>4, Stepped
      <3>4. Restores(p)'
        BY <1>0, <1>m, <2>0, <2>2, <2>4, <3>1, <3>2, <3>3 DEF Restores
      <3> QED BY <1>2, <1>6, <3>4 DEF VerifyForRestore
    <2> QED BY <1>i, <1>6, <2>3, <2>4 DEF VerifyForRestore
  <1>7. CASE RestoreEvents(p)
    <2> DEFINE new == [Go(p, "objects") EXCEPT !.out.log = img.image.snap, !.out.marker = TRUE]
    <2>0. /\ pr[p].pc = "events" /\ ManifestSound(pr[p].manifest) /\ (job[p].reviewed => pr[p].manifest = pr[p].review)
          /\ pr[p].out = NewWorkspace /\ pr[p].todo = pr[p].manifest.objects
      BY <1>7, <1>g DEF RestoreEvents, At, Restores
    <2>1. IsProc(new)
      BY <1>s, GoIsProc, UpdatesKeepProc
    <2>2. /\ new.pc = "objects" /\ new.manifest = pr[p].manifest /\ new.todo = pr[p].todo /\ new.review = pr[p].review
          /\ new.out.log = img.image.snap /\ new.out.objects = pr[p].out.objects
          /\ new.out.receipts = pr[p].out.receipts /\ new.out.intents = pr[p].out.intents
      BY <1>s DEF Go, Rec, ProcFields, IsOut, OutFields
    <2>3. Step(p, IdleProc(pr[p].tries)) \/ (img.image.snap = pr[p].manifest.snap /\ Step(p, new))
      BY <1>7 DEF RestoreEvents, SnapshotUnchanged
    <2> HIDE DEF new
    <2>4. CASE img.image.snap = pr[p].manifest.snap /\ Step(p, new)
      <3>1. NewWorkspace.receipts = {} /\ NewWorkspace.intents = {} /\ NewWorkspace.objects = {}
        BY DEF NewWorkspace
      <3>2. pr'[p] = new
        BY <1>s, <2>1, <2>4, Stepped
      <3>3. Restores(p)'
        BY <1>0, <1>m, <2>0, <2>2, <2>4, <3>1, <3>2 DEF Restores
      <3> QED BY <1>2, <1>7, <3>3 DEF RestoreEvents
    <2> QED BY <1>i, <1>7, <2>3, <2>4 DEF RestoreEvents
  <1>8. CASE RestoreObject(p)
    <2>0. pr[p].pc = "objects"
      BY <1>8 DEF RestoreObject, At
    <2>1. CASE Step(p, IdleProc(pr[p].tries))
      BY <1>i, <1>8, <2>1 DEF RestoreObject
    <2>2. CASE pr[p].todo = {} /\ Step(p, Go(p, "ledger"))
      <3>1. pr'[p] = Go(p, "ledger")
        BY <1>s, <2>2, Stepped, GoIsProc
      <3>2. /\ pr'[p].pc = "ledger" /\ pr'[p].manifest = pr[p].manifest /\ pr'[p].out = pr[p].out
            /\ pr'[p].review = pr[p].review
        BY <1>s, <3>1 DEF Go, Rec, ProcFields
      <3>3. Restores(p)'
        BY <1>0, <1>g, <1>m, <2>0, <2>2, <3>2 DEF Restores
      <3> QED BY <1>2, <1>8, <3>3 DEF RestoreObject
    <2>3. ASSUME NEW d \in pr[p].todo, Step(p, [pr[p] EXCEPT !.todo = @ \ {d}, !.out.objects = @ \cup {d}])
          PROVE  RestoreInv'
      <3> DEFINE new == [pr[p] EXCEPT !.todo = @ \ {d}, !.out.objects = @ \cup {d}]
      <3>1. IsProc(new)
        BY UpdatesKeepProc DEF Shaped, ProcsShaped
      <3>2. /\ new.pc = pr[p].pc /\ new.manifest = pr[p].manifest /\ new.review = pr[p].review
            /\ new.todo = pr[p].todo \ {d} /\ new.out.objects = pr[p].out.objects \cup {d}
            /\ new.out.log = pr[p].out.log /\ new.out.receipts = pr[p].out.receipts /\ new.out.intents = pr[p].out.intents
        BY <1>s DEF Rec, ProcFields, IsOut, OutFields
      <3>3. Step(p, new)
        BY <2>3
      <3> HIDE DEF new
      <3>4. pr'[p] = new
        BY <1>s, <3>1, <3>3, Stepped
      <3>5. (pr[p].todo \ {d}) \cup (pr[p].out.objects \cup {d}) = pr[p].todo \cup pr[p].out.objects
        BY <2>3
      <3>6. Restores(p)'
        BY <1>0, <1>g, <1>m, <2>0, <3>2, <3>4, <3>5 DEF Restores
      <3> QED BY <1>2, <1>8, <3>6 DEF RestoreObject
    <2> QED BY <1>8, <2>1, <2>2, <2>3 DEF RestoreObject
  <1>9. CASE RestoreLedger(p)
    <2> DEFINE new == [Go(p, "operations") EXCEPT !.out.unknown = ReconcileRuns(pr[p].out.log)]
    <2>0. pr[p].pc = "ledger"
      BY <1>9 DEF RestoreLedger, At
    <2>1. IsProc(new)
      BY <1>s, GoIsProc, UpdatesKeepProc
    <2>2. /\ new.pc = "operations" /\ new.manifest = pr[p].manifest /\ new.review = pr[p].review
          /\ new.out.unknown = ReconcileRuns(pr[p].out.log) /\ new.out.objects = pr[p].out.objects
          /\ new.out.log = pr[p].out.log /\ new.out.receipts = pr[p].out.receipts /\ new.out.intents = pr[p].out.intents
      BY <1>s DEF Go, Rec, ProcFields, IsOut, OutFields
    <2>3. Step(p, IdleProc(pr[p].tries)) \/ Step(p, new)
      BY <1>9 DEF RestoreLedger
    <2> HIDE DEF new
    <2>4. CASE Step(p, new)
      <3>1. pr'[p] = new
        BY <1>s, <2>1, <2>4, Stepped
      <3>2. Restores(p)'
        BY <1>0, <1>g, <1>m, <2>0, <2>2, <3>1 DEF Restores
      <3> QED BY <1>2, <1>9, <3>2 DEF RestoreLedger
    <2> QED BY <1>i, <1>9, <2>3, <2>4 DEF RestoreLedger
  <1>10. CASE RenameWorkspace(p)
    <2> DEFINE m == pr[p].manifest
               o == pr[p].out
               ops == IF m.v2 THEN img.image.ops ELSE None
               rev == IF job[p].reviewed THEN pr[p].review ELSE None
    <2>0. /\ pr[p].pc = "operations" /\ ManifestSound(m) /\ (job[p].reviewed => m = pr[p].review)
          /\ o.receipts = {} /\ o.intents = {} /\ o.log = m.snap /\ o.objects = m.objects /\ o.unknown = ReconcileRuns(o.log)
      BY <1>10, <1>g DEF RenameWorkspace, At, Restores
    <2>1. AtRest(p)'
      BY <1>10, <1>s, RestsFresh DEF RenameWorkspace
    <2>2. CASE tgt' = tgt
      BY <1>2, <1>3, <2>1, <2>2
    <2>3. CASE VerifiedOperations(img.image, m, o.log) /\ tgt' = [RestoreOperationState(o, ops) EXCEPT !.review = rev]
      <3>1. ops = OpsOf(m)
        BY <2>3 DEF VerifiedOperations, OpsOf
      <3>2. Rec(o, OutFields)
        BY <1>s DEF IsOut
      <3> HIDE DEF m, o, ops, rev
      <3>3. /\ tgt'.log = o.log /\ tgt'.objects = o.objects /\ tgt'.unknown = o.unknown /\ tgt'.review = rev
            /\ ops = None => tgt'.receipts = o.receipts /\ tgt'.intents = o.intents
            /\ ops # None => tgt'.receipts = ops.receipts /\ tgt'.intents = ops.intents
        BY <2>3, <3>2 DEF RestoreOperationState, Rec, OutFields
      <3>4. m.v2 => ops = m.ops /\ ops # None
        BY <2>0, <3>1 DEF OpsOf, ManifestSound
      <3>5. ~m.v2 => ops = None
        BY <3>1 DEF OpsOf
      <3>6. PrefixSnap(tgt'.log)
        BY <2>0, <3>3 DEF ManifestSound
      <3>7. Referenced(tgt'.log) \cup UNION {r.artifacts : r \in tgt'.receipts} \subseteq tgt'.objects
        <4>1. m.objects = Referenced(m.snap) \cup References(ops, m.snap).digests
          BY <2>0, <3>1 DEF ManifestSound, PrefixObjectState
        <4>2. CASE ops = None
          BY <2>0, <3>3, <4>1, <4>2
        <4>3. CASE ops # None
          <5>1. References(ops, m.snap).digests = UNION {r.artifacts : r \in ops.receipts}
            BY <4>3 DEF References, OperationReferences
          <5> QED BY <2>0, <3>3, <4>1, <4>3, <5>1
        <4> QED BY <4>2, <4>3
      <3>8. \A r \in tgt'.receipts : r.facts \subseteq FactIds(tgt'.log)
        <4>1. CASE m.v2
          BY <2>0, <3>3, <3>4, <4>1 DEF ManifestSound, OperationReferences
        <4>2. CASE ~m.v2
          BY <2>0, <3>3, <3>5, <4>2
        <4> QED BY <4>1, <4>2
      <3>9. tgt'.unknown = {r \in Runs(tgt'.log) : RunStatus(tgt'.log, r) # "completed"}
        BY <2>0, <3>3 DEF ReconcileRuns, RunStatusFor
      <3>10. tgt'.review # None =>
                /\ tgt'.log = tgt'.review.snap /\ tgt'.objects = tgt'.review.objects
                /\ tgt'.review.v2 => tgt'.receipts = tgt'.review.ops.receipts /\ tgt'.intents = tgt'.review.ops.intents
        <4>1. tgt'.review # None => tgt'.review = m
          BY <2>0, <3>3 DEF rev
        <4> QED BY <2>0, <3>3, <3>4, <4>1
      <3>11. Whole(tgt)'
        BY <1>p, <3>6, <3>7, <3>8, <3>9, <3>10 DEF Whole
      <3> QED BY <1>0, <1>1, <1>3, <2>1, <3>11 DEF RestoreInv
    <2> QED BY <1>10, <2>2, <2>3 DEF RenameWorkspace
  <1> QED BY <1>5, <1>6, <1>7, <1>8, <1>9, <1>10 DEF RestoreBackup

(* The image a backup renames to its destination carries its manifest.     *)
LEMMA RenamedManifest ==
    ASSUME Shaped, ImageInv, NEW p \in Procs, RenameImage(p), ws' = ws
    PROVE  img' = img \/ ManifestOK(img)'
  <1> DEFINE i == pr[p].image
  <1>1. CASE img' = [image |-> pr[p].image, since |-> pr[p].since, reserved |-> pr[p].reserved]
    <2>1. img'.image = i /\ Rec(img', {"image", "since", "reserved"})
      BY <1>1 DEF Rec
    <2>2. IsImage(i) /\ Rec(i.manifest, ManifestFields) /\ i.manifest.snap = i.snap /\ PrefixSnap(i.snap)
      BY DEF RenameImage, At, ImageInv, Stages, Shaped, ProcsShaped, IsProc
    <2> HIDE DEF i
    <2> QED BY <2>1, <2>2 DEF ManifestOK, PrefixSnap
  <1> QED BY <1>1 DEF RenameImage

(* The restores' invariant is inductive.                                   *)
LEMMA RestoreStep ==
    ASSUME Shaped, ImageInv, RestoreInv, Next
    PROVE  RestoreInv'
  <1>0. Grows /\ Shaped' /\ ImageInv'
    BY LogGrows, ShapeStep, ImageStep
  <1>1. ASSUME NEW p \in Procs, Work(p) PROVE RestoreInv'
    <2> USE DEF Shaped
    <2>1. CASE Command(p)
      BY <1>0, <2>1, CommandMoves, CommandKeepsShape, RestoreFrame
    <2>2. CASE Rebuild(p)
      BY <1>0, <2>2, RebuildMoves, RestoreFrame
    <2>3. CASE CreateBackup(p)
      <3>1. img' = img \/ ManifestOK(img)'
        <4>1. img' = img \/ RenameImage(p)
          BY <2>3 DEF CreateBackup, CaptureOperations, TakeSnapshot, CopyObject, Collapse
        <4> QED BY <2>3, <4>1, RenamedManifest, BackupMoves
      <3> QED BY <1>0, <2>3, <3>1, BackupMoves, RestoreFrame
    <2>4. CASE RestoreBackup(p)
      BY <2>4, RestoreStages
    <2>5. CASE OpenStore(p)
      BY <1>0, <2>5, OpenMoves, RestoreFrame
    <2>6. CASE Crash(p) \/ Diagnose(p)
      <3>1. AtRest(p)'
        BY <2>6, RestsFresh DEF Crash, Diagnose
      <3> QED BY <1>0, <2>6, <3>1, BeginMoves, RestoreFrame
    <2>7. CASE Begin(p)
      <3> DEFINE new == [Go(p, "begun") EXCEPT !.tries = @ - 1]
      <3>1. Rec(pr[p], ProcFields)
        BY DEF ProcsShaped, IsProc
      <3>2. new.pc = "begun" /\ new.out = pr[p].out
        BY <3>1 DEF Go, Rec, ProcFields
      <3>3. pr'[p] = new
        BY <2>7 DEF Begin, Step, ProcsShaped
      <3> HIDE DEF new
      <3>4. job[p].op = "restore" => AtRest(p)'
        BY <2>7, <3>2, <3>3 DEF RestoreInv, Restores, AtRest, Resting, Begin
      <3> QED BY <1>0, <2>7, <3>4, BeginMoves, RestoreFrame
    <2> QED BY <1>1, <2>1, <2>2, <2>3, <2>4, <2>5, <2>6, <2>7 DEF Work
  <1>2. CASE DamageImage
    <2>1. \A q \in Procs : pr'[q] = pr[q]
      BY <1>2 DEF DamageImage
    <2> QED BY <1>0, <1>2, <2>1, DamageKeeps, DisturbMoves, RestoreFrame DEF Shaped
  <1>3. CASE PowerLoss \/ ObjectRots \/ RemoveStore
    <2>1. \A q \in Procs : pr[q].tries \in Nat
      BY DEF Shaped, ProcsShaped, IsProc
    <2>2. \A q \in Procs : pr'[q] = pr[q] \/ pr'[q] = IdleProc(pr[q].tries)
      BY <1>3 DEF PowerLoss, ObjectRots, RemoveStore
    <2>3. \A q \in Procs : pr'[q] = pr[q] \/ AtRest(q)'
      BY <2>1, <2>2, RestsFresh DEF AtRest, Shaped
    <2>4. img' = img
      BY <1>3 DEF PowerLoss, ObjectRots, RemoveStore
    <2> QED BY <1>0, <1>3, <2>3, <2>4, DisturbMoves, RestoreFrame DEF Shaped
  <1> QED BY <1>1, <1>2, <1>3 DEF Next

(* It holds before anything was restored.                                  *)
LEMMA RestoreInit ==
    ASSUME Init
    PROVE  RestoreInv
  <1>1. PICK w \in Workloads : tgt = None /\ pr = [p \in Procs |-> IdleProc(w.job[p].tries)]
    BY DEF Init
  <1>2. \A p \in Procs : pr[p].pc = "idle" /\ pr[p].out = NewWorkspace
    BY <1>1 DEF IdleProc
  <1> QED BY <1>1, <1>2 DEF RestoreInv, Restores

(* For every number of processes, objects, crashes and damages of the      *)
(* image: what a restore (recovery/backup.py restore_backup) renames to    *)
(* its destination is whole, and after a review it is the workspace of the *)
(* image that was reviewed.                                                *)
THEOREM RestoredWorkspacesAreWhole == Spec => []RestoredIsWhole
  <1>1. Init => Shaped /\ ImageInv /\ RestoreInv
    BY ShapeInit, ImageInit, RestoreInit
  <1>2. Shaped /\ ImageInv /\ RestoreInv /\ [Next]_vars => (Shaped /\ ImageInv /\ RestoreInv)'
    <2>1. CASE Next
      BY <2>1, ShapeStep, ImageStep, RestoreStep
    <2>2. CASE UNCHANGED vars
      <3> USE <2>2 DEF vars
      <3>1. Shaped => Shaped'
        BY DEF Shaped, JobGiven, ProcsShaped, WsShaped, EnvShaped
      <3>2. ImageInv => ImageInv'
        BY DEF ImageInv, ImageHolds, ManifestOK, Stages, PrefixSnap
      <3>3. RestoreInv => RestoreInv'
        BY DEF RestoreInv, Whole, Restores, ManifestSound, ManifestOK, PrefixSnap
      <3> QED BY <3>1, <3>2, <3>3
    <2> QED BY <2>1, <2>2
  <1>3. RestoreInv => RestoredIsWhole
    BY DEF RestoreInv, Whole, RestoredIsWhole, PrefixSnap
  <1> QED BY <1>1, <1>2, <1>3, PTL DEF Spec
=============================================================================
