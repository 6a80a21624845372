------------------------------- MODULE Backup -------------------------------
(***************************************************************************)
(* Backup images: what create_backup writes, what verify_backup accepts    *)
(* and what restore_backup materializes.  A digest of bytes stands for the *)
(* bytes, so a recorded snapshot digest is the snapshot it was taken of.   *)
(***************************************************************************)
EXTENDS QueryTables, ArtifactStore, StoreFile

CONSTANTS None, Project

(* A receipt names the head it saw, its facts and its objects.             *)
Receipt(command, head, facts, artifacts) == [command |-> command, head |-> head, facts |-> facts, artifacts |-> artifacts]

OperationState(receipts, intents) == [project |-> Project, receipts |-> receipts, intents |-> intents]

(* Both tables are read in one transaction; no receipt log, no state.      *)
CaptureOperationState(ws) == IF ws.hasLog THEN OperationState(ws.receipts, ws.intents) ELSE None

FactIds(log) == {log[i].id : i \in DOMAIN log}

(* Mutant: the receipts are carried without looking at what they cite.     *)
ReferencesUnread(ops, log) == [ok |-> TRUE, digests |-> {}]

(* Every receipt is of this project, inside the prefix, and cites facts    *)
(* the prefix holds; its objects are roots of the image.                   *)
OperationReferences(ops, log) ==
    [ok      |-> ops.project = Project /\ \A r \in ops.receipts : r.head <= Len(log) /\ r.facts \subseteq FactIds(log),
     digests |-> UNION {r.artifacts : r \in ops.receipts}]

References(ops, log) == IF ops = None THEN [ok |-> TRUE, digests |-> {}] ELSE OperationReferences(ops, log)

(* The objects a prefix and its receipts need.                             *)
PrefixObjectState(ops, log) == Referenced(log) \cup References(ops, log).digests

LastDigest(log) == IF log = <<>> THEN None ELSE Last(log)

NoImage == [manifest |-> None, snap |-> <<>>, wal |-> FALSE, objects |-> {}, ops |-> None]

Manifest(image, high) ==
    [project |-> Project, high |-> high, last |-> LastDigest(SubSeq(image.snap, 1, high)), schema |-> SCHEMA_VERSION,
     snap |-> image.snap, objects |-> image.objects, keys |-> "derived",
     v2 |-> image.ops # None, ops |-> image.ops]

LoadManifest(image) == image.manifest

VerifiedOperations(image, m, log) ==
    m.v2 => image.ops = m.ops /\ image.ops # None /\ OperationReferences(image.ops, log).ok

(* The checks of an image against its own bytes, in the code's order.  The *)
(* object set is derived from the events and receipts again.               *)
VerifyImage(image) ==
    LET m == LoadManifest(image)
    IN /\ m # None
       /\ image.snap = m.snap
       /\ m.schema = SCHEMA_VERSION
       /\ m.keys = "derived"
       /\ m.objects \subseteq image.objects
       /\ VerifiedOperations(image, m, image.snap)
       /\ Len(image.snap) = m.high
       /\ LastDigest(image.snap) = m.last
       /\ PrefixObjectState(IF m.v2 THEN image.ops ELSE None, image.snap) = m.objects

(* Reading the snapshot leaves it in WAL mode: its main file alone may     *)
(* lack the last events until it is collapsed.                             *)
SnapshotDatabase(log) == [NoImage EXCEPT !.snap = log, !.wal = TRUE]
CollapseSnapshot(image) == [image EXCEPT !.wal = FALSE]
SnapshotStandalone(image, high) == ~image.wal /\ Len(image.snap) = high

(* Every reference must be held and intact, or there is no image.          *)
CanCopyObject(cas, d) == Exists(cas, d) /\ Verify(cas, d)

-----------------------------------------------------------------------------
(* Restoring.  The manifest is the one that was verified; every file is    *)
(* read from the image again and compared with it.                         *)
(* review: the manifest a reviewer saw, for the properties only.           *)
NewWorkspace == [log |-> <<>>, objects |-> {}, receipts |-> {}, intents |-> {}, marker |-> FALSE, unknown |-> {},
                 review |-> None]

DestinationFree(there) == there = None

LayoutInside(layout) == layout = "relative"

(* Mutant: the copied snapshot is taken as it is.                          *)
SnapshotTaken(image, m) == TRUE

SnapshotUnchanged(image, m) == image.snap = m.snap

ObjectRestored(image, d) == d \in image.objects

(* A ledger that no event of the project feeds proves nothing.             *)
LedgerMatches(log, project) == Len(log) > 0 => project = Project

RunStatusFor(log, run) == RunStatus(log, run)

(* Runs that were in flight are listed and never started.                  *)
ReconcileRuns(log) == {r \in Runs(log) : RunStatusFor(log, r) # "completed"}

RestoreOperationState(ws, ops) == IF ops = None THEN ws ELSE [ws EXCEPT !.receipts = ops.receipts, !.intents = ops.intents]
=============================================================================
