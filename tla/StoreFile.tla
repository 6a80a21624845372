----------------------------- MODULE StoreFile ------------------------------
(***************************************************************************)
(* The control database as a file: how EventStore opens, creates, upgrades *)
(* and verifies it, the lifecycle marker beside it, and what the doctor    *)
(* says of it.                                                             *)
(***************************************************************************)
EXTENDS Naturals, Sequences

SCHEMA_VERSION == 2

(* application: whose header it carries; version: user_version; applied:   *)
(* how often each migration ran; facts: rows committed to this file; lost: *)
(* whether rows went with a file that was removed.                         *)
NoFile == [dir |-> TRUE, file |-> FALSE, marker |-> FALSE, application |-> "none", version |-> 0,
           applied |-> <<0, 0>>, facts |-> 0, lost |-> FALSE, altered |-> FALSE]

(* Version 1 knew no marker, and the upgrade writes none.                  *)
OldFile == [NoFile EXCEPT !.file = TRUE, !.application = "ours", !.version = 1, !.applied = <<1, 0>>]
ForeignFile == [NoFile EXCEPT !.file = TRUE, !.application = "other", !.version = 7]
AlteredFile == [OldFile EXCEPT !.altered = TRUE]
NewerFile == [NoFile EXCEPT !.file = TRUE, !.marker = TRUE, !.application = "ours", !.version = 3, !.applied = <<1, 1>>]

ValidateDatabasePath(db) == db.dir

(* mode: create, existing (rw without create) or readonly.                 *)
CanConnect(db, mode) == IF mode = "create" THEN db.dir ELSE db.file
ConnectSqlite(db, mode) == IF mode = "create" THEN [db EXCEPT !.file = TRUE] ELSE db

WriteControlStoreMarker(db) == [db EXCEPT !.marker = TRUE]

(* Mutant: the header is not read again inside the transaction.            *)
CreateUnchecked(db) ==
    [db EXCEPT !.application = "ours", !.version = SCHEMA_VERSION, !.applied = <<@[1] + 1, @[2] + 1>>]

(* One immediate transaction; a creator that lost the race finds the       *)
(* schema there and leaves it.                                             *)
CreateSchema(db) == IF db.application = "ours" THEN db ELSE CreateUnchecked(db)

(* Only version 1 upgrades, only on a writable connection, once.           *)
CanUpgrade(db, mode) ==
    db.version = SCHEMA_VERSION \/ (db.version = 1 /\ mode # "readonly" /\ ~db.altered)
UpgradeSchema(db) ==
    IF db.version = 1 THEN [db EXCEPT !.version = SCHEMA_VERSION, !.applied[2] = @ + 1] ELSE db

(* The objects are compared with version 1 outside the transaction: an     *)
(* upgrader that reads them after another's commit refuses the open.       *)
MigratedMeanwhile(db, seen, version) == seen = "ours" /\ version = 1 /\ db.version = SCHEMA_VERSION

VerifySchema(db) == db.application = "ours" /\ db.version = SCHEMA_VERSION /\ db.applied = <<1, 1>> /\ ~db.altered

(* The first read of the header decides between creating and upgrading.    *)
CanInitialize(db, mode, seen) ==
    CASE seen = "none" -> mode = "create" /\ db.application \in {"none", "ours"}
      [] seen = "ours" -> CanUpgrade(db, mode)
      [] OTHER -> FALSE
Initialized(db, seen) == IF seen = "none" THEN CreateSchema(db) ELSE UpgradeSchema(db)

-----------------------------------------------------------------------------
(* The doctor.                                                             *)
ControlStoreWasRemoved(db) == ~db.file /\ (db.marker \/ ~db.dir)
AbsentControlStore(db) == IF ControlStoreWasRemoved(db) THEN "removed" ELSE "not-yet-populated"

CheckControlStore(db) ==
    CASE ~db.file -> AbsentControlStore(db) [] db.file /\ VerifySchema(db) -> "ok" [] OTHER -> "unreadable"

(* The header is read without an EventStore, so a newer one has a name.    *)
CheckMigration(db) ==
    CASE ~db.file -> AbsentControlStore(db)
      [] db.file /\ db.version = SCHEMA_VERSION -> "ok"
      [] db.file /\ db.version < SCHEMA_VERSION -> "upgrade"
      [] OTHER -> "downgrade"

PlanMigration(db) ==
    [current |-> db.version, target |-> SCHEMA_VERSION, upgrade |-> db.version < SCHEMA_VERSION, downgrade |-> FALSE]
=============================================================================
