--------------------------- MODULE ArtifactStore ----------------------------
(***************************************************************************)
(* The local content-addressed store: put, exists, verify and open.  An    *)
(* object has a name (its directory entry) and bytes; both are first in    *)
(* the page cache and are on disk only after an fsync of the directory or  *)
(* of the file.  A digest stands for the bytes that hash to it.            *)
(***************************************************************************)
EXTENDS Naturals, FiniteSets

CONSTANT Digests

(* dirs: tmp, objects, sha256 and the shard.  A name or a directory is     *)
(* absent, entered (in the cache) or durable; bytes are unsynced, good or  *)
(* torn.                                                                   *)
EmptyCas ==
    [root |-> "ok", dirs |-> "absent", name |-> [d \in Digests |-> "absent"], bytes |-> [d \in Digests |-> "none"]]

(* What an import accepts as a source, and the recorded root inode.        *)
SourceKinds == {"regular", "missing", "symlink", "directory", "fifo", "device"}
OpenRegularSource(kind) == kind = "regular"
OpenRootPath(cas) == cas.root # "missing"
OpenTrustedRoot(cas) == OpenRootPath(cas) /\ cas.root # "replaced"
OpenShard(cas) == OpenTrustedRoot(cas) /\ cas.dirs # "absent"

(* A temporary file holds the bytes that were hashed while being copied,   *)
(* so the digest is that of the copy whatever happens to the source.       *)
CreateTemp(d) == [digest |-> d, synced |-> FALSE]
FsyncFile(temp) == [temp EXCEPT !.synced = TRUE]

EnsureChildDirs(cas) == [cas EXCEPT !.dirs = IF @ = "absent" THEN "entered" ELSE @]
FsyncDirs(cas) == [cas EXCEPT !.dirs = "durable"]

(* Publishing: a hard link under the digest; when the name exists already  *)
(* its bytes must hash to the digest.                                      *)
ProbeObject(cas, d) == cas.name[d] # "absent"
HashMatches(cas, d) == cas.bytes[d] \in {"unsynced", "good"}
RequireMatchingObject(cas, d) == ProbeObject(cas, d) /\ HashMatches(cas, d)
CanPublish(cas, temp) == ProbeObject(cas, temp.digest) => RequireMatchingObject(cas, temp.digest)

Publish(cas, temp) ==
    IF ProbeObject(cas, temp.digest) THEN cas
    ELSE [cas EXCEPT !.name[temp.digest] = "entered",
                     !.bytes[temp.digest] = IF temp.synced THEN "good" ELSE "unsynced"]

FsyncShard(cas) == [cas EXCEPT !.name = [d \in Digests |-> IF @[d] = "entered" THEN "durable" ELSE @[d]]]

(* exists, open and verify: a regular file whose bytes hash to its name.   *)
Exists(cas, d) == OpenShard(cas) /\ ProbeObject(cas, d)
OpenStoredObject(cas, d) == OpenShard(cas) /\ ProbeObject(cas, d)
Verify(cas, d) == OpenStoredObject(cas, d) /\ HashMatches(cas, d)

(* What a power loss may leave: an entry that was not synced stays or is   *)
(* lost, and so do the contents of a directory; unsynced bytes are good or *)
(* torn.                                                                   *)
AfterPowerLoss(cas, keepDirs, kept) ==
    [cas EXCEPT !.dirs = IF @ = "entered" THEN (IF keepDirs THEN "durable" ELSE "absent") ELSE @,
                !.name = [d \in Digests |->
                    IF cas.name[d] = "absent" \/ (cas.dirs = "entered" /\ ~keepDirs) \/ (cas.name[d] = "entered" /\ d \notin kept)
                    THEN "absent" ELSE "durable"],
                !.bytes = [d \in Digests |->
                    IF cas.bytes[d] = "unsynced" THEN (IF d \in kept THEN "good" ELSE "torn") ELSE cas.bytes[d]]]

PowerLost(cas) == {AfterPowerLoss(cas, keepDirs, kept) : keepDirs \in BOOLEAN, kept \in SUBSET Digests}
=============================================================================
