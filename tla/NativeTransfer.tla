--------------------------- MODULE NativeTransfer ---------------------------
(***************************************************************************)
(* Bound material on the compute host: the transfer journal and its        *)
(* receipts (execution/native_transfer.py), the remote preparation that    *)
(* stages, verifies and publishes a workspace                              *)
(* (workers/native_preparation.py), and the local preparation that writes  *)
(* one in place (execution/native_reviewed_preparation.py).                *)
(*                                                                         *)
(* A file is absent, good (its bytes have the bound digest) or bad.  The   *)
(* journal a transfer works on is in memory until _save; a crash loses     *)
(* that copy and keeps the files it wrote.                                 *)
(***************************************************************************)
EXTENDS NativeControl

CONSTANTS
    Roots,              \* state roots, each with its staging area and workspace
    Files,              \* bound files: 1 .. n, in the order of their paths
    MaxTransferRetries, \* MAX_TRANSFER_RETRIES
    Leases              \* lease ids a carrier of a transfer may name

VARIABLE host           \* [root -> its files]

FreshJournal == [status |-> "incomplete", attempts |-> 0, starts |-> 0, lease |-> None, obs |-> "unknown"]
NoFiles == [f \in Files |-> "absent"]
AllGood == [f \in Files |-> "good"]
FreshWorkspace == [files |-> NoFiles, receipt |-> "absent"]

EmptyHost ==
    [cache |-> NoFiles, staged |-> NoFiles, journal |-> FreshJournal, exported |-> {},
     workspace |-> FreshWorkspace, lock |-> NoProc, prepare |-> NoProc, ray |-> "none",
     intent |-> NoProc, claim |-> NoProc, identity |-> NoProc, start |-> NoProc,
     result |-> NoProc, outcome |-> None, cancelled |-> None, differs |-> {}]

H(p) == host[proc[p].root]

-----------------------------------------------------------------------------
(* The reviewed request against what backs it.  A host's differs is the    *)
(* set of facets in which the two disagree.                                *)

AuthorizationFound(d) == "prefix" \notin d     \* the plan authorization fact is on the store
GrantBound(d) == "grant" \notin d /\ ~ctl.lapsed
ObjectsStored(d) == "objects" \notin d          \* every bound object verifies in the store
DocumentsAgree(d) == "documents" \notin d       \* bundle, lock, inventory and review documents
HostMatches(d) == "host" \notin d               \* interpreter bytes
DependenciesInstalled(d) == "dependencies" \notin d

(* _refusal_reason: the request and its context, first mismatch first.     *)
IdentityAgrees(d) == "identity" \notin d
MaterialAgrees(d) == "material" \notin d
CeilingsEnforced(d) == "ceiling" \notin d
GrantUsable == ~ctl.revoked /\ ctl.lease \notin ConsumedLease

Refusal(d) ==
    CASE ~IdentityAgrees(d) -> "identity"
      [] IdentityAgrees(d) /\ ~MaterialAgrees(d) -> "material"
      [] IdentityAgrees(d) /\ MaterialAgrees(d) /\ ~CeilingsEnforced(d) -> "ceiling"
      [] IdentityAgrees(d) /\ MaterialAgrees(d) /\ CeilingsEnforced(d) ->
            IF GrantUsable THEN "none" ELSE "grant"

(* _verify: before files are written and again before user code.           *)
Verify(d) ==
    /\ AuthorizationFound(d) /\ GrantBound(d) /\ ObjectsStored(d)
    /\ DocumentsAgree(d) /\ DependenciesInstalled(d) /\ HostMatches(d)
    /\ Refusal(d) = "none"

(* The controller rebuilds the request from the queued work, its grant and *)
(* the authorization fact, and lists only material it holds.               *)
RequestFromBinding(d) == AuthorizationFound(d) /\ IdentityAgrees(d) /\ MaterialAgrees(d) /\ "grant" \notin d

MaterialIndex(d) == RequestFromBinding(d) /\ ObjectsStored(d) /\ ScopeLive

(* What the compute host checks itself once the bytes are staged.          *)
HostVerifies(d) == DocumentsAgree(d) /\ DependenciesInstalled(d) /\ HostMatches(d)

-----------------------------------------------------------------------------
(* Diagnosis of a workspace                                                *)

(* _inspect, in the order of its tests.                                    *)
Inspect(w) ==
    CASE w = FreshWorkspace \/ w.receipt = "absent" -> "preparation-incomplete"
      [] w.receipt = "bad" -> "preparation-damaged"
      [] w.receipt = "good" /\ (\E f \in Files : w.files[f] = "bad") -> "environment-mismatch"
      [] w.receipt = "good" /\ (\A f \in Files : w.files[f] # "bad") ->
            IF \E f \in Files : w.files[f] = "absent" THEN "preparation-incomplete" ELSE "ready"

Ready(w) == Inspect(w) = "ready"

-----------------------------------------------------------------------------
(* The journal                                                             *)

SameLease(j, lease) == j.lease \in {None, lease}

(* claim_for_transfer: the task start is counted once, for one lease.      *)
ClaimAllowed(j, lease) == SameLease(j, lease) /\ j.starts <= 1

ClaimForTransfer(p) ==
    LET j == H(p).journal IN
    /\ At(p, "carry.claim") /\ H(p).prepare = NoProc
    /\ IF ClaimAllowed(j, proc[p].lease)
       THEN /\ host' = [host EXCEPT ![proc[p].root].journal =
                            [j EXCEPT !.starts = 1, !.lease = IF j.starts = 0 THEN proc[p].lease ELSE j.lease]]
            /\ proc' = [proc EXCEPT ![p].pc = "carry.export", ![p].carried = TRUE]
       ELSE Goto(p, "refused") /\ UNCHANGED host
    /\ UNCHANGED ctl

(* classify_two_host_fault: no fault becomes a success, failure or stop.   *)
Faults ==
    [kind \in {"disconnect-before-claim", "tunnel-loss", "controller-restart", "worker-restart",
               "interrupted-upload", "lost-completion", "disconnected-cancel", "observation-unavailable"} |->
        IF kind = "disconnected-cancel" THEN "cancel-requested" ELSE "unknown"]

(* record_fault: the observation changes, the start count stays; a lost    *)
(* completion of a complete transfer is nothing.                           *)
RecordFault(p, kind) ==
    /\ At(p, "carry.export") /\ H(p).prepare = NoProc
    /\ ~(kind = "lost-completion" /\ H(p).journal.status = "complete")
    /\ Faults[kind] # H(p).journal.obs
    /\ host' = [host EXCEPT ![proc[p].root].journal.obs = Faults[kind]]
    /\ UNCHANGED <<ctl, proc>>

(* export_scoped_outputs: the outputs of the task, verified into the store. *)
Export(p) ==
    /\ At(p, "carry.export")
    /\ host' = [host EXCEPT ![proc[p].root].exported = @ \cup {proc[p].lease}]
    /\ Goto(p, "done")
    /\ UNCHANGED ctl

-----------------------------------------------------------------------------
(* stage_scoped_inputs                                                     *)

(* Leave a preparation: the workspace lock is released.                    *)
LeavePrepare(p, pc) ==
    /\ host' = [host EXCEPT ![proc[p].root].prepare = NoProc]
    /\ Goto(p, pc)

(* _save and raise, or return an incomplete receipt.                       *)
SaveAndLeave(p, status) ==
    /\ host' = [host EXCEPT ![proc[p].root].journal = [proc[p].j EXCEPT !.status = status,
                                !.obs = IF status = "incomplete" THEN "unknown" ELSE proc[p].j.obs],
                            ![proc[p].root].prepare = NoProc]
    /\ Goto(p, proc[p].no)

(* The index is fetched under live authority, then the workspace lock is   *)
(* taken without waiting, and the journal loaded.                          *)
Prepare(p) ==
    /\ At(p, "prepare")
    /\ IF MaterialIndex(H(p).differs) /\ CeilingsEnforced(H(p).differs) /\ H(p).prepare = NoProc
       THEN /\ host' = [host EXCEPT ![proc[p].root].prepare = p]
            /\ Goto(p, "stage")
       ELSE Goto(p, proc[p].no) /\ UNCHANGED host
    /\ UNCHANGED ctl

(* A carrier of the command line waits for the journal's lock instead.     *)
Carry(p) ==
    /\ At(p, "carry") /\ H(p).prepare = NoProc
    /\ host' = [host EXCEPT ![proc[p].root].prepare = p]
    /\ proc' = [proc EXCEPT ![p].pc = "stage", ![p].ok = "carry.claim", ![p].no = "refused"]
    /\ UNCHANGED ctl

(* A complete journal is believed only with every file still in place.     *)
Stage(p) ==
    LET j == H(p).journal IN
    /\ At(p, "stage")
    /\ IF proc[p].lease # None /\ ~SameLease(j, proc[p].lease) THEN LeavePrepare(p, proc[p].no)
       ELSE IF j.status = "complete"
       THEN IF H(p).staged = AllGood THEN Goto(p, "verify") /\ UNCHANGED host
            ELSE LeavePrepare(p, proc[p].no)
       ELSE IF j.attempts >= MaxTransferRetries THEN LeavePrepare(p, proc[p].no)
       ELSE /\ proc' = [proc EXCEPT ![p].pc = "transfer",
                ![p].j = [j EXCEPT !.attempts = j.attempts + 1,
                                   !.lease = IF proc[p].lease = None THEN j.lease ELSE proc[p].lease]]
            /\ UNCHANGED host
    /\ UNCHANGED ctl

NextFile(p) == CHOOSE f \in Files : H(p).staged[f] # "good" /\ \A g \in Files : H(p).staged[g] # "good" => f <= g

(* One file after another.  Bytes in place with another digest and a       *)
(* corrupt cached object refuse; a fetch may be cut off.                   *)
Transfer(p) ==
    /\ At(p, "transfer")
    /\ IF H(p).staged = AllGood
       THEN /\ host' = [host EXCEPT ![proc[p].root].journal = [proc[p].j EXCEPT !.status = "complete"]]
            /\ Goto(p, "verify")
       ELSE LET f == NextFile(p) IN
            IF H(p).staged[f] = "bad" \/ H(p).cache[f] = "bad" THEN SaveAndLeave(p, proc[p].j.status)
            ELSE IF H(p).cache[f] = "absent"
            THEN \/ /\ ScopeLive /\ proc[p].op # "carry"
                    /\ host' = [host EXCEPT ![proc[p].root].cache[f] = "good"] /\ UNCHANGED proc
                 \/ (~ScopeLive \/ proc[p].op = "carry") /\ SaveAndLeave(p, proc[p].j.status)
                 \/ proc[p].lossy /\ SaveAndLeave(p, "incomplete")
            ELSE host' = [host EXCEPT ![proc[p].root].staged[f] = "good"] /\ UNCHANGED proc
    /\ UNCHANGED ctl

(* The staged bytes are read and checked again and the index fetched a     *)
(* second time; the workspace appears by one rename, or is inspected.  A   *)
(* carrier is done with the staged files.                                  *)
Publish(p) ==
    LET w == H(p).workspace IN
    /\ At(p, "verify")
    /\ IF proc[p].op = "carry" THEN LeavePrepare(p, proc[p].ok)
       ELSE IF ~(H(p).staged = AllGood /\ HostVerifies(H(p).differs) /\ MaterialIndex(H(p).differs)) THEN LeavePrepare(p, proc[p].no)
       ELSE IF w = FreshWorkspace
       THEN /\ host' = [host EXCEPT ![proc[p].root].prepare = NoProc,
                                    ![proc[p].root].workspace = [files |-> AllGood, receipt |-> "good"]]
            /\ Goto(p, proc[p].ok)
       ELSE LeavePrepare(p, IF Ready(w) THEN proc[p].ok ELSE proc[p].no)
    /\ UNCHANGED ctl

-----------------------------------------------------------------------------
(* prepare_reviewed_environment: verify the material, then write the files *)
(* of a fresh workspace in place and its receipt last.                     *)

LocalPrepare(p) ==
    /\ At(p, "write")
    /\ LET w == H(p).workspace IN
       IF ~proc[p].writing /\ ~Verify(H(p).differs) THEN Goto(p, "refused") /\ UNCHANGED host
       ELSE IF ~proc[p].writing /\ w # FreshWorkspace
       THEN Goto(p, IF Ready(w) THEN "done" ELSE "refused") /\ UNCHANGED host
       ELSE IF ~proc[p].writing
       THEN proc' = [proc EXCEPT ![p].writing = TRUE] /\ UNCHANGED host
       ELSE IF \E f \in Files : w.files[f] = "absent"
       THEN /\ host' = [host EXCEPT ![proc[p].root].workspace.files[CHOOSE f \in Files :
                            w.files[f] = "absent" /\ \A g \in Files : w.files[g] = "absent" => f <= g] = "good"]
            /\ UNCHANGED proc
       ELSE /\ host' = [host EXCEPT ![proc[p].root].workspace.receipt = "good"]
            /\ proc' = [proc EXCEPT ![p].pc = IF Ready([w EXCEPT !.receipt = "good"]) THEN "done" ELSE "refused",
                                    ![p].writing = FALSE]
    /\ UNCHANGED ctl

(* Something else on the host changes the bytes of a file.                 *)
Damage(r, f) ==
    /\ \/ host[r].cache[f] = "good" /\ host' = [host EXCEPT ![r].cache[f] = "bad"]
       \/ host[r].staged[f] = "good" /\ host' = [host EXCEPT ![r].staged[f] = "bad"]
       \/ host[r].workspace.files[f] = "good" /\ host' = [host EXCEPT ![r].workspace.files[f] = "bad"]
    /\ UNCHANGED <<ctl, proc>>

TransferStep(p) ==
    \/ Prepare(p) \/ Carry(p) \/ Stage(p) \/ Transfer(p) \/ Publish(p) \/ LocalPrepare(p)
    \/ ClaimForTransfer(p) \/ Export(p) \/ \E kind \in DOMAIN Faults : RecordFault(p, kind)
=============================================================================
