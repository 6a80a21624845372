--------------------------- MODULE TrainingOutput ---------------------------
(***************************************************************************)
(* What a training run leaves in its output directory and what a Worker    *)
(* concludes from it.  A checkpoint is named by its number and carries its *)
(* trainer step, its loss, a name for its adapter bytes, the time of its   *)
(* trainer state and, for the properties only, the run that wrote it.      *)
(***************************************************************************)
EXTENDS Naturals, FiniteSets, FiniteSetsExt

CONSTANT MaxCollectFiles

Checkpoint(index, step, loss, adapter, by) ==
    [index |-> index, step |-> step, loss |-> loss, adapter |-> adapter, by |-> by]

Raised(code) == [status |-> "raised", code |-> code]

CheckpointDirs(out) == out.checkpoints

(* The bytes and the time of a checkpoint; a rewrite is always newer.      *)
Fingerprint(k) == [step |-> k.step, loss |-> k.loss, adapter |-> k.adapter, time |-> k.by]

SnapshotCheckpoints(out) == {[index |-> k.index, print |-> Fingerprint(k)] : k \in CheckpointDirs(out)}

(* Leftovers do not count: a checkpoint is of this run when the baseline   *)
(* has none of its name, or has other bytes, or an older time.             *)
ThisRunCheckpoints(out, baseline) ==
    {k \in CheckpointDirs(out) : [index |-> k.index, print |-> Fingerprint(k)] \notin baseline}

Latest(ks) == CHOOSE k \in ks : \A j \in ks : j.index <= k.index
Earliest(ks) == CHOOSE k \in ks : \A j \in ks : k.index <= j.index

(* The source of a resumed run, if it is still there.                      *)
HostCheckpoint(out, source) == {k \in CheckpointDirs(out) : k.index = source}

StepKnown(k) == k.step >= 1
LossFinite(k) == k.loss = "finite"
MpsStepKnown(k) == k.step >= 1
MpsLossFinite(k) == k.loss = "finite"

(* The adapter must differ from the resumed one, or from the first of this *)
(* run; a single checkpoint of a run that resumes nothing proves nothing   *)
(* and is reported as unknown.                                             *)
ParametersUpdated(scored, source) ==
    IF Cardinality(scored) = 1 /\ source = {} THEN "unknown"
    ELSE LET first == IF source # {} THEN CHOOSE k \in source : TRUE ELSE Earliest(scored)
         IN IF first.adapter # Latest(scored).adapter THEN "yes" ELSE "no"

CudaTrainingReport(out, baseline, source) ==
    LET scored == ThisRunCheckpoints(out, baseline)
        from   == HostCheckpoint(out, source)
    IN CASE CheckpointDirs(out) = {} -> Raised("gpu-checkpoint-missing")
         [] CheckpointDirs(out) # {} /\ scored = {} -> Raised("gpu-checkpoint-stale")
         [] scored # {} /\ ~StepKnown(Latest(scored)) -> Raised("gpu-checkpoint-missing")
         [] scored # {} /\ StepKnown(Latest(scored)) /\ ~LossFinite(Latest(scored)) -> Raised("gpu-loss-invalid")
         [] OTHER -> IF ParametersUpdated(scored, from) = "no" THEN Raised("gpu-parameters-unchanged")
                     ELSE [status |-> "ok", checkpoint |-> Latest(scored),
                           updated |-> ParametersUpdated(scored, from)]

(* The MPS report scores every checkpoint in the directory.                *)
MpsTrainingReport(out) ==
    LET all == CheckpointDirs(out)
    IN CASE all = {} -> Raised("mps-checkpoint-missing")
         [] all # {} /\ ~MpsStepKnown(Latest(all)) -> Raised("mps-checkpoint-missing")
         [] all # {} /\ MpsStepKnown(Latest(all)) /\ ~MpsLossFinite(Latest(all)) -> Raised("mps-loss-invalid")
         [] OTHER -> IF Cardinality(all) > 1 /\ Earliest(all).adapter = Latest(all).adapter
                     THEN Raised("mps-parameters-unchanged")
                     ELSE [status |-> "ok", checkpoint |-> Latest(all), updated |-> "yes"]

-----------------------------------------------------------------------------
(* Restoring: what a resume mode asks the trainer to load, and what the    *)
(* host can say it saw.  Load hooks append to one log in the directory.    *)
ResumeLoads(mode) ==
    CASE mode = "full-checkpoint" -> {"weights", "optimizer", "scheduler", "rng", "global_step"}
      [] mode = "adapter-only" -> {"adapter_weights"}
      [] OTHER -> {}

(* The loads that are wrapped; a hook writes a record for a load it saw.   *)
Hooked == {"optimizer", "scheduler", "rng"}
EmitLoaded(out, names) == [out EXCEPT !.loads = @ \cup (names \cap Hooked)]

LoggingStepMarkers(out) == out.markers

ObserveLoaded(out, name) == name \in out.loads

ObservedLoads(out, mode, baseline, source, report) ==
    {n \in ResumeLoads(mode) :
        CASE n = "global_step" -> HostCheckpoint(out, source) # {} /\ LoggingStepMarkers(out)
          [] n = "weights" -> /\ HostCheckpoint(out, source) # {}
                              /\ report.checkpoint \in ThisRunCheckpoints(out, baseline)
                              /\ report.checkpoint.adapter # (CHOOSE k \in HostCheckpoint(out, source) : TRUE).adapter
          [] OTHER -> ObserveLoaded(out, n)}

RestoreStatus(out, mode, baseline, source, report) ==
    LET seen == ObservedLoads(out, mode, baseline, source, report)
    IN CASE mode = "none" \/ seen = {} -> "unverified"
         [] mode # "none" /\ seen # {} /\ seen = ResumeLoads(mode) -> "verified"
         [] OTHER -> "partial"

-----------------------------------------------------------------------------
(* Checkpoint files into the CAS, in order of name: the file and byte      *)
(* bounds first, then one put after another until one fails.               *)
ListTree(out) == IF Cardinality(CheckpointDirs(out)) > MaxCollectFiles THEN Raised("gpu-resource-limit")
                 ELSE [status |-> "ok", files |-> CheckpointDirs(out)]

(* Collecting stops at the first put that fails, and the caller is told in *)
(* the receipt only.                                                       *)
CollectReceipts(out) ==
    {[status |-> IF put = CheckpointDirs(out) THEN "complete" ELSE "incomplete", files |-> put] :
        put \in {{k \in CheckpointDirs(out) : k.index <= n} : n \in {0} \cup {k.index : k \in CheckpointDirs(out)}}}
=============================================================================
