------------------------------- MODULE Launch -------------------------------
(***************************************************************************)
(* What an executor checks before it starts user code.  A job disagrees    *)
(* with what was authorized, or with the host, in a set of facets; a check *)
(* looks at some of them and, when one is wrong, either raises (the client *)
(* reports nothing) or returns a failed result (the client fails the       *)
(* lease).  Checks are made in the order of the code.                      *)
(***************************************************************************)
EXTENDS Naturals, Sequences

Check(facets, how) == [facets |-> facets, how |-> how]

(* A grant is recorded only for a cited human decision that is authorized, *)
(* and for the execution object of the plan rebuilt from it.               *)
RequireAuthorizedCitation ==
    Check({"citation", "citationSequence", "citationType", "citationActor", "citationDecision", "citationProject",
           "citationCapability"}, "raised")
RequireAuthorizedBinding ==
    Check({"workflow", "revision", "taskCapability", "rebuiltPlan", "rebuiltDecision", "plannedObject"}, "raised")
GrantFacets == RequireAuthorizedCitation.facets \cup RequireAuthorizedBinding.facets
Granted(differs) == differs \cap GrantFacets = {}

(* The digest of image, config, inputs, media type and runtime that the    *)
(* grant names, recomputed by the client.                                  *)
RequireExecutionDigest == Check({"executionDigest"}, "raised")

(* Brick requests: config and inputs as one JSON document of bounded size. *)
BrickRequest == Check({"requestJson"}, "failed")
BrickRequestSize == Check({"requestSize"}, "raised")
MaterializeBrick == Check({"brickSize"}, "raised")

(* OCI: a closed set of keys and limits, a live engine, a pinned image,    *)
(* secrets that resolve, and an input root no one else can write.          *)
ParseOciLaunchPolicy == Check({"imageTag", "launchKey", "network", "limit", "brickDigest", "secretSlot"}, "raised")
DiscoverOciBackend == Check({"engine"}, "raised")
RequirePinnedImage == Check({"image"}, "raised")
ResolveSecretEnv == Check({"secret"}, "raised")
PrepareOciInputRoot == Check({"inputRoot"}, "raised")

(* GPU: the policy fails the lease; a plan that is not the authorized one  *)
(* raises; output that the container user cannot write fails.              *)
ParseGpuResume == {"resumeMode", "resumePath"}
ParseGpuLaunchPolicy ==
    Check({"imageTag", "launchKey", "network", "device", "commandDigest", "planDigest", "mount", "profile", "limit"}
            \cup ParseGpuResume, "failed")
(* A plan becomes an argv only under the pinned backend, and a resume flag *)
(* is appended only for a checkpoint under the output mount.               *)
PlanMsSwift == {"backendPin"}
PlanMsSwiftWsl == {"wslBackendPin", "wslSteps"}
ApplyResumeOverlay == {"hostMapping", "resumeFlag", "checkpointMount"}
AuthorizedGpuCommand ==
    Check({"plan", "planMatch", "planProfile", "command"} \cup PlanMsSwift \cup PlanMsSwiftWsl \cup ApplyResumeOverlay, "raised")
GpuHostDirs == Check({"dirs"}, "failed")
PrepareGpuLaunch == Check({"accelerator", "argv", "outputMount"}, "raised")
PrepareGpuOutputRoot == Check({"outputRoot", "outputOwner", "outputFiles"}, "failed")
ProbeGpuOutput == Check({"outputProbe", "sourceUnreadable"}, "failed")

(* MPS: everything raises, the device probe last.                          *)
ParseMpsLaunchPolicy ==
    Check({"imageTag", "launchKey", "network", "device", "isolation", "commandDigest", "planDigest", "limit",
           "dataDigest", "resumeMode", "resumePath"}, "raised")
PlanMsSwiftMps == {"backendPin"}
MpsPlan == Check({"accelerator", "plan", "planMatch", "command"} \cup PlanMsSwiftMps \cup ApplyResumeOverlay, "raised")
ParseEnvironment == Check({"environment"}, "raised")
RequireWorkspace == Check({"dirs", "interpreter", "workspace"}, "raised")
MpsTrees == Check({"dataTree", "modelTree"}, "raised")
ProbeDevice == Check({"deviceProbe"}, "raised")

Checks(runtime) ==
    <<RequireExecutionDigest>> \o
    CASE runtime = "python-sandbox" -> <<BrickRequest, BrickRequestSize, MaterializeBrick>>
      [] runtime = "oci-container" ->
            <<BrickRequest, BrickRequestSize, ParseOciLaunchPolicy, DiscoverOciBackend, RequirePinnedImage,
              ResolveSecretEnv, MaterializeBrick, PrepareOciInputRoot>>
      [] runtime = "gpu-oci" ->
            <<ParseGpuLaunchPolicy, AuthorizedGpuCommand, GpuHostDirs, PrepareGpuLaunch, DiscoverOciBackend,
              RequirePinnedImage, PrepareGpuOutputRoot, ProbeGpuOutput>>
      [] runtime = "macos-mps" ->
            <<ParseMpsLaunchPolicy, MpsPlan, ParseEnvironment, RequireWorkspace, MpsTrees, ProbeDevice>>

Facets(runtime) == GrantFacets \cup UNION {Checks(runtime)[i].facets : i \in 1..Len(Checks(runtime))}

(* The first check that fails decides; "started" when none does.           *)
LaunchOutcome(runtime, differs) ==
    LET failing == {i \in 1..Len(Checks(runtime)) : Checks(runtime)[i].facets \cap differs # {}}
    IN IF failing = {} THEN "started"
       ELSE Checks(runtime)[CHOOSE i \in failing : \A j \in failing : i <= j].how

(* A GPU worker probes its output before it polls, so that a directory it  *)
(* cannot use costs no claim.                                              *)
PreflightOK(runtime, dirs, differs) ==
    runtime = "gpu-oci" /\ dirs =>
        differs \cap (DiscoverOciBackend.facets \cup RequirePinnedImage.facets
                        \cup PrepareGpuOutputRoot.facets \cup ProbeGpuOutput.facets) = {}
=============================================================================
