--------------------------- MODULE NativeProcess ----------------------------
(***************************************************************************)
(* The native run command: it rebuilds the preflight of one authorized     *)
(* single-task plan, binds it to the recorded decision, starts a helper in *)
(* its own session and bounds its time and output.  What it checks is a    *)
(* set of facets, as in Launch; every one that is wrong raises.            *)
(***************************************************************************)
EXTENDS Supervise

RequireShapes == {"transportShape", "profileShape", "citationShape", "projectShape"}
ValidatedReadyReport == {"reportShape", "planReady"}
ValidatePolicy == {"policyShape", "policyLimits"}

(* The plan: authorized, bound to the policy, one isolated Python task of  *)
(* the restricted profile.                                                 *)
PreflightNativeProcess ==
    ValidatedReadyReport \cup ValidatePolicy \cup
    {"planDecision", "policyBinding", "registrySeal", "registryDigest", "singleTask", "taskPath", "manifest",
     "capability", "ports", "protocol", "entrypoint"}

RequireAuthorized == {"authorization"}
ConsumeBinding == {"event", "eventSequence", "eventType", "eventActor", "eventDecision", "eventBinding", "eventProject"}
SshTransport == {"ssh"}

NativeFacets == RequireShapes \cup PreflightNativeProcess \cup RequireAuthorized \cup ConsumeBinding \cup SshTransport
MayExecute(differs) == differs \cap NativeFacets = {}

NativeResult(disposition, reason) == [disposition |-> disposition, reason |-> reason]
ProcessLost == NativeResult("unknown", "native.process.lost")
ProcessTimeout == NativeResult("unknown", "native.process.timeout")

(* SIGTERM and a grace, then SIGKILL; a member the caller may not signal   *)
(* stays.  The leader is killed and waited for in any case.                *)
ReapProcessGroup(e) == {Killed(e), [Killed(e) EXCEPT !.members = e.members \ {"leader"}]}

(* A report must name the preflight it was started for.                    *)
ParseNativeReport(emits) ==
    IF emits = "ok" THEN NativeResult("succeeded", "native.process.ok") ELSE NativeResult("failed", "native.brick.invalid-report")

RunNativeBounded(e, emits) ==
    CASE e.code = "overflow" -> NativeResult("failed", "native.brick.output-too-large")
      [] e.code \in {None, "signal"} -> ProcessLost
      [] e.code = "bad" -> NativeResult("failed", "native.brick.failed")
      [] OTHER -> ParseNativeReport(emits)

(* killpg(pgid, 0): no such group is dead; a refusal reads as alive.       *)
CancelGroupConfirmedDead(e) == IF e.members = {} THEN BOOLEAN ELSE {FALSE}

FinishNativeCancelled(e) ==
    UNION {{[ex |-> x, result |-> IF dead THEN NativeResult("failed", "cancel-observed") ELSE NativeResult("unknown", UNOBSERVED)] :
               dead \in CancelGroupConfirmedDead(x)} : x \in ReapProcessGroup(e)}
=============================================================================
