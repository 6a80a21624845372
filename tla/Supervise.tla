----------------------------- MODULE Supervise ------------------------------
(***************************************************************************)
(* The executor of a lease as the host sees it, and how a Worker observes  *)
(* and stops it.  A POSIX executor is a process group: its leader and a    *)
(* child that may outlive it.  An OCI executor is a docker client (the     *)
(* leader) and a container that belongs to the daemon, so it survives its  *)
(* client.  Every probe may fail; a failed probe never reads as an exit.   *)
(***************************************************************************)
EXTENDS Naturals, FiniteSets

CONSTANT None

OBSERVED_STOP == "observed-stop"
UNOBSERVED    == "execution-unobserved"

(* The executor: running members of its group, how its leader ended, the   *)
(* container, whether the cidfile names it, whether the leader's pid now   *)
(* belongs to a stranger, and whether it got it in the middle of a stop.   *)
NoExecutor ==
    [kind |-> "none", members |-> {}, code |-> None, box |-> "none", cid |-> FALSE,
     starts |-> 0, wrote |-> 0, stranger |-> "no", raced |-> FALSE]

Spawned(e, kind, members) ==
    [NoExecutor EXCEPT !.kind = kind, !.members = members, !.starts = e.starts + 1,
                       !.box = IF kind = "oci" THEN "creating" ELSE "none"]

UserCodeRuns(e) == IF e.kind = "oci" THEN e.box \in {"creating", "running"} ELSE e.members # {}

(* What a signal that some members die of leaves, and one that all do.     *)
Died(e, some) == [e EXCEPT !.members = @ \ some, !.code = IF "leader" \in some THEN "signal" ELSE @]
Killed(e) == Died(e, e.members)

-----------------------------------------------------------------------------
(* One process: kill(pid, 0), then its stat line, then ps.                 *)
StateObservation(state) ==
    CASE state = "" -> "unknown" [] state \in {"Z", "X"} -> "exited" [] OTHER -> "running"

RecheckKill(signal) ==
    CASE signal = "gone" -> "exited" [] signal = "denied" -> "running" [] OTHER -> "unknown"

PsObserve(v) ==
    IF v.ps \in {"failed", ""} THEN RecheckKill(v.again) ELSE StateObservation(v.ps)

ObserveProcess(v) ==
    CASE v.signal # "sent" -> RecheckKill(v.signal)
      [] v.signal = "sent" /\ v.stat # "unread" -> StateObservation(v.stat)
      [] v.signal = "sent" /\ v.stat = "unread" /\ v.procfs -> IF v.again = "gone" THEN "exited" ELSE "unknown"
      [] OTHER -> PsObserve(v)

(* What the probes of a process that runs, or has gone, may answer.        *)
ProcessViews(runs) ==
    IF runs THEN [signal : {"sent", "denied", "error"}, stat : {"unread", "R"}, procfs : BOOLEAN,
                  again : {"sent", "error"}, ps : {"failed", "R"}]
            ELSE [signal : {"gone", "error"}, stat : {"unread"}, procfs : BOOLEAN,
                  again : {"gone", "error"}, ps : {"failed"}]
          \cup [signal : {"sent"}, stat : {"Z", "unread"}, procfs : BOOLEAN, again : {"gone", "error"}, ps : {"Z", "failed"}]

Observations == [runs \in BOOLEAN |-> {ObserveProcess(v) : v \in ProcessViews(runs)}]

(* Mutant: the leader alone is observed.                                   *)
ObserveLeader(present, members, leader, states) == leader

(* The group: killpg(pgid, 0), the members procfs or pgrep lists, and each *)
(* member's own observation.  "unknown" stands for a probe that failed.    *)
ObserveGroup(present, members, leader, states) ==
    CASE present = "no" -> leader
      [] present # "no" /\ members = "unknown" ->
            IF present = "yes" \/ leader = "running" THEN "running" ELSE "unknown"
      [] members = "none" -> IF present = "yes" THEN "unknown" ELSE leader
      [] OTHER -> IF "running" \in states THEN "running"
                  ELSE IF "unknown" \in states THEN "unknown" ELSE "exited"

(* What killpg(pgid, 0) may say: a group with a member is present.         *)
GroupPresent(e) == IF e.members = {} THEN {"no", "unknown"} ELSE {"yes", "unknown"}

(* What the listing may say; a mixed PID namespace hides the members of a  *)
(* group that killpg still reaches.                                        *)
ListedMembers(e, present) ==
    {"unknown"} \cup (IF e.members = {} THEN {"none"} ELSE {"some"})
                \cup (IF present = "yes" THEN {"none"} ELSE {})

GroupObservations(e) ==
    UNION {{ObserveGroup(p, m, l, {o}) :
                m \in ListedMembers(e, p), l \in Observations["leader" \in e.members], o \in Observations[TRUE]} :
           p \in GroupPresent(e)}

-----------------------------------------------------------------------------
(* The stored identity of an executor.  A start token is absent when its   *)
(* probe failed.                                                           *)
Identity(e, token) == [kind |-> e.kind, token |-> token, cid |-> e.cid]

(* A live pid must still carry the recorded start token, and a probe that  *)
(* fails refuses; without a token nothing is compared.                     *)
MaySignal(e, id) == IF ~id.token THEN {TRUE} ELSE IF e.stranger = "runs" THEN {FALSE} ELSE BOOLEAN

(* A signal to the group's number: it reaches whoever owns it now, and any *)
(* member may ignore it.  It is not sent when the group has gone, or is    *)
(* denied.                                                                 *)
SignalGroup(e) ==
    {[ex |-> e, sent |-> FALSE]} \cup
    {[ex |-> x, sent |-> TRUE] :
        x \in IF e.stranger = "runs" THEN {[e EXCEPT !.stranger = "hit"]} ELSE {Died(e, some) : some \in SUBSET e.members}}

(* The stop is observed when a probe of the whole group says it has gone.  *)
WaitGroupExited(e) == {IF o = "exited" THEN OBSERVED_STOP ELSE UNOBSERVED : o \in GroupObservations(e)}

(* SIGTERM and a wait, then SIGKILL and a wait, of a leader that is an     *)
(* unwaited child of the caller: its number is nobody else's meanwhile,    *)
(* and the two signals are one.                                            *)
StopPosixGroup(e, id) ==
    {[ex |-> e, outcome |-> UNOBSERVED]} \cup
    IF TRUE \notin MaySignal(e, id) THEN {}
    ELSE UNION {{[ex |-> s.ex, outcome |-> o] : o \in WaitGroupExited(s.ex)} : s \in SignalGroup(e)}

(* docker inspect: running, not running, or no usable answer.              *)
InspectContainer(e) == {"unknown"} \cup {CASE e.box = "running" -> "true" [] e.box = "exited" -> "false" [] OTHER -> "unknown"}

(* An attached docker client ends, with a non-zero code, with its container. *)
Halted(e, box) == [e EXCEPT !.box = box, !.members = {}, !.code = IF "leader" \in e.members THEN "bad" ELSE @]

(* inspect, stop, inspect, kill, inspect; only "not running" is observed.  *)
StopOciContainer(e, id) ==
    IF ~id.cid \/ e.box \notin {"running", "exited"} THEN {[ex |-> e, outcome |-> UNOBSERVED]}
    ELSE LET stopped == {e, Halted(e, "exited")} IN
         {[ex |-> s, outcome |-> UNOBSERVED] : s \in stopped} \cup
         {[ex |-> Halted(s, "gone"), outcome |-> OBSERVED_STOP] : s \in {t \in stopped : "false" \in InspectContainer(t)}}

ObserveAndStop(e, id) ==
    CASE id = None -> {[ex |-> e, outcome |-> UNOBSERVED]}
      [] id # None /\ id.kind = "oci" -> StopOciContainer(e, id)
      [] OTHER -> StopPosixGroup(e, id)
=============================================================================
