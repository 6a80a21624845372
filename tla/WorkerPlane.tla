---------------------------- MODULE WorkerPlane ----------------------------
(***************************************************************************)
(* The worker plane (workers/plane.py) and the fold it is validated        *)
(* against (workers/control.py), for the work of one task attempt: HMAC    *)
(* grants, the lease that a poll opens and claims in three appends, the    *)
(* results, expiry and revocation.                                         *)
(*                                                                         *)
(* Requests are threads of the HTTP server, or other processes, each with  *)
(* its own connection.  A request samples the clock, reads a fold, decides *)
(* and appends; what it decided from may be old when it appends.           *)
(* WorkerControl.append itself rebuilds the fold, applies the draft to it  *)
(* and inserts under the head it read, so one append is one step on the    *)
(* current fold; losing that race, a rejected append, a lost connection    *)
(* and a crash all end the request (Abort).                                *)
(*                                                                         *)
(* Digests, nonces and token signatures are left out: a request carries    *)
(* the genuine token of its grant, and grant, queue entry and token are    *)
(* bound to the same execution object.                                     *)
(***************************************************************************)
EXTENDS Integers, Sequences, FiniteSets

CONSTANTS
    Workers, Capable,      \* Capable: match the runtime and accelerators
    Grants,                \* grant ids; the lease of g is "lease.g"
    GrantWorker,           \* the worker a grant is recorded for
    GrantExpiry,           \* expires_at of a grant and of its token
    LeaseSeconds,
    MaxTime,               \* bound on the clock
    Requests,              \* concurrent requests
    Results,               \* result digests a worker may report
    Reasons,               \* reason codes of work.failed
    None

ASSUME PlaneAssumption ==
    /\ Capable \subseteq Workers
    /\ GrantWorker \in [Grants -> Workers]
    /\ GrantExpiry \in [Grants -> Nat]
    /\ LeaseSeconds \in Nat \ {0}
    /\ MaxTime \in Nat
    /\ None \notin Grants
    /\ "cancel-observed" \in Reasons

TerminalLease == {"completed", "failed", "expired"}

Lease ==
    [grant : Grants, expires : Nat, claimed : BOOLEAN,
     status : {"leased"} \union TerminalLease,
     outcome : Results \union Reasons \union {None}]

Grant == [status : {"absent", "live", "revoked"}, consumed : BOOLEAN]

VARIABLES
    clock,
    workers,    \* registered workers
    grants,     \* the grant records
    queued,     \* work.queued was recorded
    leases,     \* the lease records, in log order
    cancel,     \* a cancel request for the run or attempt is recorded
    req,        \* what a request remembers
    pc,         \* what a request does next
    delivered   \* polls answered with resumed = false, per lease

facts == <<workers, grants, queued, leases, cancel>>
vars == <<clock, facts, req, pc, delivered>>

Request ==
    [grant : Grants \union {None}, now : Nat,
     lease : Grants \union {None},      \* the lease it works on, by its grant
     resumed : BOOLEAN, consumed : BOOLEAN,
     outcome : Results \union Reasons \union {None}]

NoRequest ==
    [grant |-> None, now |-> 0, lease |-> None, resumed |-> FALSE,
     consumed |-> FALSE, outcome |-> None]

Steps == {"idle", "poll", "cancel?", "expireStale", "lease", "claim", "consume",
          "deliver", "expireOwn", "complete", "fail"}

Init ==
    /\ clock = 0 /\ workers = {} /\ queued = FALSE /\ leases = << >> /\ cancel = FALSE
    /\ grants = [g \in Grants |-> [status |-> "absent", consumed |-> FALSE]]
    /\ req = [r \in Requests |-> NoRequest]
    /\ pc = [r \in Requests |-> "idle"]
    /\ delivered = [g \in Grants |-> 0]

-----------------------------------------------------------------------------
(* Queries on the fold.                                                    *)

LastOf(indexes) == CHOOSE i \in indexes : \A j \in indexes : j <= i

LeasesOf(g) == {i \in DOMAIN leases : leases[i].grant = g}

LeasesOfWorker(w) == {i \in DOMAIN leases : GrantWorker[leases[i].grant] = w}

Active(lease, now) == lease.status \notin TerminalLease /\ lease.expires > now

AnyActive(now) == \E i \in DOMAIN leases : Active(leases[i], now)

\* _stale_lease: the last lease, when it ran out of time and nobody recorded it.
StaleGrant(now) ==
    IF leases = << >> THEN None
    ELSE LET last == leases[Len(leases)]
         IN  IF last.status \notin TerminalLease /\ last.expires <= now
             THEN last.grant ELSE None

\* A genuine token names its grant and carries the grant's expiry.
TokenLive(g, now) == GrantExpiry[g] > now

GrantLive(g, now) == grants[g].status = "live" /\ GrantExpiry[g] > now

-----------------------------------------------------------------------------
(* The facts, as apply_worker_fold admits them.  The duplicate event id of *)
(* a fact that is already in the log is refused by the store.              *)

CanRegister(w) == w \notin workers

CanRecordGrant(g) == grants[g].status = "absent" /\ GrantWorker[g] \in workers

CanRevoke(g) == grants[g].status = "live"

CanQueue == ~queued

\* Mutant: the fold leaves it to poll to see that no lease is active.
CanLeaseTrustingPoll(g, now) ==
    /\ LeasesOf(g) = {}
    /\ GrantWorker[g] \in workers \intersect Capable
    /\ grants[g].status = "live"
    /\ queued

CanLease(g, now) ==
    /\ LeasesOf(g) = {}
    /\ GrantWorker[g] \in workers \intersect Capable
    /\ grants[g].status = "live"
    /\ queued
    /\ ~AnyActive(now)

CanClaim(g) ==
    \E i \in LeasesOf(g) : leases[i].status \notin TerminalLease /\ ~leases[i].claimed

\* The lease must be the grant's own: a worker that holds a lease of another
\* grant of its own cannot spend this grant on it.
CanConsume(g, lease) ==
    grants[g].status = "live" /\ ~grants[g].consumed /\ lease = g /\ LeasesOf(g) # {}

\* Mutant: a lease that has an outcome can be given another.
CanSettleAgain(g) == LeasesOf(g) # {}

CanSettle(g) == \E i \in LeasesOf(g) : leases[i].status \notin TerminalLease

CanComplete(g) == CanSettle(g) /\ \A i \in LeasesOf(g) : leases[i].claimed

\* Mutant: status and outcome are swapped.
SettleSwapped(g, status, outcome) ==
    leases' = [i \in DOMAIN leases |->
                  IF leases[i].grant = g
                  THEN [leases[i] EXCEPT !.status = outcome, !.outcome = status]
                  ELSE leases[i]]

Settle(g, status, outcome) ==
    leases' = [i \in DOMAIN leases |->
                  IF leases[i].grant = g
                  THEN [leases[i] EXCEPT !.status = status, !.outcome = outcome]
                  ELSE leases[i]]

-----------------------------------------------------------------------------
(* Single-append operations.                                               *)

Register(w) ==
    /\ CanRegister(w)
    /\ workers' = workers \union {w}
    /\ UNCHANGED <<clock, grants, queued, leases, cancel, req, pc, delivered>>

RecordGrant(g) ==
    /\ CanRecordGrant(g)
    /\ grants' = [grants EXCEPT ![g].status = "live"]
    /\ UNCHANGED <<clock, workers, queued, leases, cancel, req, pc, delivered>>

RevokeGrant(g) ==
    /\ CanRevoke(g)
    /\ grants' = [grants EXCEPT ![g].status = "revoked"]
    /\ UNCHANGED <<clock, workers, queued, leases, cancel, req, pc, delivered>>

Enqueue ==
    /\ CanQueue
    /\ queued' = TRUE
    /\ UNCHANGED <<clock, workers, grants, leases, cancel, req, pc, delivered>>

\* runs cancel: run.cancel.requested or attempt.cancel.requested is recorded.
RequestCancel ==
    /\ ~cancel
    /\ cancel' = TRUE
    /\ UNCHANGED <<clock, workers, grants, queued, leases, req, pc, delivered>>

Tick ==
    /\ clock < MaxTime
    /\ clock' = clock + 1
    /\ UNCHANGED <<facts, req, pc, delivered>>

-----------------------------------------------------------------------------
(* Requests.                                                               *)

Goto(r, step) == pc' = [pc EXCEPT ![r] = step]

Return(r) == Goto(r, "idle") /\ req' = [req EXCEPT ![r] = NoRequest]

\* A poll arrives with a token, samples the clock and finds the token live.
PollArrive(r, g) ==
    /\ pc[r] = "idle"
    /\ grants[g].status # "absent"
    /\ TokenLive(g, clock)
    /\ req' = [req EXCEPT ![r].grant = g, ![r].now = clock]
    /\ Goto(r, "poll")
    /\ UNCHANGED <<clock, facts, delivered>>

Abort(r) ==
    /\ pc[r] # "idle"
    /\ Return(r)
    /\ UNCHANGED <<clock, facts, delivered>>

\* poll reads the fold: the grant must be live and the work queued.  A worker
\* that has a lease of the attempt resumes it or is refused.  One that has none
\* is refused while any lease is active, and remembers a lease that ran out.
ResumeStep(lease, g, now) ==
    IF lease.status \in TerminalLease THEN "idle"
    ELSE IF lease.expires <= now THEN "expireOwn"
    ELSE IF ~lease.claimed THEN "claim"
    ELSE IF ~grants[g].consumed THEN "consume"
    ELSE "deliver"

\* Mutant: work that was claimed before is handed out as new.
PollResumeAsNew(r) ==
    LET g == req[r].grant
        mine == LeasesOfWorker(GrantWorker[g])
        lease == leases[LastOf(mine)]
    IN  /\ pc[r] = "poll"
        /\ GrantLive(g, req[r].now) /\ queued /\ mine # {}
        /\ ResumeStep(lease, g, req[r].now) # "idle"
        /\ req' = [req EXCEPT ![r].lease = lease.grant, ![r].consumed = grants[g].consumed]
        /\ Goto(r, ResumeStep(lease, g, req[r].now))
        /\ UNCHANGED <<clock, facts, delivered>>

PollResume(r) ==
    LET g == req[r].grant
        mine == LeasesOfWorker(GrantWorker[g])
        lease == leases[LastOf(mine)]
    IN  /\ pc[r] = "poll"
        /\ GrantLive(g, req[r].now) /\ queued /\ mine # {}
        /\ ResumeStep(lease, g, req[r].now) # "idle"
        /\ \E resume_existing \in BOOLEAN :   \* the caller knows the work already
               req' = [req EXCEPT ![r].lease = lease.grant,
                                  ![r].resumed = lease.claimed \/ resume_existing,
                                  ![r].consumed = grants[g].consumed]
        /\ Goto(r, ResumeStep(lease, g, req[r].now))
        /\ UNCHANGED <<clock, facts, delivered>>

PollFresh(r) ==
    LET g == req[r].grant
    IN  /\ pc[r] = "poll"
        /\ GrantLive(g, req[r].now) /\ queued
        /\ LeasesOfWorker(GrantWorker[g]) = {}
        /\ ~AnyActive(req[r].now)
        /\ req' = [req EXCEPT ![r].lease = StaleGrant(req[r].now)]
        /\ Goto(r, "cancel?")
        /\ UNCHANGED <<clock, facts, delivered>>

\* run_cancel_requested rebuilds the Run; poll answers "no work" if it is set.
CheckCancel(r) ==
    /\ pc[r] = "cancel?"
    /\ ~cancel
    /\ Goto(r, IF req[r].lease # None THEN "expireStale" ELSE "lease")
    /\ UNCHANGED <<clock, facts, req, delivered>>

\* expire_lease, for the lease of another worker or for one's own.
ExpireLease(r) ==
    /\ pc[r] \in {"expireStale", "expireOwn"}
    /\ CanSettle(req[r].lease)
    /\ Settle(req[r].lease, "expired", None)
    /\ IF pc[r] = "expireStale" THEN Goto(r, "lease") /\ UNCHANGED req ELSE Return(r)
    /\ UNCHANGED <<clock, workers, grants, queued, cancel, delivered>>

\* Mutant: the grant is consumed before the lease is claimed.
OpenLeaseConsumeFirst(r) ==
    LET g == req[r].grant
    IN  /\ pc[r] = "lease"
        /\ CanLease(g, req[r].now)
        /\ leases' = Append(leases, [grant |-> g, expires |-> req[r].now + LeaseSeconds,
                                     claimed |-> FALSE, status |-> "leased",
                                     outcome |-> None])
        /\ req' = [req EXCEPT ![r].lease = g]
        /\ Goto(r, "consume")
        /\ UNCHANGED <<clock, workers, grants, queued, cancel, delivered>>

\* _open_lease, first append.
OpenLease(r) ==
    LET g == req[r].grant
    IN  /\ pc[r] = "lease"
        /\ CanLease(g, req[r].now)
        /\ leases' = Append(leases, [grant |-> g, expires |-> req[r].now + LeaseSeconds,
                                     claimed |-> FALSE, status |-> "leased",
                                     outcome |-> None])
        /\ req' = [req EXCEPT ![r].lease = g]
        /\ Goto(r, "claim")
        /\ UNCHANGED <<clock, workers, grants, queued, cancel, delivered>>

\* Second append, of _open_lease and of _resume_or_reject.
ClaimLease(r) ==
    /\ pc[r] = "claim"
    /\ CanClaim(req[r].lease)
    /\ leases' = [i \in DOMAIN leases |->
                     IF leases[i].grant = req[r].lease
                     THEN [leases[i] EXCEPT !.claimed = TRUE] ELSE leases[i]]
    /\ Goto(r, IF req[r].consumed THEN "deliver" ELSE "consume")
    /\ UNCHANGED <<clock, workers, grants, queued, cancel, req, delivered>>

\* Third append.
ConsumeGrant(r) ==
    /\ pc[r] = "consume"
    /\ CanConsume(req[r].grant, req[r].lease)
    /\ grants' = [grants EXCEPT ![req[r].grant].consumed = TRUE]
    /\ Goto(r, "deliver")
    /\ UNCHANGED <<clock, workers, queued, leases, cancel, req, delivered>>

\* The claimed work is returned; resumed says that it was claimed before.
Deliver(r) ==
    /\ pc[r] = "deliver"
    /\ delivered' = [delivered EXCEPT ![req[r].lease] = @ + IF req[r].resumed THEN 0 ELSE 1]
    /\ Return(r)
    /\ UNCHANGED <<clock, facts>>

\* complete, fail: the clock sample and the read of the fold.  A lease that has
\* this kind of outcome is answered from the log (or refused) without an append.
ResultGrantLive(g, now) ==
    /\ GrantLive(g, now)
    /\ \A i \in LeasesOf(g) :
           leases[i].expires > now /\ leases[i].status \notin {"failed", "expired"}

ResultRead(r, g, write, outcome, done) ==
    /\ pc[r] = "idle"
    /\ \E i \in LeasesOf(g) : leases[i].status # done
    /\ ResultGrantLive(g, clock)
    /\ req' = [req EXCEPT ![r].grant = g, ![r].outcome = outcome]
    /\ Goto(r, write)
    /\ UNCHANGED <<clock, facts, delivered>>

CompleteRead(r, g) ==
    \E result \in Results : ResultRead(r, g, "complete", result, "completed")

FailRead(r, g) == \E reason \in Reasons : ResultRead(r, g, "fail", reason, "failed")

Complete(r) ==
    /\ pc[r] = "complete"
    /\ CanComplete(req[r].grant)
    /\ Settle(req[r].grant, "completed", req[r].outcome)
    /\ Return(r)
    /\ UNCHANGED <<clock, workers, grants, queued, cancel, delivered>>

Fail(r) ==
    /\ pc[r] = "fail"
    /\ CanSettle(req[r].grant)
    /\ Settle(req[r].grant, "failed", req[r].outcome)
    /\ Return(r)
    /\ UNCHANGED <<clock, workers, grants, queued, cancel, delivered>>

\* fail_observed_cancellation: for a consumed, claimed lease; expiry and
\* revocation do not matter.  Its append is retried after a lost race.
ObservedRead(r, g) ==
    /\ pc[r] = "idle"
    /\ grants[g].consumed /\ cancel
    /\ \E i \in LeasesOf(g) : leases[i].claimed /\ leases[i].status = "leased"
    /\ req' = [req EXCEPT ![r].grant = g, ![r].outcome = "cancel-observed"]
    /\ Goto(r, "fail")
    /\ UNCHANGED <<clock, facts, delivered>>

RequestStep(r) ==
    \/ \E g \in Grants : \/ PollArrive(r, g) \/ CompleteRead(r, g)
                         \/ FailRead(r, g) \/ ObservedRead(r, g)
    \/ PollResume(r) \/ PollFresh(r) \/ CheckCancel(r) \/ ExpireLease(r)
    \/ OpenLease(r) \/ ClaimLease(r) \/ ConsumeGrant(r) \/ Deliver(r)
    \/ Complete(r) \/ Fail(r) \/ Abort(r)

Next ==
    \/ \E r \in Requests : RequestStep(r)
    \/ \E w \in Workers : Register(w)
    \/ \E g \in Grants : RecordGrant(g) \/ RevokeGrant(g)
    \/ Enqueue \/ RequestCancel \/ Tick

Spec == Init /\ [][Next]_vars

-----------------------------------------------------------------------------
(* Properties.                                                             *)

TypeOK ==
    /\ clock \in 0 .. MaxTime
    /\ workers \subseteq Workers
    /\ grants \in [Grants -> Grant]
    /\ queued \in BOOLEAN /\ cancel \in BOOLEAN
    /\ leases \in Seq(Lease)
    /\ req \in [Requests -> Request]
    /\ pc \in [Requests -> Steps]
    /\ delivered \in [Grants -> Nat]

\* Two workers never hold the attempt at once, although a poll decides on a fold
\* and on a clock that are old by the time it opens its lease.
OneActiveLease ==
    \A i, j \in DOMAIN leases :
        Active(leases[i], clock) /\ Active(leases[j], clock) => i = j

\* However often a poll is repeated, raced or cut off between its appends, at
\* most one answer per lease tells a worker to execute (resumed = false).
DeliveredOnce == \A g \in Grants : delivered[g] <= 1

\* A spent grant has a claimed lease behind it: the fold admits consumption of
\* an unclaimed lease, the order of the appends in every path rules it out.
ConsumedIsClaimed ==
    \A g \in Grants :
        grants[g].consumed => \E i \in LeasesOf(g) : leases[i].claimed

\* Once an expiry is recorded no request that read the lease before, however
\* late it appends, turns the lease into a result; nor is any result replaced.
TerminalLeaseFrozen ==
    [][\A i \in DOMAIN leases :
          leases[i].status \in TerminalLease => leases'[i] = leases[i]]_vars

-----------------------------------------------------------------------------
(* What the protocol document says of this plane and the code does not do. *)

\* "After a cancel request, poll MUST NOT open a new lease."
NoLeaseAfterCancel == [][cancel => Len(leases') = Len(leases)]_vars

\* "After revoke [...] a new result MUST be refused."
NoResultAfterRevoke ==
    [][\A i \in DOMAIN leases :
          leases'[i].status = "completed" /\ leases[i].status # "completed" =>
              grants[leases[i].grant].status = "live"]_vars

=============================================================================
