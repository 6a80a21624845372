------------------------- MODULE WorkerPlaneProofs -------------------------
(***************************************************************************)
(* Proofs about WorkerPlane for any workers, grants, requests, clock bound *)
(* and lease time.                                                         *)
(***************************************************************************)
EXTENDS WorkerPlane, SequenceTheorems, WellFoundedInduction, TLAPS

-----------------------------------------------------------------------------
(* The inductive invariant.                                                *)

\* A grant has at most one lease: work.leased is admitted only without one.
OneLeasePerGrant ==
    \A i, j \in DOMAIN leases : leases[i].grant = leases[j].grant => i = j

\* The clock a request sampled is never ahead of the clock.
SampledClock == \A r \in Requests : req[r].now <= clock

\* The steps that read the grant, or the lease, of a request have one.
WithLease == {"claim", "consume", "deliver", "expireOwn", "expireStale"}

RequestBound ==
    \A r \in Requests :
        /\ pc[r] # "idle" => req[r].grant \in Grants
        /\ pc[r] \in WithLease => req[r].lease \in Grants

Claimed(g) == \E i \in DOMAIN leases : leases[i].grant = g /\ leases[i].claimed

\* A request past the second append works on a lease that is claimed.
Past == {"consume", "deliver"}

PastIsClaimed == \A r \in Requests : pc[r] \in Past => Claimed(req[r].lease)

\* The request that will answer with resumed = false.
Deliverer(r) == pc[r] \in Past /\ ~req[r].resumed

\* Work handed out has a claimed lease; whoever is about to hand it out is the
\* only one and finds that nobody did.
DeliveryOpen ==
    /\ \A g \in Grants : delivered[g] > 0 => Claimed(g)
    /\ \A r \in Requests : Deliverer(r) => delivered[req[r].lease] = 0
    /\ \A r, s \in Requests :
           Deliverer(r) /\ Deliverer(s) /\ req[r].lease = req[s].lease => r = s

\* What every step keeps.
PlaneInv ==
    /\ TypeOK /\ OneLeasePerGrant /\ SampledClock /\ RequestBound
    /\ OneActiveLease /\ PastIsClaimed /\ DeliveryOpen
    /\ DeliveredOnce /\ ConsumedIsClaimed

-----------------------------------------------------------------------------
(* The last lease of a worker.                                             *)

\* A set of naturals that is not empty has a least element.
LEMMA LeastNatural ==
    ASSUME NEW T \in SUBSET Nat, T # {}
    PROVE  \E x \in T : \A y \in T : x <= y
  <1> DEFINE R == OpToRel(<, Nat)
  <1>1. IsWellFoundedOn(R, Nat)
    BY NatLessThanWellFounded
  <1>2. \A x, y \in Nat : y < x => <<y, x>> \in R
    BY DEF OpToRel
  <1> HIDE DEF R
  <1>3. PICK x \in T : \A y \in T : ~ (<<y, x>> \in R)
    BY <1>1, WFMin
  <1>4. \A y \in T : ~ (y < x)
    BY <1>2, <1>3
  <1>5. \A y \in T : x <= y
    BY <1>4
  <1> QED BY <1>5

\* The last of a set of positions is one of them.
LEMMA LastOfMember ==
    ASSUME NEW n \in Nat, NEW S \in SUBSET (1 .. n), S # {}
    PROVE  LastOf(S) \in S
  <1> DEFINE T == {n - i : i \in S}
  <1>1. \A i \in S : n - i \in Nat
    OBVIOUS
  <1>2. T \in SUBSET Nat /\ T # {}
    BY <1>1, Zenon
  <1>3. PICK x \in T : \A y \in T : x <= y
    BY <1>2, LeastNatural
  <1>4. PICK i \in S : x = n - i
    OBVIOUS
  <1>5. \A j \in S : j <= i
    <2> TAKE j \in S
    <2>1. n - j \in T
      OBVIOUS
    <2>2. n - i <= n - j
      BY <1>3, <1>4, <2>1
    <2> QED BY <2>2
  <1> QED BY <1>5 DEF LastOf

\* The lease poll resumes is a recorded one.
LEMMA LastOfWorker ==
    ASSUME TypeOK, NEW w, LeasesOfWorker(w) # {}
    PROVE  LastOf(LeasesOfWorker(w)) \in DOMAIN leases
  <1>1. DOMAIN leases = 1 .. Len(leases) /\ Len(leases) \in Nat
    BY DEF TypeOK
  <1>2. LeasesOfWorker(w) \in SUBSET (1 .. Len(leases))
    BY <1>1 DEF LeasesOfWorker
  <1>3. LastOf(LeasesOfWorker(w)) \in LeasesOfWorker(w)
    BY <1>1, <1>2, LastOfMember
  <1> QED BY <1>3 DEF LeasesOfWorker

-----------------------------------------------------------------------------
(* What the appends do to the leases.                                      *)

\* A lease record keeps its grant and its time; one that has an outcome is
\* frozen; a claim is never taken back.
LeaseKept(old, new) ==
    /\ new.grant = old.grant /\ new.expires = old.expires
    /\ old.claimed => new.claimed
    /\ old.status \in TerminalLease => new = old

\* A lease that is added is the only one of its grant, and nobody is active.
LeaseAdded ==
    /\ leases' \in Seq(Lease) /\ Len(leases') = Len(leases) + 1
    /\ \A i \in DOMAIN leases : leases'[i] = leases[i]
    /\ \A i \in DOMAIN leases : leases[i].grant # leases'[Len(leases) + 1].grant
    /\ \A i \in DOMAIN leases : ~Active(leases[i], clock)

LeasesUpdated ==
    /\ leases' \in Seq(Lease) /\ Len(leases') = Len(leases)
    /\ \A i \in DOMAIN leases : LeaseKept(leases[i], leases'[i])

\* A record per position is again a sequence of records.
LEMMA Rewritten ==
    ASSUME NEW n \in Nat, NEW S, NEW f \in [1 .. n -> S]
    PROVE  f \in Seq(S) /\ Len(f) = n /\ DOMAIN f = 1 .. n
  BY IsASeq, LenProperties

\* Settling an unsettled lease touches no other record.
LEMMA SettleFacts ==
    ASSUME TypeOK, OneLeasePerGrant, NEW g \in Grants, NEW status \in TerminalLease,
           NEW outcome \in Results \union Reasons \union {None},
           CanSettle(g), Settle(g, status, outcome)
    PROVE  /\ LeasesUpdated
           /\ \A i \in DOMAIN leases : leases'[i].claimed = leases[i].claimed
  <1>1. /\ leases \in Seq(Lease) /\ Len(leases) \in Nat /\ DOMAIN leases = 1 .. Len(leases)
        /\ \A i \in DOMAIN leases : leases[i] \in Lease
    BY DEF TypeOK
  <1>2. \A i \in DOMAIN leases : leases[i].grant = g => leases[i].status \notin TerminalLease
    BY DEF CanSettle, LeasesOf, OneLeasePerGrant
  <1>3. leases' \in [1 .. Len(leases) -> Lease]
    <2>1. \A lease \in Lease : [lease EXCEPT !.status = status, !.outcome = outcome] \in Lease
      BY DEF Lease
    <2> QED BY <1>1, <2>1 DEF Settle
  <1>4. leases' \in Seq(Lease) /\ Len(leases') = Len(leases)
    BY <1>1, <1>3, Rewritten
  <1>5. \A i \in DOMAIN leases : LeaseKept(leases[i], leases'[i])
                                 /\ leases'[i].claimed = leases[i].claimed
    BY <1>1, <1>2 DEF Settle, LeaseKept, Lease
  <1> QED BY <1>4, <1>5 DEF LeasesUpdated

\* So does claiming one, and the claimed lease is then claimed.
LEMMA ClaimFacts ==
    ASSUME TypeOK, OneLeasePerGrant, NEW r \in Requests, req[r].lease \in Grants,
           ClaimLease(r)
    PROVE  /\ LeasesUpdated
           /\ ~Claimed(req[r].lease) /\ Claimed(req[r].lease)'
  <1> DEFINE g == req[r].lease
  <1>1. /\ leases \in Seq(Lease) /\ Len(leases) \in Nat /\ DOMAIN leases = 1 .. Len(leases)
        /\ \A i \in DOMAIN leases : leases[i] \in Lease
    BY DEF TypeOK
  <1>2. leases' = [i \in DOMAIN leases |->
                     IF leases[i].grant = g
                     THEN [leases[i] EXCEPT !.claimed = TRUE] ELSE leases[i]]
        /\ req' = req
    BY DEF ClaimLease
  <1>3. PICK k \in DOMAIN leases :
            leases[k].grant = g /\ leases[k].status \notin TerminalLease /\ ~leases[k].claimed
    BY DEF ClaimLease, CanClaim, LeasesOf
  <1>4. \A i \in DOMAIN leases : leases[i].grant = g => i = k
    BY <1>3 DEF OneLeasePerGrant
  <1>5. leases' \in [1 .. Len(leases) -> Lease]
    BY <1>1, <1>2 DEF Lease
  <1>6. leases' \in Seq(Lease) /\ Len(leases') = Len(leases) /\ DOMAIN leases' = DOMAIN leases
    BY <1>1, <1>5, Rewritten
  <1>7. \A i \in DOMAIN leases : LeaseKept(leases[i], leases'[i])
    BY <1>1, <1>2, <1>3, <1>4 DEF LeaseKept, Lease
  <1>8. ~Claimed(g)
    BY <1>3, <1>4 DEF Claimed
  <1>9. leases'[k].grant = g /\ leases'[k].claimed
    BY <1>1, <1>2, <1>3 DEF Lease
  <1>10. Claimed(req[r].lease)'
    BY <1>2, <1>3, <1>6, <1>9 DEF Claimed
  <1> QED BY <1>6, <1>7, <1>8, <1>10 DEF LeasesUpdated

\* A poll that decided long ago still adds its lease only when no lease is
\* active now: the fold refuses it at the poll's own, earlier, time.
LEMMA OpenFacts ==
    ASSUME TypeOK, SampledClock, NEW r \in Requests, req[r].grant \in Grants, OpenLease(r)
    PROVE  LeaseAdded
  <1> DEFINE new == [grant |-> req[r].grant, expires |-> req[r].now + LeaseSeconds,
                     claimed |-> FALSE, status |-> "leased", outcome |-> None]
  <1>1. /\ leases \in Seq(Lease) /\ Len(leases) \in Nat /\ DOMAIN leases = 1 .. Len(leases)
        /\ \A i \in DOMAIN leases : leases[i] \in Lease
    BY DEF TypeOK
  <1>2. req[r].now \in Nat /\ clock \in Nat /\ req[r].now <= clock /\ LeaseSeconds \in Nat
    BY PlaneAssumption DEF TypeOK, Request, SampledClock
  <1>3. leases' = Append(leases, new) /\ CanLease(req[r].grant, req[r].now)
    BY DEF OpenLease
  <1>4. new \in Lease
    BY <1>2 DEF Lease
  <1>5. new.grant = req[r].grant
    OBVIOUS
  <1> HIDE DEF new
  <1>6. /\ leases' \in Seq(Lease) /\ Len(leases') = Len(leases) + 1
        /\ \A i \in DOMAIN leases : leases'[i] = leases[i]
        /\ leases'[Len(leases) + 1] = new
    BY <1>1, <1>3, <1>4
  <1>7. \A i \in DOMAIN leases : leases[i].grant # req[r].grant
    BY <1>3 DEF CanLease, LeasesOf
  <1>8. \A i \in DOMAIN leases : ~Active(leases[i], clock)
    <2> SUFFICES ASSUME NEW i \in DOMAIN leases, Active(leases[i], clock) PROVE FALSE
      OBVIOUS
    <2>1. leases[i].expires \in Nat
      BY <1>1 DEF Lease
    <2>2. Active(leases[i], req[r].now)
      BY <1>2, <2>1 DEF Active
    <2> QED BY <1>3, <2>2 DEF CanLease, AnyActive
  <1> QED BY <1>5, <1>6, <1>7, <1>8 DEF LeaseAdded

-----------------------------------------------------------------------------
(* Types.                                                                  *)

\* Moving a request to another step keeps pc typed.
LEMMA GotoType ==
    ASSUME TypeOK, NEW r \in Requests, NEW step \in Steps, Goto(r, step)
    PROVE  pc' \in [Requests -> Steps]
  BY DEF TypeOK, Goto

\* A request that ends is typed.
LEMMA ReturnType ==
    ASSUME TypeOK, NEW r \in Requests, Return(r)
    PROVE  pc' \in [Requests -> Steps] /\ req' \in [Requests -> Request]
  <1>1. NoRequest \in Request /\ "idle" \in Steps
    BY DEF NoRequest, Request, Steps
  <1> QED BY <1>1 DEF TypeOK, Return, Goto

\* What poll does with a lease it may resume is one of the steps.
LEMMA ResumeStepType ==
    ASSUME NEW lease, NEW g, NEW now
    PROVE  ResumeStep(lease, g, now) \in {"idle", "expireOwn", "claim", "consume", "deliver"}
  BY DEF ResumeStep

\* The grant of a lease poll ends is a grant, if there is one.
LEMMA StaleGrantType ==
    ASSUME TypeOK, NEW now
    PROVE  StaleGrant(now) \in Grants \union {None}
  <1>1. leases # << >> => leases[Len(leases)] \in Lease
    BY DEF TypeOK
  <1> QED BY <1>1 DEF StaleGrant, Lease

\* What a request remembers of a lease it resumes is typed.
LEMMA ResumeType ==
    ASSUME req \in [Requests -> Request], NEW r \in Requests,
           NEW g \in Grants \union {None}, NEW a \in BOOLEAN, NEW b \in BOOLEAN
    PROVE  [req EXCEPT ![r].lease = g, ![r].resumed = a, ![r].consumed = b]
               \in [Requests -> Request]
  <1>1. [req[r] EXCEPT !.lease = g, !.resumed = a, !.consumed = b] \in Request
    BY DEF Request
  <1>2. [req EXCEPT ![r].lease = g, ![r].resumed = a, ![r].consumed = b]
            = [req EXCEPT ![r] = [req[r] EXCEPT !.lease = g, !.resumed = a, !.consumed = b]]
    OBVIOUS
  <1> QED BY <1>1, <1>2

\* What a request remembers of the grant it is for is typed.
LEMMA ArriveType ==
    ASSUME req \in [Requests -> Request], NEW r \in Requests, NEW g \in Grants
    PROVE  /\ \A now \in Nat : [req EXCEPT ![r].grant = g, ![r].now = now]
                                  \in [Requests -> Request]
           /\ \A o \in Results \union Reasons \union {None} :
                  [req EXCEPT ![r].grant = g, ![r].outcome = o] \in [Requests -> Request]
  <1>1. \A now \in Nat : [req[r] EXCEPT !.grant = g, !.now = now] \in Request
    BY DEF Request
  <1>2. \A o \in Results \union Reasons \union {None} :
           [req[r] EXCEPT !.grant = g, !.outcome = o] \in Request
    BY DEF Request
  <1>3. \A now : [req EXCEPT ![r].grant = g, ![r].now = now]
                    = [req EXCEPT ![r] = [req[r] EXCEPT !.grant = g, !.now = now]]
    OBVIOUS
  <1>4. \A o : [req EXCEPT ![r].grant = g, ![r].outcome = o]
                  = [req EXCEPT ![r] = [req[r] EXCEPT !.grant = g, !.outcome = o]]
    OBVIOUS
  <1> QED BY <1>1, <1>2, <1>3, <1>4

\* The record poll resumes from is a lease of the log.
LEMMA ResumedLease ==
    ASSUME TypeOK, NEW r \in Requests, PollResume(r)
    PROVE  \E i \in DOMAIN leases :
              LET lease == leases[i] g == req[r].grant
              IN  /\ lease \in Lease
                  /\ \E known \in BOOLEAN :
                         req' = [req EXCEPT ![r].lease = lease.grant,
                                            ![r].resumed = lease.claimed \/ known,
                                            ![r].consumed = grants[g].consumed]
                  /\ Goto(r, ResumeStep(lease, g, req[r].now))
  <1> DEFINE k == LastOf(LeasesOfWorker(GrantWorker[req[r].grant]))
  <1>1. k \in DOMAIN leases
    BY LastOfWorker DEF PollResume
  <1>2. leases[k] \in Lease
    BY <1>1 DEF TypeOK
  <1> QED BY <1>1, <1>2 DEF PollResume

\* Every action keeps the type invariant.
LEMMA TypeStep ==
    ASSUME TypeOK, OneLeasePerGrant, SampledClock, RequestBound, [Next]_vars
    PROVE  TypeOK'
  <1>1. /\ clock \in Nat /\ MaxTime \in Nat /\ grants \in [Grants -> Grant]
        /\ req \in [Requests -> Request] /\ pc \in [Requests -> Steps]
    BY PlaneAssumption DEF TypeOK
  <1>2. ASSUME NEW r \in Requests, RequestStep(r) PROVE TypeOK'
    <2>0. req[r] \in Request
      BY <1>1
    <2>1. ASSUME NEW g \in Grants, PollArrive(r, g) PROVE TypeOK'
      <3>1. req' \in [Requests -> Request]
        BY <1>1, <2>1, ArriveType DEF PollArrive
      <3> QED BY <2>1, <3>1, GotoType DEF PollArrive, TypeOK, facts, Steps
    <2>2. ASSUME NEW g \in Grants, NEW step \in Steps, NEW done,
                 NEW outcome \in Results \union Reasons, ResultRead(r, g, step, outcome, done)
          PROVE  TypeOK'
      <3>1. req' \in [Requests -> Request]
        BY <1>1, <2>2, ArriveType DEF ResultRead
      <3> QED BY <2>2, <3>1, GotoType DEF ResultRead, TypeOK, facts
    <2>3. ASSUME NEW g \in Grants, CompleteRead(r, g) \/ FailRead(r, g) PROVE TypeOK'
      BY <2>2, <2>3 DEF CompleteRead, FailRead, Steps
    <2>4. ASSUME NEW g \in Grants, ObservedRead(r, g) PROVE TypeOK'
      <3>0. "cancel-observed" \in Results \union Reasons \union {None}
        BY PlaneAssumption
      <3>1. req' \in [Requests -> Request]
        BY <1>1, <2>4, <3>0, ArriveType DEF ObservedRead
      <3> QED BY <2>4, <3>1, GotoType DEF ObservedRead, TypeOK, facts, Steps
    <2>5. CASE PollResume(r)
      <3>1. req[r].grant \in Grants
        BY <2>5 DEF PollResume, RequestBound
      <3>2. grants[req[r].grant].consumed \in BOOLEAN
        BY <1>1, <3>1 DEF Grant
      <3>3. PICK i \in DOMAIN leases :
              /\ leases[i] \in Lease
              /\ \E known \in BOOLEAN :
                    req' = [req EXCEPT ![r].lease = leases[i].grant,
                                       ![r].resumed = leases[i].claimed \/ known,
                                       ![r].consumed = grants[req[r].grant].consumed]
              /\ Goto(r, ResumeStep(leases[i], req[r].grant, req[r].now))
        BY <2>5, ResumedLease, Zenon
      <3>4. req' \in [Requests -> Request]
        <4>1. leases[i].grant \in Grants \union {None} /\ leases[i].claimed \in BOOLEAN
          BY <3>3 DEF Lease
        <4>2. PICK known \in BOOLEAN :
                 req' = [req EXCEPT ![r].lease = leases[i].grant,
                                    ![r].resumed = leases[i].claimed \/ known,
                                    ![r].consumed = grants[req[r].grant].consumed]
          BY <3>3
        <4> QED BY <1>1, <3>2, <4>1, <4>2, ResumeType
      <3>5. pc' \in [Requests -> Steps]
        BY <3>3, GotoType, ResumeStepType DEF Steps
      <3> QED BY <2>5, <3>4, <3>5 DEF PollResume, TypeOK, facts
    <2>6. CASE PollFresh(r)
      <3>1. StaleGrant(req[r].now) \in Grants \union {None}
        BY StaleGrantType
      <3>2. req' \in [Requests -> Request]
        BY <1>1, <2>6, <3>1 DEF PollFresh, Request
      <3> QED BY <2>6, <3>2, GotoType DEF PollFresh, TypeOK, facts, Steps
    <2>7. CASE CheckCancel(r)
      BY <2>7, GotoType DEF CheckCancel, TypeOK, facts, Steps
    <2>8. CASE ExpireLease(r)
      <3>1. req[r].lease \in Grants
        BY <2>8 DEF ExpireLease, RequestBound, WithLease
      <3>2. LeasesUpdated
        BY <2>8, <3>1, SettleFacts DEF ExpireLease, TerminalLease
      <3>3. pc' \in [Requests -> Steps] /\ req' \in [Requests -> Request]
        BY <1>1, <2>8, GotoType, ReturnType DEF ExpireLease, Steps
      <3> QED BY <2>8, <3>2, <3>3 DEF ExpireLease, TypeOK, LeasesUpdated
    <2>9. CASE OpenLease(r)
      <3>1. req[r].grant \in Grants
        BY <2>9 DEF OpenLease, RequestBound
      <3>2. LeaseAdded
        BY <2>9, <3>1, OpenFacts
      <3>3. req' \in [Requests -> Request]
        BY <1>1, <2>9, <3>1 DEF OpenLease, Request
      <3> QED BY <2>9, <3>2, <3>3, GotoType DEF OpenLease, TypeOK, LeaseAdded, Steps
    <2>10. CASE ClaimLease(r)
      <3>1. req[r].lease \in Grants
        BY <2>10 DEF ClaimLease, RequestBound, WithLease
      <3>2. LeasesUpdated
        BY <2>10, <3>1, ClaimFacts
      <3> QED BY <2>10, <3>2, GotoType DEF ClaimLease, TypeOK, LeasesUpdated, Steps
    <2>11. CASE ConsumeGrant(r)
      <3>1. grants' \in [Grants -> Grant]
        BY <1>1, <2>11 DEF ConsumeGrant, Grant
      <3> QED BY <2>11, <3>1, GotoType DEF ConsumeGrant, TypeOK, Steps
    <2>12. CASE Deliver(r)
      <3>1. delivered' \in [Grants -> Nat]
        <4>1. /\ delivered \in [Grants -> Nat]
              /\ \/ delivered' = [delivered EXCEPT ![req[r].lease] = @ + 0]
                 \/ delivered' = [delivered EXCEPT ![req[r].lease] = @ + 1]
          BY <2>12 DEF Deliver, TypeOK
        <4> QED BY <4>1
      <3> QED BY <2>12, <3>1, ReturnType DEF Deliver, TypeOK, facts
    <2>13. CASE Complete(r)
      <3>1. req[r].grant \in Grants /\ req[r].outcome \in Results \union Reasons \union {None}
        BY <2>0, <2>13 DEF Complete, RequestBound, Request
      <3>2. LeasesUpdated
        BY <2>13, <3>1, SettleFacts DEF Complete, CanComplete, TerminalLease
      <3> QED BY <2>13, <3>2, ReturnType DEF Complete, TypeOK, LeasesUpdated
    <2>14. CASE Fail(r)
      <3>1. req[r].grant \in Grants /\ req[r].outcome \in Results \union Reasons \union {None}
        BY <2>0, <2>14 DEF Fail, RequestBound, Request
      <3>2. LeasesUpdated
        BY <2>14, <3>1, SettleFacts DEF Fail, TerminalLease
      <3> QED BY <2>14, <3>2, ReturnType DEF Fail, TypeOK, LeasesUpdated
    <2>15. CASE Abort(r)
      BY <2>15, ReturnType DEF Abort, TypeOK, facts
    <2> QED BY <1>2, <2>1, <2>3, <2>4, <2>5, <2>6, <2>7, <2>8, <2>9, <2>10, <2>11, <2>12,
               <2>13, <2>14, <2>15 DEF RequestStep
  <1>3. ASSUME NEW w \in Workers, Register(w) PROVE TypeOK'
    BY <1>3 DEF Register, TypeOK
  <1>4. ASSUME NEW g \in Grants, RecordGrant(g) \/ RevokeGrant(g) PROVE TypeOK'
    <2>1. grants' \in [Grants -> Grant]
      BY <1>1, <1>4 DEF RecordGrant, RevokeGrant, Grant
    <2> QED BY <1>4, <2>1 DEF RecordGrant, RevokeGrant, TypeOK
  <1>5. CASE Enqueue \/ RequestCancel
    BY <1>5 DEF Enqueue, RequestCancel, TypeOK
  <1>6. CASE Tick
    BY <1>1, <1>6 DEF Tick, TypeOK, facts
  <1>7. CASE UNCHANGED vars
    BY <1>7 DEF vars, facts, TypeOK
  <1> QED BY <1>2, <1>3, <1>4, <1>5, <1>6, <1>7 DEF Next

-----------------------------------------------------------------------------
(* The leases.                                                             *)

\* Every step leaves the leases alone, rewrites one or adds one.
LEMMA LeaseStep ==
    ASSUME TypeOK, OneLeasePerGrant, SampledClock, RequestBound, [Next]_vars
    PROVE  \/ UNCHANGED leases
           \/ LeasesUpdated /\ UNCHANGED clock
           \/ LeaseAdded /\ UNCHANGED clock
  <1>1. ASSUME NEW r \in Requests, ExpireLease(r) \/ Complete(r) \/ Fail(r)
        PROVE  LeasesUpdated /\ UNCHANGED clock
    <2>1. req[r] \in Request
      BY DEF TypeOK
    <2>2. req[r].outcome \in Results \union Reasons \union {None}
      BY <2>1 DEF Request
    <2>3. CASE ExpireLease(r)
      <3>1. req[r].lease \in Grants
        BY <2>3 DEF ExpireLease, RequestBound, WithLease
      <3> QED BY <2>3, <3>1, SettleFacts DEF ExpireLease, TerminalLease
    <2>4. CASE Complete(r)
      <3>1. req[r].grant \in Grants
        BY <2>4 DEF Complete, RequestBound
      <3> QED BY <2>2, <2>4, <3>1, SettleFacts DEF Complete, CanComplete, TerminalLease
    <2>5. CASE Fail(r)
      <3>1. req[r].grant \in Grants
        BY <2>5 DEF Fail, RequestBound
      <3> QED BY <2>2, <2>5, <3>1, SettleFacts DEF Fail, TerminalLease
    <2> QED BY <1>1, <2>3, <2>4, <2>5
  <1>2. ASSUME NEW r \in Requests, ClaimLease(r) PROVE LeasesUpdated /\ UNCHANGED clock
    <2>1. req[r].lease \in Grants
      BY <1>2 DEF ClaimLease, RequestBound, WithLease
    <2> QED BY <1>2, <2>1, ClaimFacts DEF ClaimLease
  <1>3. ASSUME NEW r \in Requests, OpenLease(r) PROVE LeaseAdded /\ UNCHANGED clock
    <2>1. req[r].grant \in Grants
      BY <1>3 DEF OpenLease, RequestBound
    <2> QED BY <1>3, <2>1, OpenFacts DEF OpenLease
  <1>4. ASSUME NEW r \in Requests, RequestStep(r),
               ~ExpireLease(r), ~Complete(r), ~Fail(r), ~ClaimLease(r), ~OpenLease(r)
        PROVE  UNCHANGED leases
    BY <1>4 DEF RequestStep, PollArrive, CompleteRead, FailRead, ResultRead, ObservedRead,
                PollResume, PollFresh, CheckCancel, ConsumeGrant, Deliver, Abort, facts
  <1>5. ASSUME NEW r \in Requests, RequestStep(r)
        PROVE  \/ UNCHANGED leases
               \/ LeasesUpdated /\ UNCHANGED clock
               \/ LeaseAdded /\ UNCHANGED clock
    BY <1>1, <1>2, <1>3, <1>4, <1>5
  <1>6. (\E r \in Requests : RequestStep(r)) \/ UNCHANGED leases
    BY DEF Next, vars, facts, Register, RecordGrant, RevokeGrant, Enqueue, RequestCancel, Tick
  <1> QED BY <1>5, <1>6

\* A grant never gets a second lease.
LEMMA OneLeasePerGrantStep ==
    ASSUME TypeOK, OneLeasePerGrant, SampledClock, RequestBound, [Next]_vars
    PROVE  OneLeasePerGrant'
  <1>1. leases \in Seq(Lease) /\ Len(leases) \in Nat /\ DOMAIN leases = 1 .. Len(leases)
    BY DEF TypeOK
  <1>2. CASE UNCHANGED leases
    BY <1>2 DEF OneLeasePerGrant
  <1>3. CASE LeasesUpdated
    <2>1. DOMAIN leases' = DOMAIN leases
      BY <1>1, <1>3 DEF LeasesUpdated
    <2> QED BY <1>3, <2>1 DEF LeasesUpdated, LeaseKept, OneLeasePerGrant
  <1>4. CASE LeaseAdded
    <2>1. DOMAIN leases' = DOMAIN leases \union {Len(leases) + 1}
      BY <1>1, <1>4 DEF LeaseAdded
    <2> QED BY <1>4, <2>1 DEF LeaseAdded, OneLeasePerGrant
  <1> QED BY <1>2, <1>3, <1>4, LeaseStep

\* The clock never goes back, and only Tick moves it.
LEMMA ClockStep ==
    ASSUME TypeOK, [Next]_vars
    PROVE  clock \in Nat /\ clock' \in Nat /\ clock <= clock'
  <1>1. clock \in Nat
    BY PlaneAssumption DEF TypeOK
  <1>2. ASSUME NEW r \in Requests, RequestStep(r) PROVE clock' = clock
    BY <1>2 DEF RequestStep, PollArrive, CompleteRead, FailRead, ResultRead, ObservedRead,
                PollResume, PollFresh, CheckCancel, ConsumeGrant, Deliver, Abort,
                ExpireLease, Complete, Fail, ClaimLease, OpenLease
  <1>3. CASE Tick
    BY <1>1, <1>3 DEF Tick
  <1>4. Tick \/ clock' = clock
    BY <1>2 DEF Next, vars, Register, RecordGrant, RevokeGrant, Enqueue, RequestCancel
  <1> QED BY <1>1, <1>3, <1>4

\* The clock of a lease only runs: a step makes no old lease active.
LEMMA OneActiveLeaseStep ==
    ASSUME TypeOK, OneLeasePerGrant, SampledClock, RequestBound, OneActiveLease, [Next]_vars
    PROVE  OneActiveLease'
  <1>0. /\ leases \in Seq(Lease) /\ Len(leases) \in Nat /\ DOMAIN leases = 1 .. Len(leases)
        /\ \A i \in DOMAIN leases : leases[i] \in Lease
    BY DEF TypeOK
  <1>1. /\ Len(leases) \in Nat /\ DOMAIN leases = 1 .. Len(leases)
        /\ \A i \in DOMAIN leases : leases[i].expires \in Nat
        /\ clock \in Nat
    BY <1>0, ClockStep DEF Lease
  <1>2. CASE UNCHANGED leases
    <2>1. clock' \in Nat /\ clock <= clock'
      BY ClockStep
    <2>2. \A i \in DOMAIN leases : Active(leases[i], clock') => Active(leases[i], clock)
      BY <1>1, <2>1 DEF Active
    <2> QED BY <1>2, <2>2 DEF OneActiveLease
  <1>3. CASE LeasesUpdated /\ UNCHANGED clock
    <2>1. DOMAIN leases' = DOMAIN leases
      BY <1>1, <1>3 DEF LeasesUpdated
    <2>2. \A i \in DOMAIN leases : Active(leases'[i], clock) => Active(leases[i], clock)
      BY <1>3 DEF LeasesUpdated, LeaseKept, Active
    <2> QED BY <1>3, <2>1, <2>2 DEF OneActiveLease
  <1>4. CASE LeaseAdded /\ UNCHANGED clock
    <2>1. DOMAIN leases' = DOMAIN leases \union {Len(leases) + 1}
      BY <1>1, <1>4 DEF LeaseAdded
    <2>2. \A i \in DOMAIN leases : ~Active(leases'[i], clock')
      BY <1>4 DEF LeaseAdded
    <2> QED BY <2>1, <2>2 DEF OneActiveLease
  <1> QED BY <1>2, <1>3, <1>4, LeaseStep

\* What is claimed stays claimed.
LEMMA ClaimedStays ==
    ASSUME TypeOK, OneLeasePerGrant, SampledClock, RequestBound, [Next]_vars,
           NEW g, Claimed(g)
    PROVE  \E i \in DOMAIN leases' : leases'[i].grant = g /\ leases'[i].claimed
  <1>1. leases \in Seq(Lease) /\ Len(leases) \in Nat /\ DOMAIN leases = 1 .. Len(leases)
    BY DEF TypeOK
  <1>2. PICK i \in DOMAIN leases : leases[i].grant = g /\ leases[i].claimed
    BY DEF Claimed
  <1>3. CASE UNCHANGED leases
    BY <1>2, <1>3
  <1>4. CASE LeasesUpdated
    <2>1. DOMAIN leases' = DOMAIN leases
      BY <1>1, <1>4 DEF LeasesUpdated
    <2> QED BY <1>2, <1>4, <2>1 DEF LeasesUpdated, LeaseKept
  <1>5. CASE LeaseAdded
    <2>1. i \in DOMAIN leases'
      BY <1>1, <1>2, <1>5 DEF LeaseAdded
    <2> QED BY <1>2, <1>5, <2>1 DEF LeaseAdded
  <1> QED BY <1>3, <1>4, <1>5, LeaseStep

-----------------------------------------------------------------------------
(* The requests.                                                           *)

\* What one step of request r does to the requests.
Moved(r) ==
    /\ \A s \in Requests \ {r} : pc'[s] = pc[s] /\ req'[s] = req[s]
    /\ req'[r].now \in {req[r].now, clock, 0}
    /\ pc'[r] # "idle" => req'[r].grant \in Grants
    /\ pc'[r] \in WithLease => req'[r].lease \in Grants
    /\ \/ pc'[r] \notin Past
       \/ Claimed(req'[r].lease) /\ req'[r].resumed
       \/ pc[r] \in Past /\ req'[r] = req[r]
       \/ ClaimLease(r) /\ req'[r] = req[r]

\* A request that ends is an idle one.
LEMMA ReturnMoved ==
    ASSUME TypeOK, NEW r \in Requests, Return(r)
    PROVE  Moved(r)
  <1>1. req \in [Requests -> Request] /\ pc \in [Requests -> Steps]
    BY DEF TypeOK
  <1>2. pc'[r] = "idle" /\ req'[r] = NoRequest
        /\ \A s \in Requests \ {r} : pc'[s] = pc[s] /\ req'[s] = req[s]
    BY <1>1 DEF Return, Goto
  <1> QED BY <1>2 DEF Moved, NoRequest, WithLease, Past

\* Every request step is such a move.
LEMMA RequestMoved ==
    ASSUME TypeOK, RequestBound, NEW r \in Requests, RequestStep(r)
    PROVE  Moved(r)
  <1>1. req \in [Requests -> Request] /\ pc \in [Requests -> Steps] /\ req[r] \in Request
    BY DEF TypeOK
  <1>2. ASSUME NEW g \in Grants, PollArrive(r, g) PROVE Moved(r)
    BY <1>1, <1>2 DEF PollArrive, Goto, Moved, WithLease, Past, Request
  <1>3. ASSUME NEW g \in Grants, NEW step \in {"complete", "fail"}, NEW outcome, NEW done,
               ResultRead(r, g, step, outcome, done)
        PROVE  Moved(r)
    BY <1>1, <1>3 DEF ResultRead, Goto, Moved, WithLease, Past, Request
  <1>4. ASSUME NEW g \in Grants, CompleteRead(r, g) \/ FailRead(r, g) PROVE Moved(r)
    BY <1>3, <1>4 DEF CompleteRead, FailRead
  <1>5. ASSUME NEW g \in Grants, ObservedRead(r, g) PROVE Moved(r)
    BY <1>1, <1>5 DEF ObservedRead, Goto, Moved, WithLease, Past, Request
  <1>6. CASE PollResume(r)
    <2>1. req[r].grant \in Grants
      BY <1>6 DEF PollResume, RequestBound
    <2>2. PICK i \in DOMAIN leases :
            /\ leases[i] \in Lease
            /\ \E known \in BOOLEAN :
                  req' = [req EXCEPT ![r].lease = leases[i].grant,
                                     ![r].resumed = leases[i].claimed \/ known,
                                     ![r].consumed = grants[req[r].grant].consumed]
            /\ Goto(r, ResumeStep(leases[i], req[r].grant, req[r].now))
      BY <1>6, ResumedLease, Zenon
    <2>3. PICK known \in BOOLEAN :
             req' = [req EXCEPT ![r].lease = leases[i].grant,
                                ![r].resumed = leases[i].claimed \/ known,
                                ![r].consumed = grants[req[r].grant].consumed]
      BY <2>2
    <2>4. /\ req'[r].lease = leases[i].grant /\ (leases[i].claimed => req'[r].resumed)
          /\ req'[r].grant = req[r].grant /\ req'[r].now = req[r].now
          /\ \A s \in Requests \ {r} : req'[s] = req[s]
      BY <1>1, <2>3 DEF Request
    <2>5. /\ pc'[r] = ResumeStep(leases[i], req[r].grant, req[r].now)
          /\ \A s \in Requests \ {r} : pc'[s] = pc[s]
      BY <1>1, <2>2 DEF Goto
    <2>6. pc'[r] \in Past => leases[i].claimed
      BY <2>5 DEF ResumeStep, Past
    <2>7. leases[i].grant \in Grants
      BY <2>2 DEF Lease
    <2>8. pc'[r] \in Past => Claimed(req'[r].lease) /\ req'[r].resumed
      BY <2>4, <2>6 DEF Claimed
    <2> QED BY <2>1, <2>4, <2>5, <2>7, <2>8 DEF Moved
  <1>7. CASE PollFresh(r)
    <2>1. req[r].grant \in Grants
      BY <1>7 DEF PollFresh, RequestBound
    <2> QED BY <1>1, <1>7, <2>1 DEF PollFresh, Goto, Moved, WithLease, Past, Request
  <1>8. CASE CheckCancel(r)
    <2>1. req[r].grant \in Grants /\ req[r].lease \in Grants \union {None}
      BY <1>1, <1>8 DEF CheckCancel, RequestBound, Request
    <2> QED BY <1>1, <1>8, <2>1 DEF CheckCancel, Goto, Moved, WithLease, Past
  <1>9. CASE ExpireLease(r)
    <2>1. CASE pc[r] = "expireStale"
      <3>1. req[r].grant \in Grants
        BY <2>1 DEF RequestBound
      <3>2. UNCHANGED req /\ Goto(r, "lease")
        BY <1>9, <2>1 DEF ExpireLease
      <3> QED BY <1>1, <3>1, <3>2 DEF Goto, Moved, WithLease, Past
    <2>2. CASE pc[r] # "expireStale"
      BY <1>9, <2>2, ReturnMoved DEF ExpireLease
    <2> QED BY <2>1, <2>2
  <1>10. CASE OpenLease(r)
    <2>1. req[r].grant \in Grants
      BY <1>10 DEF OpenLease, RequestBound
    <2> QED BY <1>1, <1>10, <2>1 DEF OpenLease, Goto, Moved, WithLease, Past, Request
  <1>11. CASE ClaimLease(r)
    <2>1. req[r].grant \in Grants /\ req[r].lease \in Grants
      BY <1>11 DEF ClaimLease, RequestBound, WithLease
    <2>2. UNCHANGED req /\ \A s \in Requests \ {r} : pc'[s] = pc[s]
      BY <1>1, <1>11 DEF ClaimLease, Goto
    <2> QED BY <1>11, <2>1, <2>2 DEF Moved
  <1>12. CASE ConsumeGrant(r)
    <2>1. req[r].grant \in Grants /\ req[r].lease \in Grants /\ pc[r] \in Past
      BY <1>12 DEF ConsumeGrant, RequestBound, WithLease, Past
    <2>2. UNCHANGED req /\ \A s \in Requests \ {r} : pc'[s] = pc[s]
      BY <1>1, <1>12 DEF ConsumeGrant, Goto
    <2> QED BY <2>1, <2>2 DEF Moved
  <1>13. CASE Deliver(r) \/ Complete(r) \/ Fail(r) \/ Abort(r)
    BY <1>13, ReturnMoved DEF Deliver, Complete, Fail, Abort
  <1> QED BY <1>2, <1>4, <1>5, <1>6, <1>7, <1>8, <1>9, <1>10, <1>11, <1>12, <1>13
          DEF RequestStep

\* The other actions leave the requests and the answers alone.
LEMMA NoRequestStep ==
    ASSUME [Next]_vars, ~ \E r \in Requests : RequestStep(r)
    PROVE  UNCHANGED <<req, pc, delivered>>
  BY DEF Next, vars, Register, RecordGrant, RevokeGrant, Enqueue, RequestCancel, Tick

\* Requests keep a clock that is not ahead, and what their next step reads.
LEMMA RequestInvStep ==
    ASSUME TypeOK, SampledClock, RequestBound, [Next]_vars
    PROVE  SampledClock' /\ RequestBound'
  <1>1. clock \in Nat /\ clock' \in Nat /\ clock <= clock'
    BY ClockStep
  <1>2. \A s \in Requests : req[s] \in Request
    BY DEF TypeOK
  <1>3. \A s \in Requests : req[s].now \in Nat
    BY <1>2 DEF Request
  <1>4. ASSUME NEW r \in Requests, Moved(r) PROVE SampledClock' /\ RequestBound'
    <2>1. SampledClock'
      BY <1>1, <1>3, <1>4 DEF SampledClock, Moved
    <2>2. RequestBound'
      BY <1>4 DEF RequestBound, Moved
    <2> QED BY <2>1, <2>2
  <1>5. CASE UNCHANGED <<req, pc, delivered>>
    <2>1. SampledClock'
      BY <1>1, <1>3, <1>5 DEF SampledClock
    <2> QED BY <1>5, <2>1 DEF RequestBound
  <1> QED BY <1>4, <1>5, RequestMoved, NoRequestStep

-----------------------------------------------------------------------------
(* Deliveries.                                                             *)

\* A request past the claim stays bound to a claimed lease.
LEMMA PastStep ==
    ASSUME TypeOK, OneLeasePerGrant, SampledClock, RequestBound, PastIsClaimed, [Next]_vars
    PROVE  PastIsClaimed'
  <1> SUFFICES ASSUME NEW s \in Requests, pc'[s] \in Past
               PROVE  \E i \in DOMAIN leases' :
                          leases'[i].grant = req'[s].lease /\ leases'[i].claimed
    BY DEF PastIsClaimed, Claimed
  <1>1. CASE pc[s] \in Past /\ req'[s] = req[s]
    BY <1>1, ClaimedStays DEF PastIsClaimed
  <1>2. CASE Claimed(req'[s].lease)
    BY <1>2, ClaimedStays
  <1>3. CASE ClaimLease(s) /\ req'[s] = req[s]
    <2>1. req[s].lease \in Grants
      BY <1>3 DEF ClaimLease, RequestBound, WithLease
    <2>2. Claimed(req[s].lease)'
      BY <1>3, <2>1, ClaimFacts
    <2> QED BY <2>2 DEF Claimed
  <1>4. CASE UNCHANGED <<req, pc, delivered>>
    BY <1>1, <1>4
  <1>5. ASSUME NEW r \in Requests, Moved(r)
        PROVE  \/ pc[s] \in Past /\ req'[s] = req[s]
               \/ Claimed(req'[s].lease)
               \/ ClaimLease(s) /\ req'[s] = req[s]
    BY <1>5 DEF Moved
  <1> QED BY <1>1, <1>2, <1>3, <1>4, <1>5, RequestMoved, NoRequestStep

\* Only Deliver counts an answer.
LEMMA DeliveredStep ==
    ASSUME [Next]_vars, ~ \E r \in Requests : Deliver(r)
    PROVE  UNCHANGED delivered
  <1>1. ASSUME NEW r \in Requests, RequestStep(r), ~Deliver(r) PROVE UNCHANGED delivered
    BY <1>1 DEF RequestStep, PollArrive, CompleteRead, FailRead, ResultRead, ObservedRead,
                PollResume, PollFresh, CheckCancel, ConsumeGrant, Abort,
                ExpireLease, Complete, Fail, ClaimLease, OpenLease
  <1> QED BY <1>1, NoRequestStep

\* Work becomes deliverable once, when its lease is claimed; handing it out ends
\* the only request that may.
LEMMA DeliveryStep ==
    ASSUME TypeOK, OneLeasePerGrant, SampledClock, RequestBound, PastIsClaimed,
           DeliveryOpen, DeliveredOnce, [Next]_vars
    PROVE  DeliveryOpen' /\ DeliveredOnce'
  <1>1. /\ delivered \in [Grants -> Nat] /\ pc \in [Requests -> Steps]
        /\ req \in [Requests -> Request] /\ \A s \in Requests : req[s] \in Request
    BY DEF TypeOK
  <1>2. \A g : Claimed(g) => Claimed(g)'
    BY ClaimedStays DEF Claimed
  <1>3. \A s \in Requests : Deliverer(s) => req[s].lease \in Grants /\ Claimed(req[s].lease)
    BY DEF Deliverer, RequestBound, PastIsClaimed, Past, WithLease
  <1>4. ASSUME UNCHANGED delivered,
               \A s \in Requests : Deliverer(s)' => Deliverer(s) /\ req'[s] = req[s]
        PROVE  DeliveryOpen' /\ DeliveredOnce'
    <2>1. \A g \in Grants : delivered'[g] > 0 => Claimed(g)'
      BY <1>2, <1>4 DEF DeliveryOpen
    <2> QED BY <1>4, <2>1 DEF DeliveryOpen, DeliveredOnce
  <1>5. ASSUME NEW r \in Requests, ClaimLease(r) PROVE DeliveryOpen' /\ DeliveredOnce'
    <2>1. req[r].lease \in Grants /\ UNCHANGED <<req, delivered>>
          /\ \A s \in Requests \ {r} : pc'[s] = pc[s]
      BY <1>1, <1>5 DEF ClaimLease, Goto, RequestBound, WithLease
    <2>2. ~Claimed(req[r].lease)
      BY <1>5, <2>1, ClaimFacts
    <2>3. delivered[req[r].lease] = 0
      BY <1>1, <2>1, <2>2 DEF DeliveryOpen
    <2>4. \A s \in Requests \ {r} : Deliverer(s)' => Deliverer(s) /\ req[s].lease # req[r].lease
      BY <1>3, <2>1, <2>2 DEF Deliverer
    <2>5. \A g \in Grants : delivered'[g] > 0 => Claimed(g)'
      BY <1>2, <2>1 DEF DeliveryOpen
    <2>6. \A s \in Requests : Deliverer(s)' => delivered'[req'[s].lease] = 0
      BY <2>1, <2>3, <2>4 DEF DeliveryOpen
    <2>7. \A s, t \in Requests :
             Deliverer(s)' /\ Deliverer(t)' /\ req'[s].lease = req'[t].lease => s = t
      BY <2>1, <2>4 DEF DeliveryOpen
    <2> QED BY <2>1, <2>5, <2>6, <2>7 DEF DeliveryOpen, DeliveredOnce
  <1>6. ASSUME NEW r \in Requests, Deliver(r) PROVE DeliveryOpen' /\ DeliveredOnce'
    <2> DEFINE g == req[r].lease
    <2>1. pc[r] = "deliver" /\ g \in Grants /\ Claimed(g)
      BY <1>6 DEF Deliver, RequestBound, PastIsClaimed, WithLease, Past
    <2>2. /\ pc'[r] = "idle" /\ \A s \in Requests \ {r} : pc'[s] = pc[s] /\ req'[s] = req[s]
          /\ UNCHANGED leases
      BY <1>1, <1>6 DEF Deliver, Return, Goto, facts
    <2>3. \A s \in Requests : Deliverer(s)' => s # r /\ Deliverer(s) /\ req'[s] = req[s]
      BY <2>2 DEF Deliverer, Past
    <2>4. CASE req[r].resumed
      <3>1. delivered' = [delivered EXCEPT ![g] = @ + 0]
        BY <1>6, <2>4 DEF Deliver
      <3>2. delivered' = delivered
        BY <1>1, <2>1, <3>1
      <3> QED BY <1>4, <2>3, <3>2
    <2>5. CASE ~req[r].resumed
      <3>1. delivered' = [delivered EXCEPT ![g] = @ + 1]
        BY <1>6, <2>5 DEF Deliver
      <3>2. Deliverer(r)
        BY <2>1, <2>5 DEF Deliverer, Past
      <3>3. delivered[g] = 0 /\ \A s \in Requests \ {r} : Deliverer(s) => req[s].lease # g
        BY <3>2 DEF DeliveryOpen
      <3>4. /\ delivered'[g] = 1
            /\ \A h \in Grants \ {g} : delivered'[h] = delivered[h]
        BY <1>1, <2>1, <3>1, <3>3
      <3>5. \A h \in Grants : delivered'[h] > 0 => Claimed(h)'
        BY <1>2, <2>1, <3>4 DEF DeliveryOpen
      <3>6. \A s \in Requests : Deliverer(s)' => delivered'[req'[s].lease] = 0
        BY <1>3, <2>3, <3>3, <3>4 DEF DeliveryOpen
      <3>7. \A s, t \in Requests :
               Deliverer(s)' /\ Deliverer(t)' /\ req'[s].lease = req'[t].lease => s = t
        BY <2>3 DEF DeliveryOpen
      <3>8. DeliveredOnce'
        BY <3>4 DEF DeliveredOnce
      <3> QED BY <3>5, <3>6, <3>7, <3>8 DEF DeliveryOpen
    <2> QED BY <2>4, <2>5
  <1>7. ASSUME NEW r \in Requests, Moved(r), ~ClaimLease(r)
        PROVE  \A s \in Requests : Deliverer(s)' => Deliverer(s) /\ req'[s] = req[s]
    BY <1>7 DEF Moved, Deliverer
  <1>8. UNCHANGED <<req, pc, delivered>> =>
            \A s \in Requests : Deliverer(s)' => Deliverer(s) /\ req'[s] = req[s]
    BY DEF Deliverer
  <1> QED BY <1>4, <1>5, <1>6, <1>7, <1>8, RequestMoved, NoRequestStep, DeliveredStep

\* A grant is consumed only by a request whose lease, the grant's own, is claimed.
LEMMA ConsumedStep ==
    ASSUME TypeOK, OneLeasePerGrant, SampledClock, RequestBound, PastIsClaimed,
           ConsumedIsClaimed, [Next]_vars
    PROVE  ConsumedIsClaimed'
  <1> SUFFICES ASSUME NEW g \in Grants, grants'[g].consumed
               PROVE  \E i \in DOMAIN leases' : leases'[i].grant = g /\ leases'[i].claimed
    BY DEF ConsumedIsClaimed, LeasesOf
  <1>1. grants \in [Grants -> Grant] /\ grants[g] \in Grant
    BY DEF TypeOK
  <1>2. CASE grants[g].consumed
    <2>1. Claimed(g)
      BY <1>2 DEF ConsumedIsClaimed, Claimed, LeasesOf
    <2> QED BY <2>1, ClaimedStays
  <1>3. ASSUME NEW r \in Requests, ConsumeGrant(r), ~grants[g].consumed
        PROVE  Claimed(g)
    <2>1. req[r].lease = req[r].grant /\ pc[r] \in Past
      BY <1>3 DEF ConsumeGrant, CanConsume, Past
    <2>2. req[r].grant = g
      BY <1>1, <1>3 DEF ConsumeGrant
    <2> QED BY <2>1, <2>2 DEF PastIsClaimed
  <1>4. ASSUME NEW r \in Requests, RequestStep(r), ~ConsumeGrant(r) PROVE UNCHANGED grants
    BY <1>4 DEF RequestStep, PollArrive, CompleteRead, FailRead, ResultRead, ObservedRead,
                PollResume, PollFresh, CheckCancel, Deliver, Abort, facts,
                ExpireLease, Complete, Fail, ClaimLease, OpenLease
  <1>5. ASSUME NEW h \in Grants, RecordGrant(h) \/ RevokeGrant(h)
        PROVE  grants'[g].consumed = grants[g].consumed
    <2>1. PICK status : grants' = [grants EXCEPT ![h].status = status]
      BY <1>5 DEF RecordGrant, RevokeGrant
    <2>2. grants[h] \in Grant
      BY <1>1, <1>5
    <2> QED BY <1>1, <2>1, <2>2 DEF Grant
  <1>6. \/ \E r \in Requests : RequestStep(r)
        \/ \E h \in Grants : RecordGrant(h) \/ RevokeGrant(h)
        \/ UNCHANGED grants
    BY DEF Next, vars, facts, Register, Enqueue, RequestCancel, Tick
  <1> QED BY <1>2, <1>3, <1>4, <1>5, <1>6, ClaimedStays

-----------------------------------------------------------------------------
(* The theorems.                                                           *)

\* The invariant holds of a plane nobody has used.
LEMMA PlaneInvInit == Init => PlaneInv
  <1> SUFFICES ASSUME Init PROVE PlaneInv
    OBVIOUS
  <1>1. DOMAIN leases = {}
    BY DEF Init
  <1>2. TypeOK
    <2>1. NoRequest \in Request
      BY DEF NoRequest, Request
    <2>2. [status |-> "absent", consumed |-> FALSE] \in Grant
      BY DEF Grant
    <2>3. MaxTime \in Nat
      BY PlaneAssumption
    <2>4. clock \in 0 .. MaxTime /\ leases \in Seq(Lease)
      BY <2>3 DEF Init
    <2>5. grants \in [Grants -> Grant] /\ req \in [Requests -> Request]
          /\ pc \in [Requests -> Steps] /\ delivered \in [Grants -> Nat]
      BY <2>1, <2>2 DEF Init, Steps
    <2> QED BY <2>4, <2>5 DEF Init, TypeOK
  <1>3. \A r \in Requests : pc[r] = "idle" /\ req[r].now = 0 /\ clock = 0
    BY DEF Init, NoRequest
  <1>4. SampledClock /\ RequestBound /\ PastIsClaimed /\ DeliveryOpen
    BY <1>3 DEF Init, SampledClock, RequestBound, PastIsClaimed, DeliveryOpen, Deliverer,
                WithLease, Past
  <1>5. DeliveredOnce /\ ConsumedIsClaimed
    BY DEF Init, DeliveredOnce, ConsumedIsClaimed
  <1> QED BY <1>1, <1>2, <1>4, <1>5 DEF PlaneInv, OneLeasePerGrant, OneActiveLease

\* Every step keeps it.
LEMMA PlaneInvStep == PlaneInv /\ [Next]_vars => PlaneInv'
  BY TypeStep, OneLeasePerGrantStep, OneActiveLeaseStep, RequestInvStep, PastStep,
     DeliveryStep, ConsumedStep DEF PlaneInv

\* So it holds throughout.
LEMMA PlaneInvariant == Spec => []PlaneInv
  BY PlaneInvInit, PlaneInvStep, PTL DEF Spec

\* Every reachable state of the plane is typed.
THEOREM PlaneTypeCorrect == Spec => []TypeOK
  <1>1. PlaneInv => TypeOK
    BY DEF PlaneInv
  <1> QED BY <1>1, PlaneInvariant, PTL

\* However late a poll appends what it decided, no two leases of the attempt are
\* active at once: WorkerControl.append applies the lease to the current fold, and
\* the poll's own clock is never ahead of the real one.
THEOREM LeaseExclusive == Spec => []OneActiveLease
  <1>1. PlaneInv => OneActiveLease
    BY DEF PlaneInv
  <1> QED BY <1>1, PlaneInvariant, PTL

\* At most one answer per lease tells a worker to execute, whatever requests are
\* repeated, raced or cut off between the appends of _open_lease.
THEOREM DeliveryExclusive == Spec => []DeliveredOnce
  <1>1. PlaneInv => DeliveredOnce
    BY DEF PlaneInv
  <1> QED BY <1>1, PlaneInvariant, PTL

\* A grant is spent only behind a claimed lease of its own.
THEOREM ConsumptionBacked == Spec => []ConsumedIsClaimed
  <1>1. PlaneInv => ConsumedIsClaimed
    BY DEF PlaneInv
  <1> QED BY <1>1, PlaneInvariant, PTL

\* A lease that has an outcome or is recorded as expired never changes again.
THEOREM LeaseOutcomeFinal == Spec => TerminalLeaseFrozen
  <1>1. PlaneInv /\ [Next]_vars =>
            [\A i \in DOMAIN leases :
                 leases[i].status \in TerminalLease => leases'[i] = leases[i]]_vars
    <2> SUFFICES ASSUME PlaneInv, [Next]_vars,
                        NEW i \in DOMAIN leases, leases[i].status \in TerminalLease
                 PROVE  leases'[i] = leases[i]
      OBVIOUS
    <2>1. \/ UNCHANGED leases
          \/ LeasesUpdated /\ UNCHANGED clock
          \/ LeaseAdded /\ UNCHANGED clock
      BY LeaseStep DEF PlaneInv
    <2> QED BY <2>1 DEF LeasesUpdated, LeaseKept, LeaseAdded
  <1> QED BY <1>1, PlaneInvariant, PTL DEF Spec, TerminalLeaseFrozen
============================================================================
