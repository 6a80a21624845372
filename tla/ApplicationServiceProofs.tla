---------------------- MODULE ApplicationServiceProofs ----------------------
(***************************************************************************)
(* Proofs about the application service, its model calls and its ledger,   *)
(* for any clients, workloads, limits and materials.                       *)
(***************************************************************************)
EXTENDS ApplicationService, RunReducerProofs, FiniteSetTheorems, WellFoundedInduction, TLAPS

-----------------------------------------------------------------------------
(* The compiled plan.                                                      *)

(* A set of naturals has a least one.                                      *)
LEMMA LeastNatural ==
    ASSUME NEW T \in SUBSET Nat, T # {}
    PROVE  \E x \in T : \A y \in T : x <= y
  <1> DEFINE R == OpToRel(<, Nat)
  <1>1. IsWellFoundedOn(R, Nat)
    BY NatLessThanWellFounded
  <1>2. \A x, y \in Nat : y < x => <<y, x>> \in R
    BY DEF OpToRel
  <1> HIDE DEF R
  <1>3. PICK x \in T : \A y \in T : ~ (<<y, x>> \in R)
    BY <1>1, WFMin
  <1>4. \A y \in T : ~ (y < x)
    BY <1>2, <1>3
  <1> QED BY <1>3, <1>4

(* The rounds of Kahn's algorithm, as an equation.                         *)
Rounds(g, f, n) ==
    f = [k \in 0 .. n |-> IF k = 0 THEN {} ELSE {v \in DOMAIN g.nodes : Preds(g, v) \subseteq f[k - 1]}]

Rounded(g, f, n) ==
    f[0] = {} /\ \A k \in 1 .. n : f[k] = {v \in DOMAIN g.nodes : Preds(g, v) \subseteq f[k - 1]}

LEMMA RoundsAre ==
    ASSUME NEW g, NEW n \in Nat, NEW f, Rounds(g, f, n)
    PROVE  Rounded(g, f, n)
  <1>1. \A k \in 0 .. n : f[k] = IF k = 0 THEN {} ELSE {v \in DOMAIN g.nodes : Preds(g, v) \subseteq f[k - 1]}
    BY DEF Rounds
  <1>2. 0 \in 0 .. n /\ \A k \in 1 .. n : k \in 0 .. n /\ k # 0
    OBVIOUS
  <1> QED BY <1>1, <1>2, Zenon DEF Rounded

LEMMA RoundsExist ==
    ASSUME NEW g, NEW n \in Nat
    PROVE  \E f : Rounds(g, f, n)
  <1> DEFINE Bad == {k \in Nat : ~ \E f : Rounds(g, f, k)}
  <1>1. SUFFICES ASSUME Bad # {} PROVE FALSE
    OBVIOUS
  <1>2. PICK k \in Bad : \A j \in Bad : k <= j
    BY <1>1, LeastNatural
  <1>3. CASE k = 0
    <2> DEFINE f == [i \in 0 .. 0 |-> {}]
    <2>1. Rounds(g, f, 0)
      BY DEF Rounds
    <2> QED BY <1>2, <1>3, <2>1
  <1>4. CASE k # 0
    <2>1. k - 1 \in Nat /\ k - 1 \notin Bad
      BY <1>2, <1>4
    <2>2. PICK f : Rounds(g, f, k - 1)
      BY <2>1
    <2> DEFINE h == [i \in 0 .. k |-> IF i = k THEN {v \in DOMAIN g.nodes : Preds(g, v) \subseteq f[k - 1]} ELSE f[i]]
    <2>3. \A i \in 0 .. k - 1 : f[i] = IF i = 0 THEN {} ELSE {v \in DOMAIN g.nodes : Preds(g, v) \subseteq f[i - 1]}
      BY <2>2 DEF Rounds
    <2>4. \A i \in 0 .. k : h[i] = IF i = 0 THEN {} ELSE {v \in DOMAIN g.nodes : Preds(g, v) \subseteq h[i - 1]}
      <3> SUFFICES ASSUME NEW i \in 0 .. k
                   PROVE  h[i] = IF i = 0 THEN {} ELSE {v \in DOMAIN g.nodes : Preds(g, v) \subseteq h[i - 1]}
        OBVIOUS
      <3>1. CASE i = 0
        <4>1. f[0] = {} /\ 0 # k /\ 0 \in 0 .. k
          BY <1>2, <1>4, <2>1, <2>2, RoundsAre DEF Rounded
        <4> QED BY <3>1, <4>1
      <3>2. CASE i # 0
        <4>1. i - 1 \in 0 .. k - 1 /\ h[i - 1] = f[i - 1]
          BY <2>1, <3>2
        <4>2. CASE i = k
          BY <3>2, <4>1, <4>2
        <4>3. CASE i # k
          <5>1. i \in 0 .. k - 1 /\ h[i] = f[i]
            BY <4>3
          <5> QED BY <2>3, <3>2, <4>1, <5>1
        <4> QED BY <4>2, <4>3
      <3> QED BY <3>1, <3>2
    <2>5. h = [i \in 0 .. k |-> h[i]]
      OBVIOUS
    <2> HIDE DEF h
    <2>6. Rounds(g, h, k)
      BY <2>4, <2>5 DEF Rounds
    <2> QED BY <1>2, <2>6
  <1> QED BY <1>3, <1>4

LEMMA PlacedRounds ==
    ASSUME NEW g, IsFiniteSet(DOMAIN g.nodes)
    PROVE  /\ Cardinality(DOMAIN g.nodes) \in Nat
           /\ Rounds(g, Placed(g), Cardinality(DOMAIN g.nodes))
  <1>1. Cardinality(DOMAIN g.nodes) \in Nat
    BY FS_CardinalityType
  <1>2. \E f : Rounds(g, f, Cardinality(DOMAIN g.nodes))
    BY <1>1, RoundsExist
  <1> QED BY <1>1, <1>2 DEF Rounds, Placed

(* A node that was placed stays placed.                                    *)
LEMMA RoundsGrow ==
    ASSUME NEW g, NEW n \in Nat, NEW f, Rounds(g, f, n), NEW j \in 0 .. n, NEW i \in 0 .. j
    PROVE  f[i] \subseteq f[j]
  <1>0. f[0] = {} /\ \A k \in 1 .. n : f[k] = {v \in DOMAIN g.nodes : Preds(g, v) \subseteq f[k - 1]}
    <2>1. Rounded(g, f, n)
      BY RoundsAre
    <2> QED BY <2>1, Zenon DEF Rounded
  <1>1. \A k \in 1 .. n : f[k - 1] \subseteq f[k]
    <2> DEFINE Bad == {k \in 1 .. n : ~(f[k - 1] \subseteq f[k])}
    <2>1. SUFFICES ASSUME Bad # {} PROVE FALSE
      OBVIOUS
    <2>2. PICK k \in Bad : \A m \in Bad : k <= m
      <3>1. Bad \in SUBSET Nat
        OBVIOUS
      <3> QED BY <2>1, <3>1, LeastNatural
    <2>3. CASE k = 1
      BY <1>0, <2>2, <2>3
    <2>4. CASE k # 1
      <3>1. k - 1 \in 1 .. n /\ f[k - 1 - 1] \subseteq f[k - 1]
        BY <2>2, <2>4
      <3>2. f[k - 1] = {v \in DOMAIN g.nodes : Preds(g, v) \subseteq f[k - 1 - 1]}
        BY <1>0, <3>1
      <3>3. f[k] = {v \in DOMAIN g.nodes : Preds(g, v) \subseteq f[k - 1]}
        BY <1>0, <2>2
      <3> QED BY <2>2, <3>1, <3>2, <3>3
    <2> QED BY <2>3, <2>4
  <1>2. SUFFICES ASSUME NEW v \in f[i] PROVE v \in f[j]
    OBVIOUS
  <1> DEFINE Bad == {k \in i .. n : v \notin f[k]}
  <1>3. CASE Bad = {}
    BY <1>3
  <1>4. CASE Bad # {}
    <2>1. Bad \in SUBSET Nat
      OBVIOUS
    <2>2. PICK k \in Bad : \A m \in Bad : k <= m
      BY <1>4, <2>1, LeastNatural
    <2>3. k # i /\ k - 1 \in i .. n /\ k - 1 \notin Bad /\ k \in 1 .. n
      BY <1>2, <2>2
    <2> QED BY <1>1, <2>2, <2>3
  <1> QED BY <1>3, <1>4

(* Every node of a valid graph is in exactly one stage, after its          *)
(* predecessors.                                                           *)
LEMMA StagesPlace ==
    ASSUME NEW g, IsFiniteSet(DOMAIN g.nodes), GraphValid(g)
    PROVE  LET st == Stages(g) IN
           /\ \A v \in DOMAIN g.nodes : Cardinality({k \in DOMAIN st : v \in st[k]}) = 1
           /\ \A e \in g.edges : \A j, k \in DOMAIN st : e.from \in st[j] /\ e.to \in st[k] => j < k
  <1> DEFINE n == Cardinality(DOMAIN g.nodes)
             P == Placed(g)
             st == Stages(g)
  <1>1. n \in Nat /\ Rounds(g, P, n) /\ P[n] = DOMAIN g.nodes
    BY PlacedRounds DEF GraphValid
  <1>2. P[0] = {} /\ \A k \in 1 .. n : P[k] = {v \in DOMAIN g.nodes : Preds(g, v) \subseteq P[k - 1]}
    <2>1. Rounded(g, P, n)
      BY <1>1, RoundsAre
    <2> QED BY <2>1, Zenon DEF Rounded
  <1>3. \A k \in 1 .. n : \A v : v \in Stage(g, k) <=> v \in P[k] /\ v \notin P[k - 1]
    BY DEF Stage
  <1>4. /\ DOMAIN st = {k \in 1 .. n : Stage(g, k) # {}}
        /\ \A k \in DOMAIN st : k \in 1 .. n /\ st[k] = Stage(g, k)
    BY DEF Stages
  <1>5. \A j \in 0 .. n : \A i \in 0 .. j : P[i] \subseteq P[j]
    BY <1>1, RoundsGrow
  <1> HIDE DEF n, P, st
  <1>6. ASSUME NEW v \in DOMAIN g.nodes
        PROVE  Cardinality({k \in DOMAIN st : v \in st[k]}) = 1
    <2> DEFINE In == {k \in 0 .. n : v \in P[k]}
    <2>1. n \in In /\ In \in SUBSET Nat
      BY <1>1
    <2>2. PICK k \in In : \A j \in In : k <= j
      BY <2>1, LeastNatural
    <2>3. k # 0 /\ k \in 1 .. n /\ k - 1 \in 0 .. n /\ k - 1 \notin In
      BY <1>1, <1>2, <2>2
    <2>4. v \in Stage(g, k)
      BY <1>3, <2>2, <2>3
    <2>5. ASSUME NEW j \in 1 .. n, v \in Stage(g, j) PROVE j = k
      <3>1. j \in In /\ v \notin P[j - 1] /\ j - 1 \in 0 .. n
        BY <1>1, <1>3, <2>5
      <3>2. CASE j > k
        BY <1>1, <1>5, <2>2, <2>3, <3>1, <3>2
      <3> QED BY <1>1, <2>2, <2>3, <3>1, <3>2
    <2>6. {j \in DOMAIN st : v \in st[j]} = {k}
      BY <1>4, <2>3, <2>4, <2>5
    <2> QED BY <2>6, FS_Singleton
  <1>7. ASSUME NEW e \in g.edges, NEW j \in DOMAIN st, NEW k \in DOMAIN st, e.from \in st[j], e.to \in st[k]
        PROVE  j < k
    <2>1. j \in 1 .. n /\ k \in 1 .. n /\ e.from \notin P[j - 1] /\ e.to \in P[k]
      BY <1>3, <1>4, <1>7
    <2>2. e.from \in P[k - 1]
      BY <1>1, <1>2, <2>1 DEF Preds
    <2>3. CASE k <= j
      <3>1. k - 1 \in 0 .. j - 1 /\ j - 1 \in 0 .. n
        BY <1>1, <2>1, <2>3
      <3> QED BY <1>5, <2>1, <2>2, <3>1
    <2> QED BY <1>1, <2>1, <2>3
  <1> QED BY <1>6, <1>7 DEF st

(* The report of a valid spec: its stages are sound, and a policy that     *)
(* authorizes it decides everything in it.                                 *)
LEMMA DryRunSound ==
    ASSUME NEW spec, SpecValid(spec), GraphsOf(spec) \subseteq DOMAIN spec.graphs,
           \A g \in DOMAIN spec.graphs : IsFiniteSet(DOMAIN spec.graphs[g].nodes)
    PROVE  StagesSound(spec, DryRun(spec))
  <1>1. CASE Plannable(spec)
    <2>1. DryRun(spec).stages = [g \in GraphsOf(spec) |-> Stages(spec.graphs[g])]
      BY <1>1 DEF DryRun
    <2>2. \A g \in GraphsOf(spec) : GraphValid(spec.graphs[g]) /\ IsFiniteSet(DOMAIN spec.graphs[g].nodes)
      BY DEF SpecValid
    <2>3. ASSUME NEW g \in GraphsOf(spec)
          PROVE  LET st == Stages(spec.graphs[g]) IN
                 /\ \A v \in DOMAIN spec.graphs[g].nodes : Cardinality({k \in DOMAIN st : v \in st[k]}) = 1
                 /\ \A e \in spec.graphs[g].edges : \A j, k \in DOMAIN st : e.from \in st[j] /\ e.to \in st[k] => j < k
      BY <2>2, StagesPlace
    <2> QED BY <2>1, <2>3, Zenon DEF StagesSound
  <1>2. CASE ~Plannable(spec)
    BY <1>2 DEF DryRun, StagesSound
  <1> QED BY <1>1, <1>2

LEMMA AuthorizedDecides ==
    ASSUME NEW spec, NEW policy, \A r \in DOMAIN policy.decisions : policy.decisions[r] \in {"approved", "denied"}
    PROVE  AuthorizationSound(spec, DryRun(spec), policy)
  <1> DEFINE rep == DryRun(spec)
  <1>1. CASE Plannable(spec) /\ Authorize(rep, policy) = "authorized"
    <2>1. /\ DOMAIN rep.stages = GraphsOf(spec) /\ rep.requirements = Requirements(spec)
          /\ rep.capabilities = DeclaredCapabilities(spec)
      BY <1>1 DEF DryRun
    <2> HIDE DEF rep
    <2>2. /\ rep.capabilities \subseteq policy.capabilities /\ DOMAIN policy.decisions = rep.requirements
          /\ \A r \in DOMAIN policy.decisions : policy.decisions[r] = "approved"
      BY <1>1 DEF Authorize
    <2>3. ASSUME NEW g \in GraphsOf(spec), NEW n \in DOMAIN spec.graphs[g].nodes
          PROVE  LET node == spec.graphs[g].nodes[n] IN
                 /\ node.kind = "approval" => policy.decisions[<<"approval", g, n>>] = "approved"
                 /\ node.kind = "task" =>
                        /\ Registry[node.block].capabilities \subseteq policy.capabilities
                        /\ \A r \in node.resources : spec.paid[r] /\ spec.paidNeedsApproval =>
                               policy.decisions[<<"paid-resource", "root", r>>] = "approved"
      <3> DEFINE node == spec.graphs[g].nodes[n]
      <3>1. CASE node.kind = "approval"
        <4>1. n \in Approvals(spec.graphs[g])
          BY <3>1 DEF Approvals
        <4>2. <<"approval", g, n>> \in UNION {{<<"approval", h, m>> : m \in Approvals(spec.graphs[h])} : h \in GraphsOf(spec)}
          <5> DEFINE S == {<<"approval", g, m>> : m \in Approvals(spec.graphs[g])}
          <5>1. <<"approval", g, n>> \in S
            BY <4>1
          <5>2. S \in {{<<"approval", h, m>> : m \in Approvals(spec.graphs[h])} : h \in GraphsOf(spec)}
            BY Zenon
          <5> HIDE DEF S
          <5> QED BY <5>1, <5>2
        <4>3. <<"approval", g, n>> \in Requirements(spec)
          BY <4>2, Zenon DEF Requirements
        <4> QED BY <2>1, <2>2, <3>1, <4>3
      <3>2. CASE node.kind = "task"
        <4>1. n \in Tasks(spec.graphs[g])
          BY <3>2 DEF Tasks
        <4>2. Registry[node.block].capabilities \subseteq DeclaredCapabilities(spec)
          BY <4>1 DEF DeclaredCapabilities, Block
        <4>3. ASSUME NEW r \in node.resources, spec.paid[r], spec.paidNeedsApproval
              PROVE  <<"paid-resource", "root", r>> \in Requirements(spec)
          <5>1. r \in {u \in UsedResources(spec) : spec.paid[u]}
            <6> DEFINE S == UNION {spec.graphs[g].nodes[m].resources : m \in Tasks(spec.graphs[g])}
            <6>1. r \in S
              BY <4>1, <4>3
            <6>2. S \in {UNION {spec.graphs[h].nodes[m].resources : m \in Tasks(spec.graphs[h])} : h \in GraphsOf(spec)}
              BY Zenon
            <6> HIDE DEF S
            <6>3. r \in UsedResources(spec)
              BY <6>1, <6>2 DEF UsedResources
            <6> QED BY <4>3, <6>3
          <5>2. <<"paid-resource", "root", r>> \in {<<"paid-resource", "root", q>> : q \in {u \in UsedResources(spec) : spec.paid[u]}}
            BY <5>1
          <5> DEFINE Q == {<<"paid-resource", "root", q>> : q \in {u \in UsedResources(spec) : spec.paid[u]}}
          <5>3. Q \subseteq Requirements(spec)
            BY <4>3, Zenon DEF Requirements
          <5> QED BY <5>2, <5>3, Zenon
        <4> QED BY <2>1, <2>2, <3>2, <4>2, <4>3
      <3> QED BY <3>1, <3>2
    <2> QED BY <2>1, <2>3 DEF AuthorizationSound, rep
  <1>2. CASE ~Plannable(spec)
    BY <1>2 DEF DryRun, AuthorizationSound
  <1> QED BY <1>1, <1>2 DEF AuthorizationSound

-----------------------------------------------------------------------------
(* The research ledger.                                                    *)

LEMMA WellFormedConsistent ==
    ASSUME NEW l, LedgerWellFormed(l)
    PROVE  LineageSound(l) /\ OverridesAgree(l) /\ DecisionsGrounded(l)
  <1>1. ASSUME NEW p \in DOMAIN l.proposals
        PROVE  Cardinality(Deciders(l, p)) = (IF l.proposals[p].state = "proposed" THEN 0 ELSE 1)
    <2>1. \A q : Cardinality({q}) = 1
      BY FS_Singleton
    <2>2. CASE l.proposals[p].state = "proposed"
      BY <2>2, FS_EmptySet DEF LedgerWellFormed
    <2>3. CASE l.proposals[p].state # "proposed"
      <3>1. PICK q \in DOMAIN l.decisions : Deciders(l, p) = {q}
        BY <2>3 DEF LedgerWellFormed
      <3> QED BY <2>1, <2>3, <3>1
    <2> QED BY <2>2, <2>3
  <1> QED BY <1>1 DEF LedgerWellFormed, DecisionsGrounded

LEMMA ProposalApplies ==
    ASSUME NEW l, LedgerWellFormed(l), NEW d, d.type = "proposal.submitted", d.base \in Nat, LedgerOK(l, d)
    PROVE  LedgerWellFormed(LedgerApply(l, d))
  <1> DEFINE m == LedgerApply(l, d)
             e == ProposalEntry(d)
  <1>1. d.id \notin DOMAIN l.proposals
    BY DEF LedgerOK, ProposalOK
  <1>2. /\ DOMAIN m = DOMAIN l /\ m.proposals = With(l.proposals, d.id, e)
        /\ m.dissents = l.dissents /\ m.decisions = l.decisions /\ m.questions = l.questions
    BY DEF LedgerApply, LedgerWellFormed
  <1> HIDE DEF m
  <1>3. /\ DOMAIN m.proposals = DOMAIN l.proposals \cup {d.id} /\ m.proposals[d.id] = e
        /\ \A p \in DOMAIN l.proposals : m.proposals[p] = l.proposals[p]
    BY <1>1, <1>2 DEF With
  <1>4. e.state = "proposed" /\ e.base \in Nat /\ DOMAIN e = {"base", "state", "acceptedBy", "supersededBy"}
    BY DEF ProposalEntry
  <1>5. \A p : Deciders(m, p) = Deciders(l, p)
    BY <1>2 DEF Deciders
  <1>6. Deciders(l, d.id) = {}
    BY <1>1 DEF Deciders, LedgerWellFormed
  <1> HIDE DEF e
  <1>7. LineageSound(m)
    BY <1>2, <1>3, <1>4 DEF LineageSound, LedgerWellFormed
  <1>8. OverridesAgree(m) /\ QuestionsAnswered(m)
    BY <1>2 DEF OverridesAgree, QuestionsAnswered, LedgerWellFormed
  <1>9. LedgerWellFormed(m)
    BY <1>2, <1>3, <1>4, <1>5, <1>6, <1>7, <1>8 DEF LedgerWellFormed
  <1> QED BY <1>9 DEF m

LEMMA DissentApplies ==
    ASSUME NEW l, LedgerWellFormed(l), NEW d, d.type = "dissent.recorded", LedgerOK(l, d)
    PROVE  LedgerWellFormed(LedgerApply(l, d))
  <1> DEFINE m == LedgerApply(l, d)
  <1>1. d.id \notin DOMAIN l.dissents
    BY DEF LedgerOK, DissentOK
  <1>2. /\ DOMAIN m = DOMAIN l /\ m.dissents = With(l.dissents, d.id, {})
        /\ m.proposals = l.proposals /\ m.decisions = l.decisions /\ m.questions = l.questions
    BY DEF LedgerApply, LedgerWellFormed
  <1> HIDE DEF m
  <1>3. /\ DOMAIN m.dissents = DOMAIN l.dissents \cup {d.id} /\ m.dissents[d.id] = {}
        /\ \A p \in DOMAIN l.dissents : m.dissents[p] = l.dissents[p]
    BY <1>1, <1>2 DEF With
  <1>5. \A p : Deciders(m, p) = Deciders(l, p)
    BY <1>2 DEF Deciders
  <1>7. LineageSound(m) /\ QuestionsAnswered(m)
    BY <1>2 DEF LineageSound, LedgerWellFormed, QuestionsAnswered
  <1>8. OverridesAgree(m)
    BY <1>1, <1>2, <1>3 DEF OverridesAgree, LedgerWellFormed
  <1>9. LedgerWellFormed(m)
    BY <1>2, <1>3, <1>5, <1>7, <1>8 DEF LedgerWellFormed
  <1> QED BY <1>9 DEF m

LEMMA QuestionApplies ==
    ASSUME NEW l, LedgerWellFormed(l), NEW d, d.type \in {"question.asked", "question.answered"}, LedgerOK(l, d)
    PROVE  LedgerWellFormed(LedgerApply(l, d))
  <1> DEFINE m == LedgerApply(l, d)
             v == IF d.type = "question.asked" THEN "open" ELSE "answered"
  <1>1. d.type = "question.asked" => d.id \notin DOMAIN l.questions
    BY DEF LedgerOK, AskOK
  <1>2. /\ DOMAIN m = DOMAIN l /\ m.questions = With(l.questions, d.id, v)
        /\ m.proposals = l.proposals /\ m.decisions = l.decisions /\ m.dissents = l.dissents
    BY DEF LedgerApply, LedgerWellFormed
  <1> HIDE DEF m
  <1>3. /\ DOMAIN m.questions = DOMAIN l.questions \cup {d.id} /\ m.questions[d.id] = v
        /\ \A q \in DOMAIN l.questions : q # d.id => m.questions[q] = l.questions[q]
    BY <1>2 DEF With
  <1>4. v \in {"open", "answered"} /\ (d.id \in DOMAIN l.questions => v = "answered")
    BY <1>1
  <1>5. \A p : Deciders(m, p) = Deciders(l, p)
    BY <1>2 DEF Deciders
  <1> HIDE DEF v
  <1>7. LineageSound(m) /\ OverridesAgree(m)
    BY <1>2 DEF LineageSound, LedgerWellFormed, OverridesAgree
  <1>8. QuestionsAnswered(m)
    BY <1>2, <1>3, <1>4 DEF QuestionsAnswered, LedgerWellFormed
  <1>9. LedgerWellFormed(m)
    BY <1>2, <1>3, <1>4, <1>5, <1>7, <1>8 DEF LedgerWellFormed
  <1> QED BY <1>9 DEF m

LEMMA DecisionApplies ==
    ASSUME NEW l, LedgerWellFormed(l), NEW d, d.type = "decision.recorded", LedgerOK(l, d)
    PROVE  LedgerWellFormed(LedgerApply(l, d))
  <1> DEFINE m == LedgerApply(l, d)
             e == DecisionEntry(d)
  <1>1. DecisionOK(l, d)
    BY DEF LedgerOK
  <1>2. /\ DOMAIN m = DOMAIN l /\ m.questions = l.questions
        /\ m.proposals = DecidedProposals(l, d) /\ m.dissents = OverriddenDissents(l, d)
        /\ m.decisions = With(l.decisions, d.id, e)
    BY DEF LedgerApply, Decided, LedgerWellFormed
  <1> HIDE DEF m
  <1>3. /\ DOMAIN m.decisions = DOMAIN l.decisions \cup {d.id} /\ m.decisions[d.id] = e
        /\ d.id \notin DOMAIN l.decisions
        /\ \A q \in DOMAIN l.decisions : m.decisions[q] = l.decisions[q]
    BY <1>1, <1>2 DEF DecisionOK, With
  <1>4. e.kind = d.kind /\ e.target = d.target /\ e.outcome = d.outcome /\ e.over = d.over
    BY DEF DecisionEntry
  <1>5. /\ DOMAIN m.dissents = DOMAIN l.dissents
        /\ \A x \in DOMAIN l.dissents : m.dissents[x] = IF x \in d.over THEN l.dissents[x] \cup {d.id} ELSE l.dissents[x]
    BY <1>2 DEF OverriddenDissents
  <1>6. /\ DOMAIN m.proposals = DOMAIN l.proposals
    BY <1>2 DEF DecidedProposals
  <1>7. Closes(d) => d.target \in DOMAIN l.proposals /\ l.proposals[d.target].state = "proposed"
    BY <1>1 DEF DecisionOK, Closes, DecisionTargetResolves, OpenForOutcome
  <1>8. \A p \in Superseded(l, d) : /\ p \in DOMAIN l.proposals /\ l.proposals[p].state = "accepted" /\ Closes(d)
                                    /\ d.outcome = "accept" /\ l.proposals[p].base < l.proposals[d.target].base
    BY DEF Superseded, Closes
  <1>9. ASSUME NEW p \in DOMAIN l.proposals
        PROVE  /\ DOMAIN m.proposals[p] = {"base", "state", "acceptedBy", "supersededBy"}
               /\ m.proposals[p].base = l.proposals[p].base
               /\ (Closes(d) /\ p = d.target) =>
                     IF d.outcome = "accept" THEN m.proposals[p].state = "accepted" /\ m.proposals[p].acceptedBy = d.id
                     ELSE m.proposals[p].state = "rejected"
               /\ (~(Closes(d) /\ p = d.target) /\ p \in Superseded(l, d)) =>
                     /\ m.proposals[p].state = "superseded" /\ m.proposals[p].supersededBy = d.target
                     /\ m.proposals[p].acceptedBy = l.proposals[p].acceptedBy
               /\ (~(Closes(d) /\ p = d.target) /\ p \notin Superseded(l, d)) => m.proposals[p] = l.proposals[p]
    <2>1. DOMAIN l.proposals[p] = {"base", "state", "acceptedBy", "supersededBy"}
      BY DEF LedgerWellFormed
    <2>2. CASE Closes(d) /\ p = d.target
      <3>0. p \notin Superseded(l, d)
        BY <1>7, <1>8, <2>2
      <3>1. m.proposals[p] =
                [l.proposals[p] EXCEPT !.state = IF d.outcome = "accept" THEN "accepted" ELSE "rejected",
                                       !.acceptedBy = IF d.outcome = "accept" THEN d.id ELSE l.proposals[p].acceptedBy]
        BY <1>2, <2>2, <3>0 DEF DecidedProposals
      <3> QED BY <2>1, <2>2, <3>1
    <2>3. CASE ~(Closes(d) /\ p = d.target) /\ p \in Superseded(l, d)
      <3>1. m.proposals[p] = [l.proposals[p] EXCEPT !.state = "superseded", !.supersededBy = d.target]
        BY <1>2, <2>3 DEF DecidedProposals
      <3> QED BY <2>1, <2>3, <3>1
    <2>4. CASE ~(Closes(d) /\ p = d.target) /\ p \notin Superseded(l, d)
      <3>1. m.proposals[p] = l.proposals[p]
        BY <1>2, <2>4 DEF DecidedProposals
      <3> QED BY <2>1, <2>4, <3>1
    <2> QED BY <2>2, <2>3, <2>4
  <1> HIDE DEF e
  <1>10. QuestionsAnswered(m)
    <2>1. d.kind = "question" /\ d.outcome # "defer" => l.questions[d.target] = "answered"
      BY <1>1 DEF DecisionOK, LedgerWellFormed, DecisionTargetResolves
    <2> QED BY <1>2, <1>3, <1>4, <2>1 DEF QuestionsAnswered, LedgerWellFormed
  <1>11. OverridesAgree(m)
    <2> SUFFICES ASSUME NEW x \in DOMAIN l.dissents
                 PROVE  m.dissents[x] = {q \in DOMAIN m.decisions : x \in m.decisions[q].over}
      BY <1>5 DEF OverridesAgree
    <2>1. l.dissents[x] = {q \in DOMAIN l.decisions : x \in l.decisions[q].over}
      BY DEF OverridesAgree, LedgerWellFormed
    <2>2. \A q \in DOMAIN m.decisions : x \in m.decisions[q].over <=>
             \/ q \in DOMAIN l.decisions /\ x \in l.decisions[q].over
             \/ q = d.id /\ x \in d.over
      BY <1>3, <1>4
    <2> QED BY <1>3, <1>5, <2>1, <2>2
  <1>12. LineageSound(m)
    <2> SUFFICES ASSUME NEW p \in DOMAIN m.proposals
                 PROVE  LET x == m.proposals[p] IN
                        /\ x.state = "superseded" =>
                              /\ x.supersededBy \in DOMAIN m.proposals
                              /\ m.proposals[x.supersededBy].base > x.base
                              /\ m.proposals[x.supersededBy].state \in {"accepted", "superseded"}
                        /\ x.state \in {"accepted", "superseded"} =>
                              /\ x.acceptedBy \in DOMAIN m.decisions
                              /\ m.decisions[x.acceptedBy].target = p
                              /\ m.decisions[x.acceptedBy].outcome = "accept"
      BY DEF LineageSound
    <2>0. p \in DOMAIN l.proposals /\ LineageSound(l) /\ \A q \in DOMAIN l.proposals : l.proposals[q].base \in Nat
      BY <1>6 DEF LedgerWellFormed
    <2>1. CASE Closes(d) /\ p = d.target
      BY <1>3, <1>4, <1>9, <2>0, <2>1
    <2>2. CASE ~(Closes(d) /\ p = d.target) /\ p \in Superseded(l, d)
      <3>1. d.target \in DOMAIN l.proposals /\ d.target \notin Superseded(l, d) /\ Closes(d) /\ d.outcome = "accept"
        BY <1>7, <1>8, <2>2
      <3>2. /\ m.proposals[p].state = "superseded" /\ m.proposals[p].supersededBy = d.target
            /\ m.proposals[p].acceptedBy = l.proposals[p].acceptedBy
            /\ m.proposals[p].base = l.proposals[p].base /\ m.proposals[d.target].base = l.proposals[d.target].base
            /\ m.proposals[d.target].state = "accepted" /\ l.proposals[p].state = "accepted"
        BY <1>8, <1>9, <2>0, <2>2, <3>1
      <3>3. m.proposals[d.target].base > m.proposals[p].base
        BY <1>8, <2>0, <2>2, <3>1, <3>2
      <3>4. /\ l.proposals[p].acceptedBy \in DOMAIN l.decisions
            /\ l.decisions[l.proposals[p].acceptedBy].target = p
            /\ l.decisions[l.proposals[p].acceptedBy].outcome = "accept"
        BY <2>0, <3>2 DEF LineageSound
      <3> QED BY <1>3, <1>6, <3>1, <3>2, <3>3, <3>4
    <2>3. CASE ~(Closes(d) /\ p = d.target) /\ p \notin Superseded(l, d)
      <3>1. m.proposals[p] = l.proposals[p]
        BY <1>9, <2>0, <2>3
      <3>2. \A q \in DOMAIN l.proposals :
               l.proposals[q].state \in {"accepted", "superseded"} =>
                   m.proposals[q].state \in {"accepted", "superseded"} /\ m.proposals[q].base = l.proposals[q].base
        BY <1>7, <1>9
      <3>3. LET x == l.proposals[p] IN
            /\ x.state = "superseded" =>
                  /\ x.supersededBy \in DOMAIN l.proposals
                  /\ l.proposals[x.supersededBy].base > x.base
                  /\ l.proposals[x.supersededBy].state \in {"accepted", "superseded"}
            /\ x.state \in {"accepted", "superseded"} =>
                  /\ x.acceptedBy \in DOMAIN l.decisions
                  /\ l.decisions[x.acceptedBy].target = p
                  /\ l.decisions[x.acceptedBy].outcome = "accept"
        BY <2>0 DEF LineageSound
      <3> QED BY <1>3, <1>6, <3>1, <3>2, <3>3
    <2> QED BY <2>1, <2>2, <2>3
  <1>13. ASSUME NEW p \in DOMAIN l.proposals
         PROVE  IF m.proposals[p].state = "proposed" THEN Deciders(m, p) = {}
                ELSE \E q \in DOMAIN m.decisions : Deciders(m, p) = {q}
    <2>1. Deciders(m, p) = Deciders(l, p) \cup (IF Closes(d) /\ d.target = p THEN {d.id} ELSE {})
      BY <1>3, <1>4 DEF Deciders, Closes
    <2>2. CASE Closes(d) /\ d.target = p
      <3>1. Deciders(l, p) = {} /\ m.proposals[p].state # "proposed"
        BY <1>7, <1>9, <2>2 DEF LedgerWellFormed
      <3> QED BY <1>3, <2>1, <2>2, <3>1
    <2>3. CASE ~(Closes(d) /\ d.target = p)
      <3>1. m.proposals[p].state = "proposed" <=> l.proposals[p].state = "proposed"
        BY <1>8, <1>9, <2>3
      <3> QED BY <1>3, <2>1, <2>3, <3>1 DEF LedgerWellFormed
    <2> QED BY <2>2, <2>3
  <1>14. /\ d.kind = "proposal" => d.target \in DOMAIN l.proposals
         /\ d.kind = "question" => d.target \in DOMAIN l.questions
         /\ d.over \subseteq DOMAIN l.dissents
    BY <1>1 DEF DecisionOK, DecisionTargetResolves
  <1>15. \A q \in DOMAIN m.decisions :
          /\ m.decisions[q].kind = "proposal" => m.decisions[q].target \in DOMAIN m.proposals
          /\ m.decisions[q].kind = "question" => m.decisions[q].target \in DOMAIN m.questions
          /\ m.decisions[q].over \subseteq DOMAIN m.dissents
    BY <1>2, <1>3, <1>4, <1>5, <1>6, <1>14 DEF LedgerWellFormed
  <1>16. LedgerWellFormed(m)
    BY <1>2, <1>6, <1>9, <1>10, <1>11, <1>12, <1>13, <1>15 DEF LedgerWellFormed
  <1> QED BY <1>16 DEF m

(* A draft that a well-formed ledger accepts leaves a well-formed ledger.  *)
LEMMA LedgerApplies ==
    ASSUME NEW l, LedgerWellFormed(l), NEW d, LedgerOK(l, d), d.type = "proposal.submitted" => d.base \in Nat
    PROVE  LedgerWellFormed(LedgerApply(l, d))
  <1>1. CASE d.type = "run.queued"
    <2> DEFINE m == LedgerApply(l, d)
    <2>1. /\ DOMAIN m = DOMAIN l /\ m.questions = l.questions
          /\ m.proposals = l.proposals /\ m.decisions = l.decisions /\ m.dissents = l.dissents
      BY <1>1 DEF LedgerApply, LedgerWellFormed
    <2> HIDE DEF m
    <2>2. LedgerWellFormed(m)
      BY <2>1 DEF LedgerWellFormed, LineageSound, OverridesAgree, QuestionsAnswered, Deciders
    <2> QED BY <2>2 DEF m
  <1>2. CASE d.type \notin {"proposal.submitted", "dissent.recorded", "decision.recorded",
                            "question.asked", "question.answered", "run.queued"}
    BY <1>2 DEF LedgerApply
  <1> QED BY <1>1, <1>2, ProposalApplies, DissentApplies, DecisionApplies, QuestionApplies

-----------------------------------------------------------------------------
(* Shapes.  A record is a function of its field names.                     *)
Rec(r, F) == r = [f \in F |-> r[f]]

JobFields == {"pc", "cmd", "frozen", "expected", "req", "todo", "digest", "outcome"}
BudgetFields == {"open", "closed", "consumed", "cap"}
CallFields == {"open", "closed", "failed"}

Shaped ==
    /\ Rec(job, Callers) /\ \A x \in Callers : Rec(job[x], JobFields)
    /\ Rec(budget, BudgetFields) /\ Rec(calls, CallFields)
    /\ head \in Nat /\ load \in Workloads

(* A step of x: nobody else moves, and x keeps all fields but those of S.  *)
Turn(x) ==
    /\ Rec(job', Callers) /\ Rec(job'[x], JobFields)
    /\ \A y \in Callers \ {x} : job'[y] = job[y]

Kept(x, S) == \A f \in JobFields \ S : job'[x][f] = job[x][f]

(* A job is replaced.                                                      *)
LEMMA Replaced ==
    ASSUME Rec(job, Callers), NEW x \in Callers, NEW r, Rec(r, JobFields), job' = [job EXCEPT ![x] = r]
    PROVE  Turn(x) /\ job'[x] = r
  BY Zenon DEF Turn, Rec

LEMMA IdleShape == Rec(Idle, JobFields) /\ Idle.pc = "idle" /\ Idle.frozen = Unset
  BY DEF Rec, Idle, JobFields

LEMMA RefuseMoves ==
    ASSUME Shaped, NEW x \in Callers, Refuse(x)
    PROVE  Turn(x) /\ job'[x] = Idle /\ job'[x].pc = "idle" /\ job'[x].frozen = Unset
  BY Replaced, IdleShape DEF Refuse, Shaped

LEMMA GoMoves ==
    ASSUME Shaped, NEW x \in Callers, NEW pc, Go(x, pc)
    PROVE  /\ Turn(x) /\ Kept(x, {"pc", "frozen"})
           /\ job'[x].pc = pc /\ job'[x].frozen = Unset
  <1> DEFINE r == [job[x] EXCEPT !.pc = pc, !.frozen = Unset]
  <1>1. job' = [job EXCEPT ![x] = r] /\ Rec(job[x], JobFields) /\ Rec(job, Callers)
    BY Zenon DEF Go, Shaped
  <1>2. Rec(r, JobFields) /\ r.pc = pc /\ r.frozen = Unset /\ \A f \in JobFields \ {"pc", "frozen"} : r[f] = job[x][f]
    BY Zenon, <1>1 DEF Rec, JobFields
  <1> QED BY <1>1, <1>2, Replaced DEF Kept

LEMMA StepMoves ==
    ASSUME Shaped, NEW x \in Callers, NEW pc, Step(x, pc)
    PROVE  Turn(x) /\ Kept(x, {"pc"}) /\ job'[x].pc = pc
  <1> DEFINE r == [job[x] EXCEPT !.pc = pc]
  <1>1. job' = [job EXCEPT ![x] = r] /\ Rec(job[x], JobFields) /\ Rec(job, Callers)
    BY Zenon DEF Step, Shaped
  <1>2. Rec(r, JobFields) /\ r.pc = pc /\ \A f \in JobFields \ {"pc"} : r[f] = job[x][f]
    BY Zenon, <1>1 DEF Rec, JobFields
  <1> QED BY <1>1, <1>2, Replaced DEF Kept
LEMMA OutcomeMoves ==
    ASSUME Shaped, NEW x \in Callers, NEW pc, NEW o,
           job' = [job EXCEPT ![x].pc = pc, ![x].outcome = o]
    PROVE  Turn(x) /\ Kept(x, {"pc", "outcome"}) /\ job'[x].pc = pc /\ job'[x].outcome = o
  <1> DEFINE r == [job[x] EXCEPT !.pc = pc, !.outcome = o]
  <1>1. job' = [job EXCEPT ![x] = r] /\ Rec(job[x], JobFields) /\ Rec(job, Callers)
    BY Zenon DEF Shaped
  <1>2. Rec(r, JobFields) /\ r.pc = pc /\ r.outcome = o /\ \A f \in JobFields \ {"pc", "outcome"} : r[f] = job[x][f]
    BY Zenon, <1>1 DEF Rec, JobFields
  <1> QED BY <1>1, <1>2, Replaced DEF Kept

LEMMA RequestMoves ==
    ASSUME Shaped, NEW x \in Callers, NEW pc, NEW q,
           job' = [job EXCEPT ![x].pc = pc, ![x].req = q]
    PROVE  Turn(x) /\ Kept(x, {"pc", "req"}) /\ job'[x].pc = pc /\ job'[x].req = q
  <1> DEFINE r == [job[x] EXCEPT !.pc = pc, !.req = q]
  <1>1. job' = [job EXCEPT ![x] = r] /\ Rec(job[x], JobFields) /\ Rec(job, Callers)
    BY Zenon DEF Shaped
  <1>2. Rec(r, JobFields) /\ r.pc = pc /\ r.req = q /\ \A f \in JobFields \ {"pc", "req"} : r[f] = job[x][f]
    BY Zenon, <1>1 DEF Rec, JobFields
  <1> QED BY <1>1, <1>2, Replaced DEF Kept

LEMMA PlanMoves ==
    ASSUME Shaped, NEW x \in Callers, NEW pc, NEW t,
           job' = [job EXCEPT ![x].pc = pc, ![x].todo = t]
    PROVE  Turn(x) /\ Kept(x, {"pc", "todo"}) /\ job'[x].pc = pc /\ job'[x].todo = t
  <1> DEFINE r == [job[x] EXCEPT !.pc = pc, !.todo = t]
  <1>1. job' = [job EXCEPT ![x] = r] /\ Rec(job[x], JobFields) /\ Rec(job, Callers)
    BY Zenon DEF Shaped
  <1>2. Rec(r, JobFields) /\ r.pc = pc /\ r.todo = t /\ \A f \in JobFields \ {"pc", "todo"} : r[f] = job[x][f]
    BY Zenon, <1>1 DEF Rec, JobFields
  <1> QED BY <1>1, <1>2, Replaced DEF Kept

LEMMA FreezeMoves ==
    ASSUME Shaped, NEW x \in Callers, NEW h, NEW pc,
           job' = [job EXCEPT ![x].frozen = h, ![x].pc = pc]
    PROVE  Turn(x) /\ Kept(x, {"frozen", "pc"}) /\ job'[x].frozen = h /\ job'[x].pc = pc
  <1> DEFINE r == [job[x] EXCEPT !.frozen = h, !.pc = pc]
  <1>1. job' = [job EXCEPT ![x] = r] /\ Rec(job[x], JobFields) /\ Rec(job, Callers)
    BY Zenon DEF Shaped
  <1>2. Rec(r, JobFields) /\ r.frozen = h /\ r.pc = pc /\ \A f \in JobFields \ {"frozen", "pc"} : r[f] = job[x][f]
    BY Zenon, <1>1 DEF Rec, JobFields
  <1> QED BY <1>1, <1>2, Replaced DEF Kept

LEMMA DraftMoves ==
    ASSUME Shaped, NEW x \in Callers, NEW o,
           job' = [job EXCEPT ![x].pc = "receipt", ![x].frozen = Unset, ![x].outcome = o]
    PROVE  /\ Turn(x) /\ Kept(x, {"pc", "frozen", "outcome"})
           /\ job'[x].pc = "receipt" /\ job'[x].frozen = Unset /\ job'[x].outcome = o
  <1> DEFINE r == [job[x] EXCEPT !.pc = "receipt", !.frozen = Unset, !.outcome = o]
  <1>1. job' = [job EXCEPT ![x] = r] /\ Rec(job[x], JobFields) /\ Rec(job, Callers)
    BY Zenon DEF Shaped
  <1>2. /\ Rec(r, JobFields) /\ r.pc = "receipt" /\ r.frozen = Unset /\ r.outcome = o
        /\ \A f \in JobFields \ {"pc", "frozen", "outcome"} : r[f] = job[x][f]
    BY Zenon, <1>1 DEF Rec, JobFields
  <1> QED BY <1>1, <1>2, Replaced DEF Kept

LEMMA IssueMoves ==
    ASSUME Shaped, NEW x \in Callers, NEW c, Issue(x, c)
    PROVE  /\ Turn(x) /\ job'[x].pc = "lookup" /\ job'[x].cmd = c /\ job'[x].frozen = Unset
           /\ job'[x].digest = Digest(c) /\ job'[x].expected = IF issued[c] = Unset THEN head ELSE issued[c]
  <1> DEFINE seen == IF issued[c] = Unset THEN head ELSE issued[c]
             r == [Idle EXCEPT !.pc = "lookup", !.cmd = c, !.expected = seen, !.digest = Digest(c)]
  <1>1. job' = [job EXCEPT ![x] = r] /\ Rec(job, Callers)
    BY Zenon DEF Issue, Shaped
  <1>2. /\ Rec(r, JobFields) /\ r.pc = "lookup" /\ r.cmd = c /\ r.frozen = Unset /\ r.digest = Digest(c)
        /\ r.expected = seen
    BY DEF Rec, JobFields, Idle
  <1> QED BY <1>1, <1>2, Replaced

LEMMA CliMoves ==
    ASSUME Shaped, NEW x \in Callers, NEW c, CliCall(x, c)
    PROVE  /\ Turn(x) /\ job'[x].cmd = c /\ job'[x].req = c.input /\ job'[x].frozen = Unset
           /\ job'[x].pc = IF c.op = "cli" THEN FirstPoint(c.input) ELSE "simulate"
  <1> DEFINE pc == IF c.op = "cli" THEN FirstPoint(c.input) ELSE "simulate"
             r == [Idle EXCEPT !.cmd = c, !.req = c.input, !.pc = pc]
  <1>1. job' = [job EXCEPT ![x] = r] /\ Rec(job, Callers)
    BY Zenon DEF CliCall, Shaped
  <1>2. Rec(r, JobFields) /\ r.pc = pc /\ r.cmd = c /\ r.frozen = Unset /\ r.req = c.input
    BY DEF Rec, JobFields, Idle
  <1> QED BY <1>1, <1>2, Replaced

LEMMA AppendedMoves ==
    ASSUME Shaped, NEW x \in Callers, NEW t,
           job' = [job EXCEPT ![x].todo = t, ![x].frozen = Unset, ![x].expected = Unset]
    PROVE  /\ Turn(x) /\ Kept(x, {"todo", "frozen", "expected"})
           /\ job'[x].todo = t /\ job'[x].frozen = Unset /\ job'[x].expected = Unset
  <1> DEFINE r == [job[x] EXCEPT !.todo = t, !.frozen = Unset, !.expected = Unset]
  <1>1. job' = [job EXCEPT ![x] = r] /\ Rec(job[x], JobFields) /\ Rec(job, Callers)
    BY Zenon DEF Shaped
  <1>2. /\ Rec(r, JobFields) /\ r.todo = t /\ r.frozen = Unset /\ r.expected = Unset
        /\ \A f \in JobFields \ {"todo", "frozen", "expected"} : r[f] = job[x][f]
    BY Zenon, <1>1 DEF Rec, JobFields
  <1> QED BY <1>1, <1>2, Replaced DEF Kept

LEMMA FieldMoves ==
    ASSUME Shaped, NEW x \in Callers, NEW v,
           \/ job' = [job EXCEPT ![x].todo = v]
           \/ job' = [job EXCEPT ![x].frozen = v]
    PROVE  /\ Turn(x) /\ Kept(x, {"todo", "frozen"})
           /\ \/ job'[x].todo = v /\ job'[x].frozen = job[x].frozen
              \/ job'[x].frozen = v /\ job'[x].todo = job[x].todo
  <1>1. Rec(job[x], JobFields) /\ Rec(job, Callers)
    BY DEF Shaped
  <1>2. CASE job' = [job EXCEPT ![x].todo = v]
    <2> DEFINE r == [job[x] EXCEPT !.todo = v]
    <2>1. job' = [job EXCEPT ![x] = r]
      BY Zenon, <1>2
    <2>2. Rec(r, JobFields) /\ r.todo = v /\ \A f \in JobFields \ {"todo"} : r[f] = job[x][f]
      BY Zenon, <1>1 DEF Rec, JobFields
    <2>3. Turn(x) /\ job'[x] = r
      BY <1>1, <2>1, <2>2, Replaced
    <2> QED BY <2>2, <2>3 DEF Kept, JobFields
  <1>3. CASE job' = [job EXCEPT ![x].frozen = v]
    <2> DEFINE r == [job[x] EXCEPT !.frozen = v]
    <2>1. job' = [job EXCEPT ![x] = r]
      BY Zenon, <1>3
    <2>2. Rec(r, JobFields) /\ r.frozen = v /\ \A f \in JobFields \ {"frozen"} : r[f] = job[x][f]
      BY Zenon, <1>1 DEF Rec, JobFields
    <2>3. Turn(x) /\ job'[x] = r
      BY <1>1, <2>1, <2>2, Replaced
    <2> QED BY <2>2, <2>3 DEF Kept, JobFields
  <1> QED BY <1>2, <1>3

-----------------------------------------------------------------------------
(* Which operation is at which statement.                                  *)
ModelPcs == AppendPoints \cup {"http", "returned", "raised"}
SimPcs == {"simulate", "appending", "simulated", "refused"}

CmdOK(j) ==
    /\ j.pc # "idle" => j.cmd \in Commands
    /\ j.pc \in ModelPcs => j.cmd.op \in {"model", "cli"} /\ j.req = j.cmd.input
    /\ j.pc \in SimPcs => j.cmd.op \in {"simulate", "clisim"}
    /\ j.pc \in {"fact", "append"} => j.cmd.op \in FactOps
    /\ j.pc = "intent" => j.cmd.op \in EffectOps
    /\ j.pc = "evaluate" => j.cmd.op \in EvaluationOps
    /\ j.pc \in {"dispatch", "plan", "observe"} => j.cmd.op = j.pc
    /\ j.pc # "idle" /\ j.cmd.op \notin CommandLine => j.digest.cmd = j.cmd
    /\ j.pc \in {"lookup", "head", "receipt"} => j.cmd.op \notin CommandLine
    /\ j.pc \notin AppendPoints \cup {"appending"} => j.frozen = Unset

(* The statements between a recorded start and the end of a call, and      *)
(* those between a reservation and its close.                              *)
Holding == {"http", "consume", "complete", "release", "fail"}
Owning == {"start", "undo", "http", "release", "consume"}

(* A step of x that leaves budget and calls alone.                         *)
Quiet(x) ==
    /\ UNCHANGED <<budget, calls, sent>> /\ head' \in {head, head + 1}
    /\ job'[x].pc \notin Holding \cup Owning
    /\ job'[x].frozen = Unset \/ (job'[x].pc = "appending" /\ job'[x].frozen \in {job[x].frozen, head})

CmdStep(x) == Turn(x) /\ CmdOK(job'[x])

LEMMA IdleOK == CmdOK(Idle)
  BY DEF CmdOK, Idle, ModelPcs, SimPcs, AppendPoints

LEMMA RefuseKeeps ==
    ASSUME Shaped, NEW x \in Callers, Refuse(x), UNCHANGED <<budget, calls, sent>>, head' \in {head, head + 1}
    PROVE  CmdStep(x) /\ Quiet(x)
  BY RefuseMoves, IdleOK DEF CmdStep, Quiet, Holding, Owning

LEMMA WorkIsCommands ==
    ASSUME Shaped, NEW c \in work
    PROVE  c \in Commands
  BY DEF Shaped, work, Commands

LEMMA IssueKeeps ==
    ASSUME Shaped, NEW x \in Callers, NEW c \in work, Issue(x, c)
    PROVE  CmdStep(x) /\ Quiet(x)
  <1>1. UNCHANGED <<budget, calls, sent, head>> /\ c.op \notin CommandLine
    BY DEF Issue, callVars
  <1>2. Digest(c).cmd = c
    BY DEF Digest
  <1> QED BY <1>1, <1>2, IssueMoves, WorkIsCommands
          DEF CmdStep, Quiet, CmdOK, ModelPcs, SimPcs, AppendPoints, Holding, Owning

LEMMA CliKeeps ==
    ASSUME Shaped, NEW x \in Callers, NEW c \in work, CliCall(x, c)
    PROVE  CmdStep(x) /\ Quiet(x)
  <1>1. UNCHANGED <<budget, calls, sent, head>> /\ c.op \in {"cli", "clisim"}
    BY DEF CliCall, callVars, CommandLine
  <1> QED BY <1>1, CliMoves, WorkIsCommands
          DEF CmdStep, Quiet, CmdOK, ModelPcs, SimPcs, AppendPoints, Holding, Owning, FirstPoint, CommandLine
(* A client moves on to another statement and leaves budget and calls.     *)
LEMMA StepKeeps ==
    ASSUME Shaped, NEW x \in Callers, CmdOK(job[x]), NEW pc, Step(x, pc),
           job[x].pc \notin AppendPoints \cup {"appending", "idle"}, pc \in {"head", "append", "receipt"},
           pc = "append" => job[x].cmd.op \in FactOps, job[x].cmd.op \notin CommandLine,
           UNCHANGED <<budget, calls, sent>>, head' \in {head, head + 1}
    PROVE  CmdStep(x) /\ Quiet(x)
  <1>1. Turn(x) /\ Kept(x, {"pc"}) /\ job'[x].pc = pc
    BY StepMoves
  <1>2. job'[x].cmd = job[x].cmd /\ job'[x].frozen = Unset /\ job'[x].digest = job[x].digest
    BY <1>1 DEF Kept, JobFields, CmdOK
  <1> QED BY <1>1, <1>2 DEF CmdStep, Quiet, CmdOK, ModelPcs, SimPcs, AppendPoints, Holding, Owning

LEMMA FactStepKeeps ==
    ASSUME Shaped, NEW x \in Callers, CmdOK(job[x]), FactStep(x)
    PROVE  CmdStep(x) /\ Quiet(x)
  <1>1. CASE Lookup(x)
    BY <1>1, RefuseKeeps, StepKeeps DEF Lookup, CmdOK, AppendPoints, callVars
  <1>2. CASE CheckHead(x)
    <2>1. UNCHANGED <<budget, calls, sent, head>> /\ job[x].pc = "head"
      BY <1>2 DEF CheckHead, callVars
    <2>2. CASE Refuse(x)
      BY <2>1, <2>2, RefuseKeeps
    <2>3. CASE ~Refuse(x)
      <3> DEFINE c == job[x].cmd
                 to == CASE c.op \in FactOps -> "fact" [] c.op \in EffectOps -> "intent"
                         [] c.op = "simulate" -> "simulate" [] c.op \in EvaluationOps -> "evaluate"
                         [] c.op \in {"plan", "observe"} -> c.op [] OTHER -> "receipt"
                 q == IF c.op = "simulate" THEN c.input ELSE job[x].req
      <3>1. job' = [job EXCEPT ![x].pc = to, ![x].req = q]
        BY <1>2, <2>3 DEF CheckHead
      <3> HIDE DEF to, q
      <3>2. Turn(x) /\ Kept(x, {"pc", "req"}) /\ job'[x].pc = to
        BY <3>1, RequestMoves
      <3>3. job'[x].cmd = c /\ job'[x].frozen = Unset /\ job'[x].digest = job[x].digest
        BY <2>1, <3>2 DEF Kept, JobFields, CmdOK, AppendPoints
      <3>4. /\ c \in Commands /\ c.op \notin CommandLine /\ job[x].digest.cmd = c
            /\ \/ c.op \in FactOps /\ to = "fact"
               \/ c.op \in EffectOps /\ to = "intent"
               \/ c.op = "simulate" /\ to = "simulate"
               \/ c.op \in EvaluationOps /\ to = "evaluate"
               \/ c.op \in {"plan", "observe"} /\ to = c.op
               \/ to = "receipt"
        <4>1. c \in Commands /\ c.op \notin CommandLine /\ job[x].digest.cmd = c
          BY <2>1 DEF CmdOK
        <4> QED BY <4>1 DEF to
      <3>5. CmdOK(job'[x])
        BY <3>2, <3>3, <3>4 DEF CmdOK, ModelPcs, SimPcs, AppendPoints, Unset
      <3> QED BY <2>1, <3>2, <3>3, <3>4, <3>5 DEF CmdStep, Quiet, Holding, Owning
    <2> QED BY <2>2, <2>3
  <1>3. CASE PrepareFact(x)
    BY <1>3, RefuseKeeps, StepKeeps DEF PrepareFact, CmdOK, AppendPoints, callVars, FactOps, CommandLine
  <1>4. CASE AppendFact(x)
    BY <1>4, StepKeeps DEF AppendFact, CmdOK, AppendPoints, callVars, FactOps, CommandLine
  <1>5. CASE AppendRefused(x)
    BY <1>5, RefuseKeeps, StepKeeps DEF AppendRefused, CmdOK, AppendPoints, callVars, FactOps, CommandLine
  <1>6. CASE AppendReceipt(x)
    BY <1>6, RefuseKeeps DEF AppendReceipt, callVars
  <1> QED BY <1>1, <1>2, <1>3, <1>4, <1>5, <1>6 DEF FactStep

(* An operation ends in its receipt.                                       *)
LEMMA OutcomeKeeps ==
    ASSUME Shaped, NEW x \in Callers, CmdOK(job[x]), job[x].pc # "idle", job[x].cmd.op \notin CommandLine, NEW o,
           \/ /\ job' = [job EXCEPT ![x].pc = "receipt", ![x].outcome = o]
              /\ job[x].pc \notin AppendPoints \cup {"appending"}
           \/ job' = [job EXCEPT ![x].pc = "receipt", ![x].frozen = Unset, ![x].outcome = o],
           UNCHANGED <<budget, calls, sent>>, head' \in {head, head + 1}
    PROVE  CmdStep(x) /\ Quiet(x)
  <1>1. /\ Turn(x) /\ Kept(x, {"pc", "frozen", "outcome"}) /\ job'[x].pc = "receipt"
        /\ job'[x].frozen = Unset
    <2>1. CASE /\ job' = [job EXCEPT ![x].pc = "receipt", ![x].outcome = o]
               /\ job[x].pc \notin AppendPoints \cup {"appending"}
      <3>1. Turn(x) /\ Kept(x, {"pc", "outcome"}) /\ job'[x].pc = "receipt"
        BY <2>1, OutcomeMoves
      <3>2. job[x].frozen = Unset
        BY <2>1 DEF CmdOK
      <3> QED BY <3>1, <3>2 DEF Kept, JobFields
    <2>2. CASE job' = [job EXCEPT ![x].pc = "receipt", ![x].frozen = Unset, ![x].outcome = o]
      BY <2>2, DraftMoves
    <2> QED BY <2>1, <2>2
  <1>2. job'[x].cmd = job[x].cmd /\ job'[x].digest = job[x].digest
    BY <1>1 DEF Kept, JobFields
  <1> QED BY <1>1, <1>2 DEF CmdStep, Quiet, CmdOK, ModelPcs, SimPcs, AppendPoints, Holding, Owning

LEMMA OperationKeeps ==
    ASSUME Shaped, NEW x \in Callers, CmdOK(job[x]),
           \/ ReserveEffect(x) \/ Dispatch(x) \/ DispatchFails(x) \/ GenerateEnds(x) \/ ObserveModel(x)
           \/ SimulateEnds(x) \/ Evaluate(x) \/ PlanStep(x) \/ Crash(x)
    PROVE  CmdStep(x) /\ Quiet(x)
  <1>1. CASE ReserveEffect(x)
    <2>1. UNCHANGED <<budget, calls, sent, head>> /\ job[x].pc = "intent"
      BY <1>1 DEF ReserveEffect, callVars
    <2>2. CASE Refuse(x)
      BY <2>1, <2>2, RefuseKeeps
    <2>3. CASE job' = [job EXCEPT ![x].pc = "receipt", ![x].outcome = "unknown"]
      BY <2>1, <2>3, OutcomeKeeps DEF CmdOK, EffectOps, CommandLine, AppendPoints
    <2>4. CASE ~Refuse(x) /\ ~(job' = [job EXCEPT ![x].pc = "receipt", ![x].outcome = "unknown"])
      <3> DEFINE c == job[x].cmd
                 to == IF c.op = "model" THEN FirstPoint(c.input) ELSE "dispatch"
                 q == IF c.op = "model" THEN c.input ELSE None
      <3>1. job' = [job EXCEPT ![x].pc = to, ![x].req = q]
        BY <1>1, <2>4 DEF ReserveEffect
      <3>2. c \in Commands /\ c.op \in {"model", "dispatch"} /\ job[x].digest.cmd = c
        BY <2>1 DEF CmdOK, EffectOps, CommandLine
      <3> HIDE DEF to, q
      <3>3. Turn(x) /\ Kept(x, {"pc", "req"}) /\ job'[x].pc = to /\ job'[x].req = q
        BY <3>1, RequestMoves
      <3> USE DEF to, q
      <3>4. job'[x].cmd = c /\ job'[x].frozen = Unset /\ job'[x].digest = job[x].digest
        BY <2>1, <3>3 DEF Kept, JobFields, CmdOK, AppendPoints
      <3> QED BY <2>1, <3>2, <3>3, <3>4
              DEF CmdStep, Quiet, CmdOK, FirstPoint, ModelPcs, SimPcs, AppendPoints, Holding, Owning
    <2> QED BY <2>2, <2>3, <2>4
  <1>2. CASE Dispatch(x)
    BY <1>2, OutcomeKeeps DEF Dispatch, callVars, CmdOK, CommandLine, AppendPoints
  <1>3. CASE DispatchFails(x)
    BY <1>3, RefuseKeeps DEF DispatchFails, callVars
  <1>4. CASE GenerateEnds(x)
    BY <1>4, OutcomeKeeps, RefuseKeeps DEF GenerateEnds, GeneratedDraft, callVars, CommandLine, AppendPoints
  <1>5. CASE ObserveModel(x)
    BY <1>5, OutcomeKeeps DEF ObserveModel, GeneratedDraft, callVars, CmdOK, CommandLine, AppendPoints
  <1>6. CASE SimulateEnds(x)
    BY <1>6, OutcomeKeeps, RefuseKeeps DEF SimulateEnds, callVars, CmdOK, SimPcs, CommandLine, AppendPoints
  <1>7. CASE Evaluate(x)
    BY <1>7, StepKeeps, RefuseKeeps DEF Evaluate, callVars, CmdOK, CommandLine, EvaluationOps, AppendPoints
  <1>8. CASE PlanStep(x)
    BY <1>8, OutcomeKeeps, RefuseKeeps DEF PlanStep, callVars, CmdOK, CommandLine, AppendPoints
  <1>9. CASE Crash(x)
    BY <1>9, RefuseKeeps DEF Crash, callVars
  <1> QED BY <1>1, <1>2, <1>3, <1>4, <1>5, <1>6, <1>7, <1>8, <1>9

(* A call moves along its own statements.                                  *)
LEMMA AtModel ==
    ASSUME NEW x \in Callers, CmdOK(job[x]), job[x].pc \in ModelPcs, Turn(x),
           Kept(x, {"pc", "frozen"}), job'[x].pc \in ModelPcs,
           job'[x].pc \notin AppendPoints => job'[x].frozen = Unset
    PROVE  CmdStep(x) /\ job'[x].cmd = job[x].cmd /\ job'[x].req = job[x].req
  <1>1. job'[x].cmd = job[x].cmd /\ job'[x].req = job[x].req /\ job'[x].digest = job[x].digest
    BY DEF Kept, JobFields
  <1>2. job[x].pc # "idle" /\ job[x].cmd.op \in {"model", "cli"} /\ job[x].req = job[x].cmd.input
        /\ job[x].cmd \in Commands
    BY DEF CmdOK, ModelPcs, AppendPoints
  <1>3. \/ job'[x].pc \in AppendPoints
        \/ job'[x].pc \in {"http", "returned", "raised"} /\ job'[x].frozen = Unset
    BY DEF ModelPcs
  <1> QED BY <1>1, <1>2, <1>3 DEF CmdStep, CmdOK, ModelPcs, SimPcs, AppendPoints, CommandLine

LEMMA AtSim ==
    ASSUME NEW x \in Callers, CmdOK(job[x]), job[x].pc \in SimPcs, Turn(x),
           Kept(x, {"pc", "frozen", "todo", "expected"}), job'[x].pc \in SimPcs,
           job'[x].pc # "appending" => job'[x].frozen = Unset
    PROVE  CmdStep(x) /\ job'[x].cmd = job[x].cmd /\ job'[x].req = job[x].req
  <1>1. job'[x].cmd = job[x].cmd /\ job'[x].req = job[x].req /\ job'[x].digest = job[x].digest
    BY DEF Kept, JobFields
  <1>2. job[x].pc # "idle" /\ job[x].cmd.op \in {"simulate", "clisim"} /\ job[x].cmd \in Commands
    BY DEF CmdOK, SimPcs
  <1> QED BY <1>1, <1>2 DEF CmdStep, CmdOK, ModelPcs, SimPcs, AppendPoints, CommandLine

LEMMA SimKeeps ==
    ASSUME Shaped, NEW x \in Callers, CmdOK(job[x]), SimulateStep(x)
    PROVE  /\ CmdStep(x) /\ Quiet(x)
           /\ job'[x].pc \in SimPcs /\ job'[x].expected \in {Unset, job[x].expected}
  <1>0. /\ UNCHANGED <<budget, calls, sent>> /\ job[x].pc \in SimPcs /\ head' \in {head, head + 1}
        /\ job[x].pc # "appending" => job[x].frozen = Unset
    BY DEF SimulateStep, Simulate, SimPlan, SimFreeze, SimAppend, SimConflict, SimReturn, callVars, SimPcs, CmdOK,
           AppendPoints
  <1>1. \/ \E pc \in {"refused", "simulated"} : Go(x, pc)
        \/ \E pc \in {"simulated", "appending"} : \E t : job[x].pc = "simulate" /\ job' = [job EXCEPT ![x].pc = pc, ![x].todo = t]
        \/ \E v : job[x].pc = "appending" /\ job' = [job EXCEPT ![x].todo = v]
        \/ job[x].pc = "appending" /\ job' = [job EXCEPT ![x].frozen = head]
        \/ \E t : job[x].pc = "appending" /\ job' = [job EXCEPT ![x].todo = t, ![x].frozen = Unset, ![x].expected = Unset]
    <2>1. CASE SimPlan(x)
      BY <2>1 DEF SimPlan
    <2>2. CASE SimFreeze(x)
      BY <2>2 DEF SimFreeze
    <2>3. CASE SimAppend(x)
      BY <2>3 DEF SimAppend
    <2>4. CASE SimConflict(x)
      BY <2>4 DEF SimConflict
    <2>5. CASE SimReturn(x)
      BY <2>5 DEF SimReturn
    <2> QED BY <2>1, <2>2, <2>3, <2>4, <2>5 DEF SimulateStep, Simulate
  <1>2. /\ Turn(x) /\ Kept(x, {"pc", "frozen", "todo", "expected"}) /\ job'[x].pc \in SimPcs
        /\ job'[x].expected \in {Unset, job[x].expected}
        /\ \/ job'[x].frozen = Unset
           \/ job'[x].pc = "appending" /\ job'[x].frozen \in {job[x].frozen, head}
    <2>1. CASE \E pc \in {"refused", "simulated"} : Go(x, pc)
      BY <2>1, GoMoves DEF Kept, SimPcs, JobFields
    <2>2. CASE \E pc \in {"simulated", "appending"} : \E t : job[x].pc = "simulate" /\ job' = [job EXCEPT ![x].pc = pc, ![x].todo = t]
      <3>0. PICK pc \in {"simulated", "appending"} : \E t : job[x].pc = "simulate" /\ job' = [job EXCEPT ![x].pc = pc, ![x].todo = t]
        BY <2>2
      <3>1. PICK t : job[x].pc = "simulate" /\ job' = [job EXCEPT ![x].pc = pc, ![x].todo = t]
        BY <3>0
      <3>2. Turn(x) /\ Kept(x, {"pc", "todo"}) /\ job'[x].pc = pc
        BY <3>1, PlanMoves
      <3> QED BY <1>0, <3>0, <3>1, <3>2 DEF Kept, SimPcs, JobFields
    <2>3. CASE \E v : job[x].pc = "appending" /\ job' = [job EXCEPT ![x].todo = v]
      <3>1. PICK v : job[x].pc = "appending" /\ job' = [job EXCEPT ![x].todo = v]
        BY <2>3
      <3> DEFINE r == [job[x] EXCEPT !.todo = v]
      <3>2. job' = [job EXCEPT ![x] = r] /\ Rec(job[x], JobFields) /\ Rec(job, Callers)
        BY Zenon, <3>1 DEF Shaped
      <3>3. Rec(r, JobFields) /\ \A f \in JobFields \ {"todo"} : r[f] = job[x][f]
        BY Zenon, <3>2 DEF Rec, JobFields
      <3>4. Turn(x) /\ job'[x] = r
        BY <3>2, <3>3, Replaced
      <3> HIDE DEF r
      <3> QED BY <3>1, <3>3, <3>4 DEF Kept, SimPcs, JobFields
    <2>4. CASE job[x].pc = "appending" /\ job' = [job EXCEPT ![x].frozen = head]
      BY <2>4, FieldMoves DEF Kept, SimPcs, JobFields
    <2>5. CASE \E t : job[x].pc = "appending" /\ job' = [job EXCEPT ![x].todo = t, ![x].frozen = Unset, ![x].expected = Unset]
      BY <2>5, AppendedMoves DEF Kept, SimPcs, JobFields
    <2> QED BY <1>1, <2>1, <2>2, <2>3, <2>4, <2>5
  <1>3. CmdStep(x)
    BY <1>0, <1>2, AtSim
  <1> QED BY <1>0, <1>2, <1>3 DEF Quiet, Holding, Owning, SimPcs

-----------------------------------------------------------------------------
(* The inductive invariant of the model calls.                             *)

(* A call that somebody is in the middle of is open and is its alone; a    *)
(* request that was sent is recorded as started or ended.                  *)
CallInv ==
    /\ sent \in [{r.call : r \in Requests} -> 0 .. 1]
    /\ calls.open \cap calls.closed = {} /\ calls.failed \subseteq calls.closed
    /\ \A c \in DOMAIN sent : sent[c] > 0 => c \in calls.open \cup calls.closed
    /\ \A x \in Callers : job[x].pc \in Holding => job[x].req.call \in calls.open
    /\ \A x \in Callers : job[x].pc \in {"http", "release"} => sent[job[x].req.call] = 0
    /\ \A x, y \in Callers : x # y /\ job[x].pc \in Holding /\ job[y].pc \in Holding
          => job[x].req.call # job[y].req.call

Owned(o) == \E y \in Callers : job[y].pc \in Owning /\ job[y].req.budget = o.budget

(* A reservation that somebody may still close is open and is its alone; a *)
(* paid request that was sent leaves one that nobody owns.                 *)
BudgetInv ==
    /\ \A o, p \in budget.open : o.budget = p.budget => o = p
    /\ \A x \in Callers : job[x].pc \in Owning => Reservation(job[x].req) \in budget.open
    /\ \A x, y \in Callers : x # y /\ job[x].pc \in Owning /\ job[y].pc \in Owning
          => job[x].req.budget # job[y].req.budget
    /\ \A c \in Paid : sent[c] > 0 => \E o \in budget.open : o.call = c /\ ~Owned(o)

(* A draft that was validated at the current head still applies there.     *)
FrozenInv ==
    \A x \in Callers : Frozen(x) =>
        /\ job[x].frozen \in Nat /\ job[x].frozen <= head
        /\ job[x].pc \in AppendPoints /\ job[x].frozen = head => DraftOK(x)

CmdInv == \A x \in Callers : CmdOK(job[x])

ModelInv == Shaped /\ CmdInv /\ CallInv /\ BudgetInv /\ FrozenInv

(* Nobody takes up a call or a reservation that it did not have.           *)
LEMMA CallsUntouched ==
    ASSUME CallInv, NEW x \in Callers, Turn(x), UNCHANGED <<calls, sent>>,
           job'[x].pc \in Holding => job[x].pc \in Holding /\ job'[x].req = job[x].req,
           job'[x].pc \in {"http", "release"} => job[x].pc \in {"http", "release"}
    PROVE  CallInv'
  <1>1. \A y \in Callers : y # x => job'[y] = job[y]
    BY DEF Turn
  <1>2. \A y \in Callers : /\ job'[y].pc \in Holding => job[y].pc \in Holding /\ job'[y].req = job[y].req
                           /\ job'[y].pc \in {"http", "release"} => job[y].pc \in {"http", "release"} /\ job'[y].req = job[y].req
    BY <1>1 DEF Holding
  <1> QED BY <1>2, Zenon DEF CallInv

LEMMA BudgetUntouched ==
    ASSUME BudgetInv, NEW x \in Callers, Turn(x), budget'.open = budget.open, sent' = sent,
           job'[x].pc \in Owning => job[x].pc \in Owning /\ job'[x].req = job[x].req
    PROVE  BudgetInv'
  <1>1. \A y \in Callers : y # x => job'[y] = job[y]
    BY DEF Turn
  <1>2. \A y \in Callers : job'[y].pc \in Owning => job[y].pc \in Owning /\ job'[y].req = job[y].req
    BY <1>1
  <1>3. ASSUME NEW c \in Paid, sent'[c] > 0
        PROVE  \E o \in budget'.open : o.call = c /\ ~Owned(o)'
    <2>1. PICK o \in budget.open : o.call = c /\ ~Owned(o)
      BY <1>3 DEF BudgetInv
    <2>2. ~Owned(o)'
      BY <1>2, <2>1, Zenon DEF Owned
    <2> QED BY <2>1, <2>2
  <1>4. \A y \in Callers : job'[y].pc \in Owning => Reservation(job'[y].req) \in budget'.open
    BY <1>2 DEF BudgetInv
  <1>5. \A y, z \in Callers : y # z /\ job'[y].pc \in Owning /\ job'[z].pc \in Owning
           => job'[y].req.budget # job'[z].req.budget
    BY <1>2 DEF BudgetInv
  <1> QED BY <1>3, <1>4, <1>5 DEF BudgetInv

LEMMA NothingTaken ==
    ASSUME CallInv, BudgetInv, NEW x \in Callers, Turn(x), UNCHANGED <<budget, calls, sent>>,
           job'[x].pc \in Holding => job[x].pc \in Holding,
           job'[x].pc \in Owning => job[x].pc \in Owning,
           job'[x].pc \in {"http", "release"} => job[x].pc \in {"http", "release"},
           job'[x].pc \in Holding \cup Owning => job'[x].req = job[x].req
    PROVE  CallInv' /\ BudgetInv'
  BY CallsUntouched, BudgetUntouched

(* The others' frozen drafts survive a step.                               *)
LEMMA OthersFrozen ==
    ASSUME Shaped, FrozenInv, NEW y \in Callers, job'[y] = job[y],
           \/ head' = head + 1
           \/ UNCHANGED <<head, budget, calls>>
    PROVE  Frozen(y)' => /\ job'[y].frozen \in Nat /\ job'[y].frozen <= head'
                         /\ job'[y].pc \in AppendPoints /\ job'[y].frozen = head' => DraftOK(y)'
  <1>1. CASE head' = head + 1
    BY <1>1 DEF Shaped, FrozenInv, Frozen
  <1>2. CASE UNCHANGED <<head, budget, calls>>
    <2>1. DraftOK(y)' <=> DraftOK(y)
      BY <1>2 DEF DraftOK
    <2> QED BY <1>2, <2>1 DEF FrozenInv, Frozen
  <1> QED BY <1>1, <1>2

(* A step of x that leaves budget and calls alone.                         *)
LEMMA QuietKeeps ==
    ASSUME ModelInv, NEW x \in Callers, CmdStep(x), Quiet(x), load' = load
    PROVE  ModelInv'
  <1>1. CallInv' /\ BudgetInv'
    BY NothingTaken DEF ModelInv, CmdStep, Quiet, Holding
  <1>2. CmdInv'
    BY DEF ModelInv, CmdInv, CmdStep, Turn
  <1>3. Shaped'
    BY DEF ModelInv, Shaped, CmdStep, Turn, Quiet
  <1>4. FrozenInv'
    <2> SUFFICES ASSUME NEW y \in Callers, Frozen(y)'
                 PROVE  /\ job'[y].frozen \in Nat /\ job'[y].frozen <= head'
                        /\ job'[y].pc \in AppendPoints /\ job'[y].frozen = head' => DraftOK(y)'
      BY Zenon DEF FrozenInv
    <2>1. head' = head + 1 \/ UNCHANGED <<head, budget, calls>>
      BY DEF Quiet
    <2>2. CASE y # x
      BY <2>1, <2>2, OthersFrozen DEF ModelInv, CmdStep, Turn
    <2>3. CASE y = x
      <3>1. job'[x].pc = "appending" /\ job'[x].frozen \in {job[x].frozen, head} /\ job'[x].frozen # Unset
        BY <2>3 DEF Quiet, Frozen
      <3>2. job'[x].frozen \in Nat /\ job'[x].frozen <= head
        BY <3>1 DEF ModelInv, FrozenInv, Frozen, Shaped
      <3> QED BY <2>1, <2>3, <3>1, <3>2 DEF AppendPoints, ModelInv, Shaped
    <2> QED BY <2>2, <2>3
  <1> QED BY <1>1, <1>2, <1>3, <1>4 DEF ModelInv

(* What every step of a call keeps.                                        *)
LEMMA CallRest ==
    ASSUME ModelInv, NEW x \in Callers, CmdStep(x), load' = load,
           Rec(budget', BudgetFields), Rec(calls', CallFields),
           head' = head + 1 \/ UNCHANGED <<head, budget, calls>>,
           \/ job'[x].frozen = Unset
           \/ UNCHANGED <<head, budget, calls>> /\ job'[x].frozen = head /\ DraftOK(x)'
    PROVE  Shaped' /\ CmdInv' /\ FrozenInv'
  <1>1. CmdInv'
    BY DEF ModelInv, CmdInv, CmdStep, Turn
  <1>2. Shaped'
    BY DEF ModelInv, Shaped, CmdStep, Turn
  <1>3. FrozenInv'
    <2> SUFFICES ASSUME NEW y \in Callers, Frozen(y)'
                 PROVE  /\ job'[y].frozen \in Nat /\ job'[y].frozen <= head'
                        /\ job'[y].pc \in AppendPoints /\ job'[y].frozen = head' => DraftOK(y)'
      BY Zenon DEF FrozenInv
    <2>1. CASE y # x
      BY <2>1, OthersFrozen DEF ModelInv, CmdStep, Turn
    <2>2. CASE y = x
      BY <2>2 DEF ModelInv, Shaped, Frozen
    <2> QED BY <2>1, <2>2
  <1> QED BY <1>1, <1>2, <1>3

(* A refused or conflicting append.                                        *)
LEMMA ErrorKeeps ==
    ASSUME ModelInv, NEW x \in Callers, job[x].pc \in AppendPoints, OnError(x),
           UNCHANGED <<head, budget, calls, sent, load>>
    PROVE  ModelInv'
  <1> DEFINE to == IF job[x].pc = "start" THEN "undo" ELSE "raised"
  <1>1. /\ Turn(x) /\ Kept(x, {"pc", "frozen"}) /\ job'[x].pc = to /\ job'[x].frozen = Unset
    BY GoMoves DEF ModelInv, OnError
  <1>2. CmdStep(x) /\ job'[x].req = job[x].req
    BY <1>1, AtModel DEF ModelInv, CmdInv, ModelPcs, AppendPoints
  <1>3. CallInv' /\ BudgetInv'
    BY <1>1, <1>2, NothingTaken DEF ModelInv, CmdStep, Holding, Owning
  <1>4. Shaped' /\ CmdInv' /\ FrozenInv'
    BY <1>1, <1>2, CallRest DEF ModelInv, Shaped
  <1> QED BY <1>3, <1>4 DEF ModelInv

LEMMA FreezeKeeps ==
    ASSUME ModelInv, NEW x \in Callers, Freeze(x), load' = load
    PROVE  ModelInv'
  <1> DEFINE r == job[x].req
             over == /\ job[x].pc = "reserve" /\ CanExceed(budget, r)
                     /\ WouldExceed(budget, r.amount, r.cap)
             to == IF over THEN "exceed" ELSE job[x].pc
  <1>1. job[x].pc \in AppendPoints /\ UNCHANGED <<head, budget, calls, sent>>
    BY DEF Freeze, callVars
  <1>2. CASE OnError(x)
    BY <1>1, <1>2, ErrorKeeps
  <1>3. CASE ~OnError(x)
    <2>1. (DraftOK(x) \/ over) /\ job' = [job EXCEPT ![x].frozen = head, ![x].pc = to]
      BY <1>3 DEF Freeze
    <2> HIDE DEF to
    <2>2. Turn(x) /\ Kept(x, {"frozen", "pc"}) /\ job'[x].frozen = head /\ job'[x].pc = to
      BY <2>1, FreezeMoves DEF ModelInv
    <2>3. to \in AppendPoints /\ (to = job[x].pc \/ to = "exceed")
      BY <1>1 DEF to, AppendPoints
    <2>4. CmdStep(x) /\ job'[x].req = job[x].req
      BY <1>1, <2>2, <2>3, AtModel DEF ModelInv, CmdInv, ModelPcs, Kept, JobFields
    <2>5. DraftOK(x)'
      <3>1. CASE over
        BY <1>1, <2>2, <2>4, <3>1 DEF to, DraftOK
      <3>2. CASE ~over
        <4>1. job'[x].pc = job[x].pc /\ DraftOK(x)
          BY <2>1, <2>2, <3>2 DEF to
        <4> QED BY <1>1, <2>4, <4>1 DEF DraftOK
      <3> QED BY <3>1, <3>2
    <2>6. CallInv' /\ BudgetInv'
      BY <1>1, <2>2, <2>3, <2>4, NothingTaken DEF ModelInv, CmdStep, Holding, Owning
    <2>7. Shaped' /\ CmdInv' /\ FrozenInv'
      BY <1>1, <2>2, <2>4, <2>5, CallRest DEF ModelInv, Shaped
    <2> QED BY <2>6, <2>7 DEF ModelInv
  <1> QED BY <1>2, <1>3

(* Whose request a call carries.                                           *)
LEMMA CallRequest ==
    ASSUME CmdInv, NEW x \in Callers, job[x].pc \in ModelPcs
    PROVE  job[x].req \in Requests
  <1>1. job[x].cmd \in Commands /\ job[x].cmd.op \in {"model", "cli"} /\ job[x].req = job[x].cmd.input
    BY DEF CmdInv, CmdOK, ModelPcs, AppendPoints
  <1> QED BY <1>1 DEF Requests

LEMMA HttpKeeps ==
    ASSUME ModelInv, NEW x \in Callers, load' = load,
           HttpAnswered(x) \/ HttpUnsent(x) \/ HttpUncertain(x) \/ HttpUnusable(x)
    PROVE  ModelInv'
  <1> DEFINE r == job[x].req
  <1>1. job[x].pc = "http" /\ UNCHANGED <<head, budget, calls>>
    BY DEF HttpAnswered, HttpUnsent, HttpUncertain, HttpUnusable, callVars
  <1>2. PICK to : /\ Go(x, to)
                  /\ \/ to = "release" /\ sent' = sent
                     \/ to = "consume" /\ r.kind = "local" /\ Sends(x)
                     \/ to \in {"complete", "fail", "raised"} /\ Sends(x)
    BY DEF HttpAnswered, HttpUnsent, HttpUncertain, HttpUnusable, callVars
  <1>3. Turn(x) /\ Kept(x, {"pc", "frozen"}) /\ job'[x].pc = to /\ job'[x].frozen = Unset
    BY <1>2, GoMoves DEF ModelInv
  <1>4. CmdStep(x) /\ job'[x].req = r
    BY <1>1, <1>2, <1>3, AtModel DEF ModelInv, CmdInv, ModelPcs, AppendPoints
  <1>5. Shaped' /\ CmdInv' /\ FrozenInv'
    BY <1>1, <1>3, <1>4, CallRest DEF ModelInv, Shaped
  <1>6. CASE to = "release" /\ sent' = sent
    BY <1>1, <1>3, <1>4, <1>5, <1>6, NothingTaken DEF ModelInv, CmdStep, Holding, Owning
  <1>7. CASE Sends(x) /\ (to \in {"complete", "fail", "raised"} \/ (to = "consume" /\ r.kind = "local"))
    <2>1. r \in Requests
      BY <1>1, CallRequest DEF ModelInv, ModelPcs
    <2>2. /\ sent \in [{q.call : q \in Requests} -> 0 .. 1] /\ r.call \in DOMAIN sent /\ sent[r.call] = 0
          /\ r.call \in calls.open /\ Reservation(r) \in budget.open
      BY <1>1, <2>1 DEF ModelInv, CallInv, BudgetInv, Holding, Owning
    <2>3. /\ sent' \in [{q.call : q \in Requests} -> 0 .. 1] /\ sent'[r.call] = 1
          /\ \A c \in DOMAIN sent : c # r.call => sent'[c] = sent[c]
          /\ DOMAIN sent' = DOMAIN sent
      BY <1>7, <2>2 DEF Sends
    <2>4. \A y \in Callers : y # x => /\ job'[y] = job[y]
                                      /\ job[y].pc \in Holding => job[y].req.call # r.call
                                      /\ job[y].pc \in Owning => job[y].req.budget # r.budget
      BY <1>1, <1>3 DEF Turn, ModelInv, CallInv, BudgetInv, Holding, Owning
    <2>5. CallInv'
      <3>1. \A c \in DOMAIN sent' : sent'[c] > 0 => c \in calls'.open \cup calls'.closed
        BY <1>1, <2>2, <2>3 DEF ModelInv, CallInv
      <3>2. \A y \in Callers : job'[y].pc \in {"http", "release"} => sent'[job'[y].req.call] = 0
        <4> SUFFICES ASSUME NEW y \in Callers, job'[y].pc \in {"http", "release"} PROVE sent'[job'[y].req.call] = 0
          OBVIOUS
        <4>1. y # x /\ job'[y] = job[y]
          BY <1>3, <1>7, <2>4
        <4>2. job[y].req.call # r.call /\ sent[job[y].req.call] = 0 /\ job[y].req \in Requests
          BY <2>4, <4>1, CallRequest DEF ModelInv, CallInv, Holding, ModelPcs, AppendPoints
        <4> QED BY <2>2, <2>3, <4>1, <4>2
      <3>3. \A y \in Callers : job'[y].pc \in Holding => job'[y].req.call \in calls'.open
        BY <1>1, <1>4, <2>2, <2>4 DEF ModelInv, CallInv
      <3>4. \A y, z \in Callers : y # z /\ job'[y].pc \in Holding /\ job'[z].pc \in Holding
               => job'[y].req.call # job'[z].req.call
        BY <1>4, <2>4 DEF ModelInv, CallInv
      <3> QED BY <1>1, <2>3, <3>1, <3>2, <3>3, <3>4 DEF ModelInv, CallInv
    <2>6. BudgetInv'
      <3>1. \A y \in Callers : job'[y].pc \in Owning => Reservation(job'[y].req) \in budget'.open
        BY <1>1, <1>4, <2>2, <2>4 DEF ModelInv, BudgetInv
      <3>2. \A y, z \in Callers : y # z /\ job'[y].pc \in Owning /\ job'[z].pc \in Owning
               => job'[y].req.budget # job'[z].req.budget
        BY <1>4, <2>4 DEF ModelInv, BudgetInv
      <3>3. ASSUME NEW c \in Paid, sent'[c] > 0
            PROVE  \E o \in budget'.open : o.call = c /\ ~Owned(o)'
        <4>1. CASE c = r.call
          <5>1. r.kind = "remote"
            BY <2>1, <4>1 DEF Paid
          <5>2. job'[x].pc \notin Owning
            BY <1>3, <1>7, <5>1 DEF Owning
          <5>3. PICK o \in budget.open : o.budget = r.budget /\ o.call = c
            BY <2>2, <4>1 DEF Reservation
          <5>4. ~Owned(o)'
            BY <2>4, <5>2, <5>3 DEF Owned
          <5> QED BY <1>1, <5>3, <5>4
        <4>2. CASE c # r.call
          <5>1. sent[c] > 0
            BY <2>2, <2>3, <3>3, <4>2 DEF Paid
          <5>2. PICK o \in budget.open : o.call = c /\ ~Owned(o)
            BY <5>1 DEF ModelInv, BudgetInv
          <5>3. ~Owned(o)'
            <6>1. o.budget # r.budget
              BY <1>1, <5>2 DEF Owned, Owning
            <6> QED BY <1>4, <2>4, <5>2, <6>1 DEF Owned
          <5> QED BY <1>1, <5>2, <5>3
        <4> QED BY <4>1, <4>2
      <3> QED BY <1>1, <3>1, <3>2, <3>3 DEF ModelInv, BudgetInv
    <2> QED BY <1>5, <2>5, <2>6 DEF ModelInv
  <1> QED BY <1>2, <1>6, <1>7

(* A start that applies is of a call nobody has begun.                     *)
LEMMA StartKeeps ==
    ASSUME ModelInv, NEW x \in Callers, job[x].pc \in {"start", "mock"}, CanStart(calls, job[x].req),
           calls' = Started(calls, job[x].req), sent' = sent, Turn(x), job'[x].req = job[x].req,
           job'[x].pc \in {"http", "complete"}
    PROVE  CallInv' /\ Rec(calls', CallFields)
  <1> DEFINE r == job[x].req
  <1>1. /\ calls'.open = calls.open \cup {r.call} /\ calls'.closed = calls.closed
        /\ calls'.failed = calls.failed /\ Rec(calls', CallFields)
    BY DEF Started, ModelInv, Shaped, Rec, CallFields
  <1>2. r.call \notin calls.open /\ r.call \notin calls.closed
    BY DEF CanStart
  <1>3. \A y \in Callers : y # x => job'[y] = job[y]
    BY DEF Turn
  <1>4. r \in Requests
    BY CallRequest DEF ModelInv, ModelPcs, AppendPoints
  <1>5. sent[r.call] = 0
    BY <1>2, <1>4 DEF ModelInv, CallInv
  <1>6. \A y \in Callers : job'[y].pc \in Holding => job'[y].req.call \in calls'.open
    BY <1>1, <1>3 DEF ModelInv, CallInv
  <1>7. \A y \in Callers : job'[y].pc \in {"http", "release"} => sent'[job'[y].req.call] = 0
    BY <1>3, <1>5 DEF ModelInv, CallInv
  <1>8. \A y \in Callers : y # x /\ job[y].pc \in Holding => job[y].req.call # r.call
    BY <1>2 DEF ModelInv, CallInv
  <1>9. \A y, z \in Callers : y # z /\ job'[y].pc \in Holding /\ job'[z].pc \in Holding
           => job'[y].req.call # job'[z].req.call
    BY <1>3, <1>8 DEF ModelInv, CallInv
  <1> QED BY <1>1, <1>2, <1>6, <1>7, <1>9 DEF ModelInv, CallInv

(* A call that ends was somebody's alone.                                  *)
LEMMA EndKeeps ==
    ASSUME ModelInv, NEW x \in Callers, job[x].pc \in {"fail", "complete"},
           calls' \in {Ended(calls, job[x].req), Failed(calls, job[x].req)}, sent' = sent, Turn(x),
           job'[x].pc \in {"raised", "returned"}
    PROVE  CallInv' /\ Rec(calls', CallFields)
  <1> DEFINE r == job[x].req
  <1>1. /\ calls'.open = calls.open \ {r.call} /\ calls'.closed = calls.closed \cup {r.call}
        /\ calls'.failed \in {calls.failed, calls.failed \cup {r.call}} /\ Rec(calls', CallFields)
    BY DEF Ended, Failed, ModelInv, Shaped, Rec, CallFields
  <1>2. \A y \in Callers : y # x => job'[y] = job[y]
    BY DEF Turn
  <1>3. job'[x].pc \notin Holding /\ job[x].pc \in Holding
    BY DEF Holding
  <1>4. \A y \in Callers : job'[y].pc \in Holding => y # x /\ job[y].req.call # r.call
    BY <1>2, <1>3 DEF ModelInv, CallInv
  <1>5. \A y \in Callers : job'[y].pc \in Holding => job'[y].req.call \in calls'.open
    BY <1>1, <1>2, <1>4 DEF ModelInv, CallInv
  <1>6. \A y \in Callers : job'[y].pc \in {"http", "release"} => sent'[job'[y].req.call] = 0
    BY <1>2, <1>3 DEF ModelInv, CallInv
  <1>7. \A y, z \in Callers : y # z /\ job'[y].pc \in Holding /\ job'[z].pc \in Holding
           => job'[y].req.call # job'[z].req.call
    BY <1>2, <1>4 DEF ModelInv, CallInv
  <1> QED BY <1>1, <1>5, <1>6, <1>7 DEF ModelInv, CallInv

(* A reservation gets an identity nobody has used.                         *)
LEMMA ReserveKeeps ==
    ASSUME ModelInv, NEW x \in Callers, job[x].pc = "reserve", CanReserve(budget, job[x].req),
           budget' = Reserved(budget, job[x].req), sent' = sent, Turn(x), job'[x].req = job[x].req,
           job'[x].pc = "start"
    PROVE  BudgetInv' /\ Rec(budget', BudgetFields)
  <1> DEFINE r == job[x].req
  <1>1. budget'.open = budget.open \cup {Reservation(r)} /\ Rec(budget', BudgetFields)
    BY DEF Reserved, ModelInv, Shaped, Rec, BudgetFields
  <1>2. Reservation(r).budget = r.budget /\ \A o \in budget.open : o.budget # r.budget
    BY DEF CanReserve, KnownIds, Reservation
  <1>3. \A y \in Callers : y # x => job'[y] = job[y]
    BY DEF Turn
  <1>4. \A y \in Callers : y # x /\ job[y].pc \in Owning => job[y].req.budget # r.budget
    <2>1. \A y \in Callers : job[y].pc \in Owning => Reservation(job[y].req) \in budget.open
      BY DEF ModelInv, BudgetInv
    <2>2. \A q : Reservation(q).budget = q.budget
      BY DEF Reservation
    <2> QED BY <1>2, <2>1, <2>2
  <1>5. \A o, p \in budget'.open : o.budget = p.budget => o = p
    BY <1>1, <1>2 DEF ModelInv, BudgetInv
  <1>6. \A y \in Callers : job'[y].pc \in Owning => Reservation(job'[y].req) \in budget'.open
    BY <1>1, <1>3 DEF ModelInv, BudgetInv
  <1>7. \A y, z \in Callers : y # z /\ job'[y].pc \in Owning /\ job'[z].pc \in Owning
           => job'[y].req.budget # job'[z].req.budget
    BY <1>3, <1>4 DEF ModelInv, BudgetInv
  <1>8. ASSUME NEW c \in Paid, sent'[c] > 0
        PROVE  \E o \in budget'.open : o.call = c /\ ~Owned(o)'
    <2>1. PICK o \in budget.open : o.call = c /\ ~Owned(o)
      BY <1>8 DEF ModelInv, BudgetInv
    <2>2. ~Owned(o)'
      BY <1>2, <1>3, <2>1 DEF Owned
    <2> QED BY <1>1, <2>1, <2>2
  <1> QED BY <1>1, <1>5, <1>6, <1>7, <1>8 DEF BudgetInv

(* Only its owner closes a reservation.                                    *)
LEMMA CloseKeeps ==
    ASSUME ModelInv, NEW x \in Callers, job[x].pc \in {"undo", "release", "consume"}, NEW spent,
           budget' = Closed(budget, job[x].req, spent), sent' = sent, Turn(x), job'[x].pc \notin Owning
    PROVE  BudgetInv' /\ Rec(budget', BudgetFields)
  <1> DEFINE r == job[x].req
  <1>1. budget'.open = {o \in budget.open : o.budget # r.budget} /\ Rec(budget', BudgetFields)
    BY DEF Closed, ModelInv, Shaped, Rec, BudgetFields
  <1>2. \A y \in Callers : y # x => job'[y] = job[y]
    BY DEF Turn
  <1>3. \A y \in Callers : job'[y].pc \in Owning => y # x /\ job[y].req.budget # r.budget
    BY <1>2 DEF ModelInv, BudgetInv, Owning
  <1>4. \A y \in Callers : job'[y].pc \in Owning => Reservation(job'[y].req) \in budget'.open
    BY <1>1, <1>2, <1>3 DEF ModelInv, BudgetInv, Reservation
  <1>5. \A y, z \in Callers : y # z /\ job'[y].pc \in Owning /\ job'[z].pc \in Owning
           => job'[y].req.budget # job'[z].req.budget
    BY <1>2, <1>3 DEF ModelInv, BudgetInv
  <1>6. ASSUME NEW c \in Paid, sent'[c] > 0
        PROVE  \E o \in budget'.open : o.call = c /\ ~Owned(o)'
    <2>1. PICK o \in budget.open : o.call = c /\ ~Owned(o)
      BY <1>6 DEF ModelInv, BudgetInv
    <2>2. o.budget # r.budget
      BY <2>1 DEF Owned, Owning
    <2>3. ~Owned(o)'
      BY <1>2, <1>3, <2>1 DEF Owned
    <2> QED BY <1>1, <2>1, <2>2, <2>3
  <1> QED BY <1>1, <1>4, <1>5, <1>6 DEF ModelInv, BudgetInv

LEMMA CommitKeeps ==
    ASSUME ModelInv, NEW x \in Callers, Commit(x), load' = load
    PROVE  ModelInv'
  <1> DEFINE r == job[x].req
             p == job[x].pc
             to == After(x)
  <1>1. /\ p \in AppendPoints /\ head' = head + 1 /\ sent' = sent
        /\ budget' = NextBudget(x) /\ calls' = NextCalls(x) /\ Go(x, to)
    BY DEF Commit
  <1>2. DraftOK(x)
    BY DEF Commit, AppendHead, ModelInv, FrozenInv
  <1>3. Turn(x) /\ Kept(x, {"pc", "frozen"}) /\ job'[x].pc = to /\ job'[x].frozen = Unset
    BY <1>1, GoMoves DEF ModelInv
  <1>4. to \in {"start", "http", "fail", "complete", "returned", "raised"}
    BY DEF After
  <1>5. CmdStep(x) /\ job'[x].req = r
    BY <1>1, <1>3, <1>4, AtModel DEF ModelInv, CmdInv, ModelPcs, AppendPoints
  <1>6. Rec(budget, BudgetFields) /\ Rec(calls, CallFields) /\ Shaped /\ CallInv /\ BudgetInv
    BY DEF ModelInv, Shaped
  <1> SUFFICES /\ CallInv' /\ BudgetInv'
               /\ Rec(budget', BudgetFields) /\ Rec(calls', CallFields)
    <2>1. Shaped' /\ CmdInv' /\ FrozenInv'
      BY <1>1, <1>3, <1>5, CallRest
    <2> QED BY <2>1 DEF ModelInv
  <1>7. CASE p = "reserve"
    <2>1. budget' = Reserved(budget, r) /\ calls' = calls /\ to = "start" /\ CanReserve(budget, r)
      BY <1>1, <1>2, <1>7 DEF NextBudget, NextCalls, After, DraftOK
    <2>2. BudgetInv' /\ Rec(budget', BudgetFields)
      BY <1>1, <1>3, <1>5, <1>7, <2>1, ReserveKeeps
    <2>3. CallInv'
      BY <1>1, <1>3, <1>6, <1>7, <2>1, CallsUntouched DEF Holding
    <2> QED BY <1>6, <2>1, <2>2, <2>3
  <1>8. CASE p = "exceed"
    <2>1. budget' = Exceeded(budget, r) /\ calls' = calls /\ to = "raised"
      BY <1>1, <1>8 DEF NextBudget, NextCalls, After
    <2>2. budget'.open = budget.open /\ Rec(budget', BudgetFields)
      BY <1>6, <2>1 DEF Exceeded, Rec, BudgetFields
    <2>3. CallInv' /\ BudgetInv'
      BY <1>1, <1>3, <1>6, <1>8, <2>1, <2>2, CallsUntouched, BudgetUntouched DEF Holding, Owning
    <2> QED BY <1>6, <2>1, <2>2, <2>3
  <1>9. CASE p \in {"start", "mock"}
    <2>1. /\ calls' = Started(calls, r) /\ budget' = budget /\ CanStart(calls, r)
          /\ to = IF p = "start" THEN "http" ELSE "complete"
      BY <1>1, <1>2, <1>9 DEF NextBudget, NextCalls, After, DraftOK
    <2>2. CallInv' /\ Rec(calls', CallFields)
      BY <1>1, <1>3, <1>5, <1>9, <2>1, StartKeeps
    <2>3. BudgetInv'
      BY <1>1, <1>3, <1>5, <1>6, <1>9, <2>1, BudgetUntouched DEF Owning
    <2> QED BY <1>6, <2>1, <2>2, <2>3
  <1>10. CASE p \in {"undo", "release", "consume"}
    <2>1. /\ calls' = calls /\ \E spent : budget' = Closed(budget, r, spent)
          /\ to = CASE p = "release" -> "fail" [] p = "consume" -> "complete" [] OTHER -> "raised"
      BY <1>1, <1>10 DEF NextBudget, NextCalls, After
    <2>2. to \in {"fail", "complete", "raised"} /\ (p = "undo" => to = "raised")
      BY <1>10, <2>1
    <2>3. BudgetInv' /\ Rec(budget', BudgetFields)
      BY <1>1, <1>3, <1>10, <2>1, <2>2, CloseKeeps DEF Owning
    <2>4. CallInv'
      BY <1>1, <1>3, <1>5, <1>6, <1>10, <2>1, <2>2, CallsUntouched DEF Holding
    <2> QED BY <1>6, <2>1, <2>3, <2>4
  <1>11. CASE p \in {"fail", "complete"}
    <2>1. /\ calls' \in {Ended(calls, r), Failed(calls, r)} /\ budget' = budget
          /\ to \in {"raised", "returned"}
      BY <1>1, <1>11 DEF NextBudget, NextCalls, After
    <2>2. CallInv' /\ Rec(calls', CallFields)
      BY <1>1, <1>3, <1>11, <2>1, EndKeeps
    <2>3. BudgetInv'
      BY <1>1, <1>3, <1>6, <1>11, <2>1, BudgetUntouched DEF Owning
    <2> QED BY <1>6, <2>1, <2>2, <2>3
  <1> QED BY <1>1, <1>7, <1>8, <1>9, <1>10, <1>11 DEF AppendPoints

LEMMA ModelStepKeeps ==
    ASSUME ModelInv, NEW x \in Callers, ModelStep(x)
    PROVE  ModelInv'
  <1>1. load' = load
    BY DEF ModelStep, serviceVars
  <1>2. CASE Conflict(x)
    BY <1>1, <1>2, ErrorKeeps DEF Conflict, callVars
  <1> QED BY <1>1, <1>2, FreezeKeeps, CommitKeeps, HttpKeeps DEF ModelStep, Generate

(* The processes outside the service.                                      *)
LEMMA OutsideKeeps ==
    ASSUME ModelInv, job' = job, load' = load, UNCHANGED <<calls, sent>>,
           budget'.open = budget.open, Rec(budget', BudgetFields),
           head' = head + 1 \/ UNCHANGED <<head, budget>>
    PROVE  ModelInv'
  <1>1. CallInv'
    BY DEF ModelInv, CallInv
  <1>2. BudgetInv'
    <2>1. \A o : Owned(o)' <=> Owned(o)
      BY DEF Owned
    <2> QED BY <2>1 DEF ModelInv, BudgetInv
  <1>3. Shaped' /\ CmdInv'
    BY DEF ModelInv, Shaped, CmdInv
  <1>4. FrozenInv'
    <2> SUFFICES ASSUME NEW y \in Callers, Frozen(y)'
                 PROVE  /\ job'[y].frozen \in Nat /\ job'[y].frozen <= head'
                        /\ job'[y].pc \in AppendPoints /\ job'[y].frozen = head' => DraftOK(y)'
      BY Zenon DEF FrozenInv
    <2> QED BY OthersFrozen DEF ModelInv
  <1> QED BY <1>1, <1>2, <1>3, <1>4 DEF ModelInv

LEMMA ClientKeeps ==
    ASSUME ModelInv, NEW x \in Callers, ClientStep(x) \/ Crash(x)
    PROVE  ModelInv' /\ CmdStep(x)
  <1>0. Shaped /\ CmdOK(job[x])
    BY DEF ModelInv, CmdInv
  <1>1. CASE ModelStep(x)
    <2>1. ModelInv'
      BY <1>1, ModelStepKeeps
    <2>2. Turn(x)
      <3>1. Shaped
        BY <1>0
      <3>2. CASE \E pc : Go(x, pc)
        BY <3>1, <3>2, GoMoves
      <3>3. CASE \E pc : job' = [job EXCEPT ![x].frozen = head, ![x].pc = pc]
        BY <3>1, <3>3, FreezeMoves
      <3> QED BY <1>1, <3>2, <3>3 DEF ModelStep, Generate, Freeze, Commit, Conflict, OnError,
              HttpAnswered, HttpUnsent, HttpUncertain, HttpUnusable
    <2> QED BY <2>1, <2>2 DEF CmdStep, ModelInv, CmdInv
  <1>2. CASE ~ModelStep(x)
    <2>1. CmdStep(x) /\ Quiet(x)
      BY <1>0, <1>2, FactStepKeeps, OperationKeeps, SimKeeps, IssueKeeps, CliKeeps
         DEF ClientStep, OperationStep
    <2>2. load' = load
      BY <1>2 DEF ClientStep, FactStep, OperationStep, Lookup, CheckHead, PrepareFact, AppendFact, AppendRefused,
              AppendReceipt, ReserveEffect, Dispatch, DispatchFails, GenerateEnds, ObserveModel, SimulateStep,
              SimulateEnds, Evaluate, PlanStep, Issue, CliCall, Crash, serviceVars
    <2> QED BY <2>1, <2>2, QuietKeeps
  <1> QED BY <1>1, <1>2

LEMMA ModelInductive ==
    ASSUME ModelInv, [Next]_vars
    PROVE  ModelInv'
  <1>0. Rec(budget, BudgetFields)
    BY DEF ModelInv, Shaped
  <1>1. ASSUME NEW x \in Callers, ClientStep(x) \/ Crash(x) PROVE ModelInv'
    BY <1>1, ClientKeeps
  <1>2. ASSUME NEW cap \in Limits, RecordLimit(cap), UNCHANGED <<simVars, serviceVars>> PROVE ModelInv'
    <2>1. budget'.open = budget.open /\ Rec(budget', BudgetFields)
      BY <1>0, <1>2 DEF RecordLimit, Limited, Rec, BudgetFields
    <2> QED BY <1>2, <2>1, OutsideKeeps DEF RecordLimit, serviceVars
  <1>3. CASE OtherWriter
    BY <1>0, <1>3, OutsideKeeps DEF OtherWriter, RunFact
  <1>4. CASE Authorization
    BY <1>0, <1>4, OutsideKeeps DEF Authorization, RecordAuthorization, callVars, serviceVars
  <1>5. CASE EditMaterial
    BY <1>0, <1>5, OutsideKeeps DEF EditMaterial, callVars
  <1>6. CASE UNCHANGED vars
    BY <1>0, <1>6, OutsideKeeps DEF vars, callVars, serviceVars
  <1> QED BY <1>1, <1>2, <1>3, <1>4, <1>5, <1>6 DEF Next

LEMMA ModelStarts ==
    ASSUME Init
    PROVE  ModelInv
  <1>1. /\ Rec(job, Callers) /\ \A x \in Callers : job[x] = Idle
    BY DEF Init, Rec
  <1>2. Shaped
    BY <1>1, IdleShape, WorkloadsAssumption DEF Init, Shaped, Rec, EmptyBudget, BudgetFields, EmptyCalls, CallFields
  <1>3. CmdInv /\ FrozenInv
    BY <1>1, IdleOK, IdleShape DEF CmdInv, FrozenInv, Frozen
  <1>4. CallInv /\ BudgetInv
    BY <1>1, IdleShape DEF Init, CallInv, BudgetInv, EmptyBudget, EmptyCalls, Holding, Owning, Paid
  <1> QED BY <1>2, <1>3, <1>4 DEF ModelInv

(* The money of a remote request that may have left is never released,     *)
(* whatever callers race, fail, conflict or crash.                         *)
THEOREM ReservationKept == Spec => []UncertainStaysReserved
  <1>1. Init => ModelInv
    BY ModelStarts
  <1>2. ModelInv /\ [Next]_vars => ModelInv'
    BY ModelInductive
  <1>3. ModelInv => UncertainStaysReserved
    BY DEF ModelInv, BudgetInv, UncertainStaysReserved, SentStaysReserved
  <1> QED BY <1>1, <1>2, <1>3, PTL DEF Spec

-----------------------------------------------------------------------------
(* The money that is reserved.                                             *)

(* The element that a fold over s takes next.                              *)
Pick(s) == CHOOSE o \in s : TRUE

(* The sum over the subsets of D, as an equation.                          *)
Sums(g, D) ==
    g = [s \in SUBSET D |-> IF s = {} THEN 0 ELSE Pick(s).amount + g[s \ {Pick(s)}]]

(* The fold takes an element of the set, and one fewer is left.            *)
LEMMA PickIn ==
    ASSUME NEW s, s # {}
    PROVE  Pick(s) \in s
  BY DEF Pick

LEMMA Fewer ==
    ASSUME NEW s, IsFiniteSet(s), NEW o \in s
    PROVE  /\ IsFiniteSet(s \ {o}) /\ Cardinality(s) \in Nat \ {0}
           /\ Cardinality(s \ {o}) = Cardinality(s) - 1
  <1>1. IsFiniteSet(s \ {o}) /\ Cardinality(s \ {o}) = Cardinality(s) - 1
    BY FS_RemoveElement
  <1>2. Cardinality(s) \in Nat /\ Cardinality(s \ {o}) \in Nat
    BY <1>1, FS_CardinalityType
  <1> QED BY <1>1, <1>2

(* The equation has a solution: its least failing size has none.           *)
LEMMA SumsExist ==
    ASSUME NEW D, IsFiniteSet(D)
    PROVE  \E g : Sums(g, D)
  <1> DEFINE Level(n) == {s \in SUBSET D : Cardinality(s) <= n}
             Summed(g, n) == g = [s \in Level(n) |-> IF s = {} THEN 0 ELSE Pick(s).amount + g[s \ {Pick(s)}]]
             Bad == {n \in Nat : ~ \E g : Summed(g, n)}
  <1>0. \A s \in SUBSET D : IsFiniteSet(s) /\ Cardinality(s) \in Nat /\ Cardinality(s) <= Cardinality(D)
    BY FS_Subset, FS_CardinalityType
  <1>1. Bad = {}
    <2> SUFFICES ASSUME Bad # {} PROVE FALSE
      OBVIOUS
    <2>1. PICK k \in Bad : \A j \in Bad : k <= j
      BY LeastNatural
    <2>2. CASE k = 0
      <3> DEFINE g == [s \in Level(0) |-> 0]
      <3>1. \A s \in Level(0) : s = {}
        BY <1>0, FS_EmptySet
      <3>2. Summed(g, 0)
        BY <3>1
      <3> QED BY <2>1, <2>2, <3>2
    <2>3. CASE k # 0
      <3>1. k - 1 \in Nat /\ k - 1 \notin Bad
        <4>1. k \in Nat
          OBVIOUS
        <4> HIDE DEF Bad
        <4> QED BY <2>1, <2>3, <4>1
      <3>2. PICK f : Summed(f, k - 1)
        BY <3>1
      <3> DEFINE g == [s \in Level(k) |-> IF s = {} THEN 0 ELSE Pick(s).amount + f[s \ {Pick(s)}]]
      <3>3. ASSUME NEW t \in Level(k - 1)
            PROVE  t \in Level(k) /\ f[t] = g[t]
        <4>1. t \in Level(k)
          BY <1>0, <3>1
        <4> HIDE DEF Level
        <4>2. f[t] = IF t = {} THEN 0 ELSE Pick(t).amount + f[t \ {Pick(t)}]
          BY <3>2
        <4> QED BY <4>1, <4>2
      <3>4. ASSUME NEW s \in Level(k), s # {}
            PROVE  g[s \ {Pick(s)}] = f[s \ {Pick(s)}]
        <4>1. Pick(s) \in s
          BY <3>4, PickIn
        <4>2. s \ {Pick(s)} \in Level(k - 1)
          BY <1>0, <2>1, <4>1, Fewer
        <4> QED BY <3>3, <4>2
      <3>5. Summed(g, k)
        BY <3>4
      <3> QED BY <2>1, <3>5
    <2> QED BY <2>2, <2>3
  <1>2. Cardinality(D) \in Nat /\ Level(Cardinality(D)) = SUBSET D
    BY <1>0, FS_CardinalityType
  <1>3. PICK g : Summed(g, Cardinality(D))
    BY <1>1, <1>2
  <1>4. Sums(g, D)
    BY <1>2, <1>3 DEF Sums
  <1> QED BY <1>4

(* A solution, at each set.                                                *)
LEMMA SumsAre ==
    ASSUME NEW D, NEW g, Sums(g, D)
    PROVE  /\ g[{}] = 0
           /\ \A s \in SUBSET D : s # {} => g[s] = Pick(s).amount + g[s \ {Pick(s)}]
  <1>1. \A s \in SUBSET D : g[s] = IF s = {} THEN 0 ELSE Pick(s).amount + g[s \ {Pick(s)}]
    BY DEF Sums
  <1> QED BY <1>1

(* The amounts a set of reservations holds.                                *)
Amounts(D) == IsFiniteSet(D) /\ \A o \in D : o.amount \in Nat

(* The order in which the sum is taken does not matter.                    *)
LEMMA SumsAnyOrder ==
    ASSUME NEW D, Amounts(D), NEW g, Sums(g, D)
    PROVE  \A s \in SUBSET D : g[s] \in Nat /\ \A o \in s : g[s] = o.amount + g[s \ {o}]
  <1> DEFINE Good(s) == g[s] \in Nat /\ \A o \in s : g[s] = o.amount + g[s \ {o}]
             Bad == {n \in Nat : \E s \in SUBSET D : Cardinality(s) = n /\ ~Good(s)}
  <1>0. \A s \in SUBSET D : IsFiniteSet(s) /\ Cardinality(s) \in Nat
    BY FS_Subset, FS_CardinalityType DEF Amounts
  <1>1. SUFFICES ASSUME Bad # {} PROVE FALSE
    BY <1>0
  <1>2. PICK k \in Bad : \A j \in Bad : k <= j
    BY <1>1, LeastNatural
  <1>3. PICK s \in SUBSET D : Cardinality(s) = k /\ ~Good(s)
    BY <1>2
  <1>4. \A t \in SUBSET D : Cardinality(t) < k => Good(t)
    BY <1>0, <1>2
  <1>5. g[{}] = 0 /\ \A t \in SUBSET D : t # {} => g[t] = Pick(t).amount + g[t \ {Pick(t)}]
    BY SumsAre
  <1>6. s # {}
    <2> SUFFICES ASSUME s = {} PROVE Good(s)
      BY <1>3
    <2>1. g[s] = 0 /\ \A o \in s : FALSE
      BY <1>5
    <2> QED BY <2>1
  <1> DEFINE p == Pick(s)
  <1>7. p \in s /\ p.amount \in Nat /\ g[s] = p.amount + g[s \ {p}]
    <2>1. p \in s
      BY <1>6, PickIn
    <2> QED BY <1>6, <1>5, <2>1 DEF Amounts
  <1> HIDE DEF p
  <1>8. \A o \in s : Good(s \ {o})
    BY <1>0, <1>2, <1>3, <1>4, Fewer
  <1>9. ASSUME NEW o \in s
        PROVE  g[s] = o.amount + g[s \ {o}]
    <2>1. CASE o = p
      BY <1>7, <2>1
    <2>2. CASE o # p
      <3>1. g[s \ {p}] = o.amount + g[(s \ {p}) \ {o}]
        BY <1>7, <1>8, <2>2
      <3>2. g[s \ {o}] = p.amount + g[(s \ {o}) \ {p}]
        BY <1>7, <1>8, <2>2
      <3>3. (s \ {p}) \ {o} = (s \ {o}) \ {p}
        OBVIOUS
      <3>4. g[(s \ {o}) \ {p}] \in Nat /\ o.amount \in Nat
        <4>1. Good((s \ {o}) \ {p})
          <5>1. s \ {o} \in SUBSET D /\ p \in s \ {o}
            BY <1>7, <2>2
          <5>2. Cardinality((s \ {o}) \ {p}) < k
            <6>1. IsFiniteSet(s \ {o}) /\ Cardinality(s) \in Nat \ {0} /\ Cardinality(s \ {o}) = Cardinality(s) - 1
              BY <1>0, Fewer
            <6>2. Cardinality((s \ {o}) \ {p}) = Cardinality(s \ {o}) - 1
              BY <5>1, <6>1, Fewer
            <6> QED BY <1>3, <6>1, <6>2
          <5> QED BY <1>4, <5>1, <5>2
        <4>2. o.amount \in Nat
          BY DEF Amounts
        <4> QED BY <4>1, <4>2
      <3>5. g[s \ {p}] = o.amount + g[(s \ {o}) \ {p}]
        BY <3>1, <3>3
      <3> QED BY <1>7, <3>2, <3>4, <3>5
    <2> QED BY <2>1, <2>2
  <1>10. g[s] \in Nat
    <2>1. g[s \ {p}] \in Nat
      BY <1>7, <1>8
    <2> QED BY <1>7, <2>1
  <1> QED BY <1>3, <1>9, <1>10

(* A sum depends on the reservations it is over and on no others.          *)
LEMMA SumsAgree ==
    ASSUME NEW D, Amounts(D), NEW E \in SUBSET D, NEW g, Sums(g, D), NEW h, Sums(h, E)
    PROVE  \A s \in SUBSET E : g[s] = h[s]
  <1> DEFINE Bad == {n \in Nat : \E s \in SUBSET E : Cardinality(s) = n /\ g[s] # h[s]}
  <1>0. \A s \in SUBSET E : s \in SUBSET D /\ IsFiniteSet(s) /\ Cardinality(s) \in Nat
    BY FS_Subset, FS_CardinalityType DEF Amounts
  <1>1. SUFFICES ASSUME Bad # {} PROVE FALSE
    BY <1>0
  <1>2. PICK k \in Bad : \A j \in Bad : k <= j
    BY <1>1, LeastNatural
  <1>3. PICK s \in SUBSET E : Cardinality(s) = k /\ g[s] # h[s]
    BY <1>2
  <1>4. \A t \in SUBSET E : Cardinality(t) < k => g[t] = h[t]
    BY <1>0, <1>2
  <1>5. s # {}
    BY <1>3, SumsAre
  <1>6. Pick(s) \in s /\ g[s] = Pick(s).amount + g[s \ {Pick(s)}] /\ h[s] = Pick(s).amount + h[s \ {Pick(s)}]
    BY <1>0, <1>5, PickIn, SumsAre
  <1>7. g[s \ {Pick(s)}] = h[s \ {Pick(s)}]
    BY <1>0, <1>2, <1>3, <1>4, <1>6, Fewer
  <1> QED BY <1>3, <1>6, <1>7

(* Outstanding sums the amounts of the open reservations.                  *)
LEMMA OutstandingIs ==
    ASSUME NEW b, IsFiniteSet(b.open)
    PROVE  \E f : Sums(f, b.open) /\ Outstanding(b) = f[b.open]
  <1> DEFINE D == b.open
             F == CHOOSE f : f = [s \in SUBSET D |-> IF s = {} THEN 0 ELSE Pick(s).amount + f[s \ {Pick(s)}]]
  <1>1. F = CHOOSE f : Sums(f, D)
    BY Zenon DEF Sums
  <1>2. Sums(F, D)
    BY <1>1, SumsExist, Zenon
  <1>3. Outstanding(b) = F[b.open]
    BY Zenon DEF Outstanding, MapThenSumSet, MapThenFoldSet, Pick
  <1> QED BY <1>2, <1>3, Zenon

(* What one reservation adds to what is outstanding.                       *)
LEMMA OutstandingWithout ==
    ASSUME NEW b, NEW c, Amounts(b.open), NEW o \in b.open, c.open = b.open \ {o}
    PROVE  /\ Outstanding(b) \in Nat /\ Outstanding(c) \in Nat
           /\ Outstanding(b) = o.amount + Outstanding(c)
  <1>1. c.open \in SUBSET b.open /\ Amounts(c.open) /\ IsFiniteSet(b.open)
    BY FS_Subset DEF Amounts
  <1>2. PICK f : Sums(f, b.open) /\ Outstanding(b) = f[b.open]
    BY <1>1, OutstandingIs
  <1>3. PICK h : Sums(h, c.open) /\ Outstanding(c) = h[c.open]
    BY <1>1, OutstandingIs DEF Amounts
  <1>4. f[c.open] = h[c.open]
    BY <1>1, <1>2, <1>3, SumsAgree
  <1>5. f[b.open] \in Nat /\ f[c.open] \in Nat /\ f[b.open] = o.amount + f[b.open \ {o}]
    BY <1>1, <1>2, SumsAnyOrder
  <1> QED BY <1>2, <1>3, <1>4, <1>5

(* Outstanding depends on the open reservations alone.                     *)
LEMMA OutstandingSame ==
    ASSUME NEW b, NEW c, Amounts(b.open), c.open = b.open
    PROVE  Outstanding(b) \in Nat /\ Outstanding(c) = Outstanding(b)
  <1>1. PICK f : Sums(f, b.open) /\ Outstanding(b) = f[b.open]
    BY OutstandingIs DEF Amounts
  <1>2. PICK h : Sums(h, b.open) /\ Outstanding(c) = h[b.open]
    BY OutstandingIs DEF Amounts
  <1>3. f[b.open] = h[b.open]
    <2>1. b.open \in SUBSET b.open
      OBVIOUS
    <2> QED BY <1>1, <1>2, <2>1, SumsAgree
  <1>4. f[b.open] \in Nat
    BY <1>1, SumsAnyOrder
  <1> QED BY <1>1, <1>2, <1>3, <1>4

(* Amounts are natural numbers, and no cap in force is above the highest.  *)
SpendInv ==
    /\ Amounts(budget.open) /\ budget.consumed \in Nat /\ peak \in Nat
    /\ budget.cap = NoCap \/ (budget.cap \in Nat /\ budget.cap <= peak)
    /\ SpendWithinApproval

(* A step that leaves the money alone.                                     *)
LEMMA SpendSame ==
    ASSUME SpendInv, budget'.open = budget.open, budget'.consumed = budget.consumed, peak' = peak,
           budget'.cap = budget.cap
    PROVE  SpendInv'
  <1>1. Outstanding(budget)' = Outstanding(budget)
    BY OutstandingSame DEF SpendInv
  <1> QED BY <1>1 DEF SpendInv, SpendWithinApproval

(* A reservation fits under the cap it was validated against.              *)
LEMMA SpendReserves ==
    ASSUME ModelInv, SpendInv, NEW r \in Requests, CanReserve(budget, r),
           budget' = Reserved(budget, r), peak' = peak
    PROVE  SpendInv'
  <1> DEFINE o == Reservation(r)
  <1>1. /\ budget'.open = budget.open \cup {o} /\ budget'.consumed = budget.consumed
        /\ budget'.cap = budget.cap
    BY DEF Reserved, ModelInv, Shaped, Rec, BudgetFields
  <1>2. r.amount \in Nat /\ r.cap \in Nat /\ o.amount = r.amount /\ o.budget = r.budget
    BY WorkloadsAssumption DEF Reservation
  <1>3. o \notin budget.open
    BY <1>2 DEF CanReserve, KnownIds
  <1>4. Amounts(budget'.open)
    BY <1>1, <1>2, FS_AddElement DEF SpendInv, Amounts
  <1>5. /\ Outstanding(budget') \in Nat /\ Outstanding(budget) \in Nat
        /\ Outstanding(budget') = o.amount + Outstanding(budget)
    <2>1. o \in budget'.open /\ budget.open = budget'.open \ {o}
      BY <1>1, <1>3
    <2> QED BY <1>4, <2>1, OutstandingWithout
  <1>6. budget.consumed + Outstanding(budget) + r.amount <= r.cap
    BY <1>2, <1>5 DEF CanReserve, WouldExceed, SpendInv
  <1>7. budget.consumed + Outstanding(budget') <= peak
    <2>1. CASE r.cap = 0 /\ r.amount = 0
      BY <1>2, <1>5, <2>1 DEF SpendInv, SpendWithinApproval
    <2>2. CASE budget.cap # NoCap /\ r.cap = budget.cap
      BY <1>2, <1>5, <1>6, <2>2 DEF SpendInv
    <2> QED BY <2>1, <2>2 DEF CanReserve, WithinApprovedLimit
  <1> QED BY <1>1, <1>4, <1>7 DEF SpendInv, SpendWithinApproval

(* A consumption stays within its reservation; a release frees it.         *)
LEMMA SpendCloses ==
    ASSUME ModelInv, SpendInv, NEW r \in Requests, NEW spent \in Nat, NEW amount, NEW consumes,
           CanClose(budget, r, amount, consumes), \A o \in budget.open : o.budget = r.budget /\ o.call = r.call => spent <= o.amount,
           budget' = Closed(budget, r, spent), peak' = peak
    PROVE  SpendInv'
  <1>1. /\ budget'.open = {o \in budget.open : o.budget # r.budget}
        /\ budget'.consumed = budget.consumed + spent /\ budget'.cap = budget.cap
    BY DEF Closed, ModelInv, Shaped, Rec, BudgetFields
  <1>2. PICK o \in budget.open : o.budget = r.budget /\ o.call = r.call
    BY DEF CanClose
  <1>3. budget'.open = budget.open \ {o}
    BY <1>1, <1>2 DEF ModelInv, BudgetInv
  <1>4. Amounts(budget'.open) /\ o.amount \in Nat /\ spent <= o.amount
    BY <1>2, <1>3, FS_RemoveElement DEF SpendInv, Amounts
  <1>5. /\ Outstanding(budget) \in Nat /\ Outstanding(budget') \in Nat
        /\ Outstanding(budget) = o.amount + Outstanding(budget')
    BY <1>3, OutstandingWithout DEF SpendInv
  <1>6. budget'.consumed \in Nat /\ budget'.consumed + Outstanding(budget') <= peak
    BY <1>1, <1>4, <1>5 DEF SpendInv, SpendWithinApproval
  <1> QED BY <1>1, <1>4, <1>6 DEF SpendInv, SpendWithinApproval

(* The appends of a model call.                                            *)
LEMMA SpendCommits ==
    ASSUME ModelInv, SpendInv, NEW x \in Callers, Commit(x)
    PROVE  SpendInv'
  <1> DEFINE r == job[x].req
             p == job[x].pc
  <1>1. p \in AppendPoints /\ budget' = NextBudget(x) /\ peak' = peak
    BY DEF Commit
  <1>2. DraftOK(x)
    BY DEF Commit, AppendHead, ModelInv, FrozenInv
  <1>3. r \in Requests /\ r.consume \in Nat
    BY <1>1, CallRequest, WorkloadsAssumption DEF ModelInv, ModelPcs
  <1>4. CASE p = "reserve"
    BY <1>1, <1>2, <1>3, <1>4, SpendReserves DEF NextBudget, DraftOK
  <1>5. CASE p = "exceed"
    <2>1. budget' = Exceeded(budget, r)
      BY <1>1, <1>5 DEF NextBudget
    <2> QED BY <1>1, <2>1, SpendSame DEF Exceeded, ModelInv, Shaped, Rec, BudgetFields
  <1>6. CASE p \in {"undo", "release"}
    <2>1. budget' = Closed(budget, r, 0) /\ CanClose(budget, r, r.amount, FALSE)
      BY <1>1, <1>2, <1>6 DEF NextBudget, DraftOK
    <2>2. \A o \in budget.open : 0 <= o.amount
      BY DEF SpendInv, Amounts
    <2> QED BY <1>1, <1>3, <2>1, <2>2, SpendCloses
  <1>7. CASE p = "consume"
    <2>1. budget' = Closed(budget, r, r.consume) /\ CanClose(budget, r, r.consume, TRUE)
      BY <1>1, <1>2, <1>7 DEF NextBudget, DraftOK
    <2>2. \A o \in budget.open : o.budget = r.budget /\ o.call = r.call => r.consume <= o.amount
      BY <2>1 DEF CanClose, ModelInv, BudgetInv
    <2> QED BY <1>1, <1>3, <2>1, <2>2, SpendCloses
  <1>8. CASE p \notin {"reserve", "exceed", "undo", "release", "consume"}
    BY <1>1, <1>8, SpendSame DEF NextBudget
  <1> QED BY <1>4, <1>5, <1>6, <1>7, <1>8

LEMMA SpendInductive ==
    ASSUME ModelInv, SpendInv, [Next]_vars
    PROVE  SpendInv'
  <1>1. CASE UNCHANGED <<budget, peak>>
    BY <1>1, SpendSame
  <1>2. ASSUME NEW x \in Callers, ClientStep(x) \/ Crash(x) PROVE SpendInv'
    <2>1. Commit(x) \/ UNCHANGED <<budget, peak>>
      BY <1>2 DEF ClientStep, FactStep, OperationStep, Lookup, CheckHead, PrepareFact, AppendFact, AppendRefused,
              AppendReceipt, ReserveEffect, Dispatch, DispatchFails, GenerateEnds, ObserveModel, SimulateStep,
              SimulateEnds, Evaluate, PlanStep, Issue, CliCall, Crash, ModelStep, Generate, Freeze, Conflict,
              HttpAnswered, HttpUnsent, HttpUncertain, HttpUnusable, callVars
    <2> QED BY <1>1, <2>1, SpendCommits
  <1>3. ASSUME NEW cap \in Limits, RecordLimit(cap) PROVE SpendInv'
    <2>1. cap \in Nat
      BY WorkloadsAssumption
    <2>2. /\ budget'.open = budget.open /\ budget'.consumed = budget.consumed /\ budget'.cap = cap
          /\ peak' = IF cap > peak THEN cap ELSE peak
      BY <1>3 DEF RecordLimit, Limited, ModelInv, Shaped, Rec, BudgetFields
    <2>3. Outstanding(budget)' = Outstanding(budget) /\ Outstanding(budget) \in Nat
      BY <2>2, OutstandingSame DEF SpendInv
    <2> QED BY <2>1, <2>2, <2>3 DEF SpendInv, SpendWithinApproval
  <1>4. CASE OtherWriter \/ Authorization \/ EditMaterial \/ UNCHANGED vars
    BY <1>1, <1>4 DEF OtherWriter, Authorization, EditMaterial, vars, callVars
  <1> QED BY <1>2, <1>3, <1>4 DEF Next

LEMMA SpendStarts ==
    ASSUME Init
    PROVE  SpendInv
  <1>1. budget.open = {} /\ budget.consumed = 0 /\ budget.cap = NoCap /\ peak = 0
    BY DEF Init, EmptyBudget
  <1>2. Amounts(budget.open)
    BY <1>1, FS_EmptySet DEF Amounts
  <1>3. Outstanding(budget) = 0
    <2>1. PICK f : Sums(f, {}) /\ Outstanding(budget) = f[{}]
      BY <1>1, <1>2, OutstandingIs DEF Amounts
    <2> QED BY <2>1, SumsAre
  <1> QED BY <1>1, <1>2, <1>3 DEF SpendInv, SpendWithinApproval

(* What was spent and what is reserved never exceeds the highest cap a     *)
(* researcher has recorded, whatever callers and limit changes race.       *)
THEOREM SpendCapped == Spec => []SpendWithinApproval
  <1>1. Init => ModelInv /\ SpendInv
    BY ModelStarts, SpendStarts
  <1>2. ModelInv /\ SpendInv /\ [Next]_vars => ModelInv' /\ SpendInv'
    BY ModelInductive, SpendInductive
  <1>3. SpendInv => SpendWithinApproval
    BY DEF SpendInv
  <1> QED BY <1>1, <1>2, <1>3, PTL DEF Spec

-----------------------------------------------------------------------------
(* The inductive invariant of the service.                                 *)

(* What a client at its statement may rely on.                             *)
JobInv(x) ==
    LET c == job[x].cmd IN
    /\ job[x].expected = Unset \/ (job[x].expected \in Nat /\ job[x].expected <= head)
    /\ job[x].pc = "append" => /\ Previewed(c) /\ StoredFirst(c) \subseteq cas
                               /\ job[x].expected = head => FactOK(c.input)
    /\ job[x].pc = "receipt" => Backed(c, job[x].outcome)
    /\ job[x].pc = "returned" => job[x].req.call \in calls.closed \ calls.failed
    /\ job[x].pc \in ModelPcs \cup {"dispatch"} /\ c.op \in EffectOps => Scope(c) \in DOMAIN intents

(* A reserved scope is dispatched by one client, at most once.             *)
DispatchInv ==
    /\ done \in [Scopes -> 0 .. 1]
    /\ \A s \in Scopes : done[s] = 1 => s \in DOMAIN intents
    /\ \A x \in Callers : job[x].pc = "dispatch" => done[Scope(job[x].cmd)] = 0
    /\ \A x, y \in Callers : x # y /\ job[x].pc = "dispatch" /\ job[y].pc = "dispatch"
          => Scope(job[x].cmd) # Scope(job[y].cmd)

EvidenceInv ==
    \A e \in DOMAIN facts : facts[e].draft.type = "evidence.imported" => facts[e].draft.id \in cas

ReceiptInv ==
    \A i \in DOMAIN receipts : /\ receipts[i].digest.cmd \in Commands
                               /\ Backed(receipts[i].digest.cmd, receipts[i].outcome)

IssuedInv ==
    /\ DOMAIN issued = work
    /\ \A c \in work : issued[c] = Unset \/ (issued[c] \in Nat /\ issued[c] <= head)

ServiceInv ==
    /\ LedgerWellFormed(ledger)
    /\ EvidenceInv /\ ReceiptInv /\ IssuedInv /\ DispatchInv
    /\ \A x \in Callers : JobInv(x)

(* What is recorded stays recorded.                                        *)
Grow ==
    /\ DOMAIN facts \subseteq DOMAIN facts' /\ \A e \in DOMAIN facts : facts'[e] = facts[e]
    /\ cas \subseteq cas'
    /\ DOMAIN intents \subseteq DOMAIN intents'
    /\ DOMAIN receipts \subseteq DOMAIN receipts' /\ \A i \in DOMAIN receipts : receipts'[i] = receipts[i]
    /\ calls.closed \ calls.failed \subseteq calls'.closed \ calls'.failed
    /\ \A s \in Scopes : done[s] = 1 => done'[s] = 1

(* What a draft is validated against moves with the head.                  *)
Still == head' = head + 1 \/ UNCHANGED <<head, ledger, grant, facts, snapshot>>

LEMMA Grown ==
    ASSUME Grow, NEW c \in Commands, NEW o, Backed(c, o)
    PROVE  Backed(c, o)'
  <1>1. Imported \subseteq Imported' /\ Published \subseteq Published'
    BY DEF Grow, Imported, Published
  <1>2. c.op = "dispatch" => Scope(c) \in Scopes
    BY DEF Scopes, EffectOps
  <1>3. Previewed(c) => Previewed(c)'
    BY <1>1 DEF Previewed
  <1>4. /\ c.op \in FactOps => c.event \in DOMAIN facts' /\ facts'[c.event].draft = c.input
        /\ c.op \in FactOps => StoredFirst(c) \subseteq cas' /\ Previewed(c)'
    BY <1>3 DEF Grow, Backed
  <1>5. /\ c.op \in EffectOps => Scope(c) \in DOMAIN intents'
        /\ c.op \in EvaluationOps => Stored(c) \subseteq cas'
        /\ c.op = "inspect" => c.input.report \in Published'
    BY <1>1 DEF Grow, Backed
  <1>6. /\ c.op \in {"model", "observe"} =>
               /\ o \in {"draft", "invalid-draft"} => c.input.call \in calls'.closed \ calls'.failed
               /\ o = "draft" => c.input.call \in cas'
        /\ c.op = "dispatch" /\ o = "dispatched" => done'[Scope(c)] = 1
    BY <1>2 DEF Grow, Backed
  <1>7. c.op = "plan" => /\ StagesSound(c.input.spec, o)
                         /\ AuthorizationSound(c.input.spec, o, c.input.policy)
    BY DEF Backed
  <1> QED BY <1>4, <1>5, <1>6, <1>7 DEF Backed

(* A client that does not move keeps what it relies on.                    *)
LEMMA JobKept ==
    ASSUME ModelInv, Grow, Still, NEW y \in Callers, job'[y] = job[y], JobInv(y)
    PROVE  JobInv(y)'
  <1> DEFINE c == job[y].cmd
  <1>0. head \in Nat /\ CmdOK(job[y])
    BY DEF ModelInv, Shaped, CmdInv
  <1>1. job'[y].expected = Unset \/ (job'[y].expected \in Nat /\ job'[y].expected <= head')
    BY <1>0 DEF JobInv, Still
  <1>2. job[y].pc = "append" => Previewed(c)' /\ StoredFirst(c) \subseteq cas'
    <2>1. Imported \subseteq Imported'
      BY DEF Grow, Imported
    <2>2. Previewed(c) => Previewed(c)'
      BY <2>1 DEF Previewed
    <2> QED BY <2>2 DEF JobInv, Grow
  <1>3. job[y].pc = "append" /\ job'[y].expected = head' => FactOK(c.input)'
    <2>1. CASE head' = head + 1
      <3>1. job[y].expected = Unset \/ (job[y].expected \in Nat /\ job[y].expected <= head)
        BY DEF JobInv
      <3> QED BY <1>0, <2>1, <3>1 DEF Unset
    <2>2. CASE UNCHANGED <<head, ledger, grant, facts, snapshot>>
      <3>1. FactOK(c.input) => FactOK(c.input)'
        BY <2>2 DEF FactOK, EvidenceFresh, Imported, Folds
      <3> QED BY <2>2, <3>1 DEF JobInv
    <2> QED BY <2>1, <2>2 DEF Still
  <1>4. job[y].pc = "receipt" => Backed(c, job[y].outcome)'
    <2> SUFFICES ASSUME job[y].pc = "receipt" PROVE Backed(c, job[y].outcome)'
      OBVIOUS
    <2>1. c \in Commands /\ Backed(c, job[y].outcome)
      BY <1>0 DEF CmdOK, JobInv
    <2> QED BY <2>1, Grown
  <1>5. /\ job[y].pc = "returned" => job[y].req.call \in calls'.closed \ calls'.failed
        /\ job[y].pc \in ModelPcs \cup {"dispatch"} /\ c.op \in EffectOps => Scope(c) \in DOMAIN intents'
    BY DEF JobInv, Grow
  <1> QED BY <1>1, <1>2, <1>3, <1>4, <1>5 DEF JobInv

LEMMA EvidenceKept ==
    ASSUME EvidenceInv, Grow, facts' = facts
    PROVE  EvidenceInv'
  BY DEF EvidenceInv, Grow

LEMMA ReceiptKept ==
    ASSUME ReceiptInv, Grow, receipts' = receipts
    PROVE  ReceiptInv'
  BY Grown DEF ReceiptInv

LEMMA IssuedKept ==
    ASSUME IssuedInv, head \in Nat, Still, UNCHANGED <<issued, load>>
    PROVE  IssuedInv'
  BY DEF IssuedInv, Still, work

LEMMA DispatchKept ==
    ASSUME DispatchInv, Grow, done' = done, NEW x \in Callers, Turn(x),
           job'[x].pc = "dispatch" => job'[x] = job[x]
    PROVE  DispatchInv'
  <1>1. \A y \in Callers : job'[y].pc = "dispatch" => job'[y] = job[y]
    BY DEF Turn
  <1> QED BY <1>1 DEF DispatchInv, Grow

(* A step of x that leaves the ledger, the facts, the receipts and the     *)
(* effects alone.                                                          *)
LEMMA ServiceQuiet ==
    ASSUME ModelInv, ServiceInv, NEW x \in Callers, Turn(x), Grow, Still,
           UNCHANGED <<ledger, facts, receipts, issued, done, load>>,
           job'[x].pc # "dispatch", JobInv(x)'
    PROVE  ServiceInv'
  <1>1. EvidenceInv' /\ ReceiptInv' /\ DispatchInv'
    BY EvidenceKept, ReceiptKept, DispatchKept DEF ServiceInv
  <1>2. IssuedInv'
    BY IssuedKept DEF ServiceInv, ModelInv, Shaped
  <1>3. \A y \in Callers : JobInv(y)'
    <2> SUFFICES ASSUME NEW y \in Callers PROVE JobInv(y)'
      OBVIOUS
    <2>1. CASE y # x
      BY <2>1, JobKept DEF ServiceInv, Turn
    <2> QED BY <2>1
  <1> QED BY <1>1, <1>2, <1>3 DEF ServiceInv

(* Nothing that the service records changes.                               *)
LEMMA GrowNothing ==
    ASSUME UNCHANGED <<facts, cas, intents, receipts, calls, done>>
    PROVE  Grow
  BY DEF Grow

(* A client that is idle again relies on nothing.                          *)
LEMMA IdleJob ==
    ASSUME NEW x \in Callers, job'[x] = Idle
    PROVE  JobInv(x)' /\ job'[x].pc = "idle"
  <1>1. Idle.pc = "idle" /\ Idle.expected = Unset
    BY DEF Idle
  <1> QED BY <1>1 DEF JobInv, ModelPcs, AppendPoints

LEMMA RefuseService ==
    ASSUME ModelInv, ServiceInv, NEW x \in Callers, Refuse(x), Grow, Still,
           UNCHANGED <<ledger, facts, receipts, issued, done, load>>
    PROVE  ServiceInv'
  BY RefuseMoves, IdleJob, ServiceQuiet DEF ModelInv

(* A client moves to a statement that relies on nothing recorded.          *)
LEMMA PlainJob ==
    ASSUME ModelInv, ServiceInv, NEW x \in Callers, Still,
           job'[x].expected \in {Unset, job[x].expected},
           job'[x].pc \notin {"append", "receipt", "dispatch"} \cup ModelPcs
    PROVE  JobInv(x)' /\ job'[x].pc # "dispatch"
  <1>1. head \in Nat /\ (job[x].expected = Unset \/ (job[x].expected \in Nat /\ job[x].expected <= head))
    BY DEF ModelInv, Shaped, ServiceInv, JobInv
  <1>2. job'[x].expected = Unset \/ (job'[x].expected \in Nat /\ job'[x].expected <= head')
    BY <1>1 DEF Still
  <1> QED BY <1>2 DEF JobInv, ModelPcs

LEMMA ReceiptJob ==
    ASSUME ModelInv, ServiceInv, NEW x \in Callers, Still,
           job'[x].expected = job[x].expected, job'[x].pc = "receipt", Backed(job[x].cmd, job[x].outcome)',
           job'[x].cmd = job[x].cmd
    PROVE  JobInv(x)' /\ job'[x].pc # "dispatch"
  <1>1. head \in Nat /\ (job[x].expected = Unset \/ (job[x].expected \in Nat /\ job[x].expected <= head))
    BY DEF ModelInv, Shaped, ServiceInv, JobInv
  <1>2. job'[x].expected = Unset \/ (job'[x].expected \in Nat /\ job'[x].expected <= head')
    BY <1>1 DEF Still
  <1> QED BY <1>2 DEF JobInv, ModelPcs, AppendPoints

LEMMA LookupService ==
    ASSUME ModelInv, ServiceInv, NEW x \in Callers, Lookup(x) \/ CheckHead(x)
    PROVE  ServiceInv'
  <1>1. /\ Grow /\ Still /\ UNCHANGED <<ledger, facts, receipts, issued, done, load>>
        /\ Shaped /\ job[x].pc \in {"lookup", "head"} /\ CmdOK(job[x])
    BY GrowNothing DEF Lookup, CheckHead, callVars, simVars, serviceVars, Still, ModelInv, CmdInv
  <1>2. CASE Refuse(x)
    BY <1>1, <1>2, RefuseService
  <1>3. CASE ~Refuse(x) /\ Lookup(x)
    <2>1. Step(x, "head")
      BY <1>3 DEF Lookup
    <2>2. Turn(x) /\ Kept(x, {"pc"}) /\ job'[x].pc = "head"
      BY <1>1, <2>1, StepMoves
    <2>3. JobInv(x)' /\ job'[x].pc # "dispatch"
      BY <1>1, <2>2, PlainJob DEF Kept, JobFields, ModelPcs, AppendPoints
    <2> QED BY <1>1, <2>2, <2>3, ServiceQuiet
  <1>4. CASE ~Refuse(x) /\ CheckHead(x)
    <2> DEFINE c == job[x].cmd
               to == CASE c.op \in FactOps -> "fact" [] c.op \in EffectOps -> "intent"
                       [] c.op = "simulate" -> "simulate" [] c.op \in EvaluationOps -> "evaluate"
                       [] c.op \in {"plan", "observe"} -> c.op [] OTHER -> "receipt"
               q == IF c.op = "simulate" THEN c.input ELSE job[x].req
    <2>1. job' = [job EXCEPT ![x].pc = to, ![x].req = q]
      BY <1>4 DEF CheckHead
    <2>2. \/ to \in {"fact", "intent", "simulate", "evaluate", "plan", "observe"}
          \/ to = "receipt" /\ c.op \notin FactOps \cup EffectOps \cup EvaluationOps \cup {"plan", "observe"}
      OBVIOUS
    <2> HIDE DEF to, q
    <2>3. Turn(x) /\ Kept(x, {"pc", "req"}) /\ job'[x].pc = to
      BY <1>1, <2>1, RequestMoves
    <2>4. job'[x].cmd = c /\ job'[x].expected = job[x].expected /\ job'[x].outcome = job[x].outcome
      BY <2>3 DEF Kept, JobFields
    <2>5. CASE to # "receipt"
      <3>1. JobInv(x)' /\ job'[x].pc # "dispatch"
        BY <1>1, <2>2, <2>3, <2>4, <2>5, PlainJob DEF ModelPcs, AppendPoints
      <3> QED BY <1>1, <2>3, <3>1, ServiceQuiet
    <2>6. CASE to = "receipt"
      <3>1. Backed(c, job[x].outcome)'
        BY <2>2, <2>4, <2>6 DEF Backed, EffectOps, EvaluationOps
      <3>2. JobInv(x)' /\ job'[x].pc # "dispatch"
        BY <1>1, <2>3, <2>4, <2>6, <3>1, ReceiptJob
      <3> QED BY <1>1, <2>3, <3>2, ServiceQuiet
    <2> QED BY <2>5, <2>6
  <1> QED BY <1>2, <1>3, <1>4

(* A fact command names its fact, its artifact and what it cites.          *)
LEMMA FactBacked ==
    ASSUME NEW c, c.op \in FactOps, NEW o, SameFact(c)', StoredFirst(c) \subseteq cas', Previewed(c)'
    PROVE  Backed(c, o)'
  BY DEF Backed, SameFact, FactOps, EffectOps, EvaluationOps

LEMMA PrepareService ==
    ASSUME ModelInv, ServiceInv, NEW x \in Callers, PrepareFact(x)
    PROVE  ServiceInv'
  <1> DEFINE c == job[x].cmd
  <1>1. /\ Still /\ UNCHANGED <<ledger, facts, receipts, issued, done, load, head, snapshot, grant>>
        /\ UNCHANGED <<intents, calls>> /\ Shaped /\ job[x].pc = "fact"
    BY DEF PrepareFact, callVars, simVars, Still, ModelInv
  <1>2. c \in Commands /\ c.op \in FactOps
    BY <1>1 DEF ModelInv, CmdInv, CmdOK
  <1>3. cas \subseteq cas'
    BY DEF PrepareFact
  <1>4. Grow
    BY <1>1, <1>3 DEF Grow
  <1>5. CASE Refuse(x)
    BY <1>1, <1>4, <1>5, RefuseService
  <1>6. CASE ~Refuse(x) /\ c.event \in DOMAIN facts
    <2>1. /\ Previewed(c) /\ SameFact(c) /\ Step(x, "receipt")
          /\ cas' = IF c.op = "submit" THEN cas \cup StoredFirst(c) ELSE cas
      BY <1>6 DEF PrepareFact
    <2>2. Turn(x) /\ Kept(x, {"pc"}) /\ job'[x].pc = "receipt"
      BY <1>1, <2>1, StepMoves
    <2>3. job'[x].cmd = c /\ job'[x].expected = job[x].expected /\ job'[x].outcome = job[x].outcome
      BY <2>2 DEF Kept, JobFields
    <2>4. StoredFirst(c) \subseteq cas'
      <3>1. CASE c.op = "submit"
        BY <2>1, <3>1
      <3>2. CASE c.op = "evidence"
        <4>1. c.input.type = "evidence.imported"
          BY <1>2, <3>2, WorkloadsAssumption
        <4>2. c.input.id \in cas
          BY <2>1, <4>1 DEF SameFact, ServiceInv, EvidenceInv
        <4> QED BY <1>3, <3>2, <4>2 DEF StoredFirst
      <3> QED BY <3>1, <3>2 DEF StoredFirst
    <2>5. Previewed(c)' /\ SameFact(c)'
      BY <1>1, <2>1, <2>3 DEF Previewed, SameFact, Imported
    <2>6. Backed(c, job[x].outcome)'
      BY <1>2, <2>3, <2>4, <2>5, FactBacked
    <2>7. JobInv(x)' /\ job'[x].pc # "dispatch"
      BY <1>1, <2>2, <2>3, <2>6, ReceiptJob
    <2> QED BY <1>1, <1>4, <2>2, <2>7, ServiceQuiet
  <1>7. CASE ~Refuse(x) /\ c.event \notin DOMAIN facts
    <2>1. /\ Previewed(c) /\ Step(x, "append") /\ FactOK(c.input) /\ job[x].expected = head
          /\ cas' = cas \cup StoredFirst(c)
      BY <1>7 DEF PrepareFact
    <2>2. Turn(x) /\ Kept(x, {"pc"}) /\ job'[x].pc = "append"
      BY <1>1, <2>1, StepMoves
    <2>3. job'[x].cmd = c /\ job'[x].expected = job[x].expected
      BY <2>2 DEF Kept, JobFields
    <2>4. Previewed(c)' /\ FactOK(c.input)'
      BY <1>1, <2>1, <2>3 DEF Previewed, FactOK, EvidenceFresh, Imported, Folds
    <2>5. job'[x].expected \in Nat /\ job'[x].expected <= head'
      BY <1>1, <2>1, <2>3 DEF Shaped
    <2>6. JobInv(x)'
      BY <2>1, <2>2, <2>3, <2>4, <2>5 DEF JobInv, ModelPcs, AppendPoints
    <2> QED BY <1>1, <1>4, <2>2, <2>6, ServiceQuiet
  <1> QED BY <1>5, <1>6, <1>7

LEMMA AppendRefusedService ==
    ASSUME ModelInv, ServiceInv, NEW x \in Callers, AppendRefused(x)
    PROVE  ServiceInv'
  <1> DEFINE c == job[x].cmd
  <1>1. /\ Still /\ Grow /\ UNCHANGED <<ledger, facts, receipts, issued, done, load, cas>>
        /\ Shaped /\ job[x].pc = "append"
    BY GrowNothing DEF AppendRefused, callVars, simVars, serviceVars, Still, ModelInv
  <1>2. CASE Refuse(x)
    BY <1>1, <1>2, RefuseService
  <1>3. CASE ~Refuse(x)
    <2>1. SameFact(c) /\ Step(x, "receipt") /\ c.op \in FactOps
      BY <1>3 DEF AppendRefused, FactOps
    <2>2. Turn(x) /\ Kept(x, {"pc"}) /\ job'[x].pc = "receipt"
      BY <1>1, <2>1, StepMoves
    <2>3. job'[x].cmd = c /\ job'[x].expected = job[x].expected /\ job'[x].outcome = job[x].outcome
      BY <2>2 DEF Kept, JobFields
    <2>4. StoredFirst(c) \subseteq cas' /\ Previewed(c)' /\ SameFact(c)'
      BY <1>1, <2>1, <2>3 DEF ServiceInv, JobInv, Previewed, SameFact, Imported
    <2>5. Backed(c, job[x].outcome)'
      BY <2>1, <2>3, <2>4, FactBacked
    <2>6. JobInv(x)' /\ job'[x].pc # "dispatch"
      BY <1>1, <2>2, <2>3, <2>5, ReceiptJob
    <2> QED BY <1>1, <2>2, <2>6, ServiceQuiet
  <1> QED BY <1>2, <1>3

LEMMA AppendFactService ==
    ASSUME ModelInv, ServiceInv, NEW x \in Callers, AppendFact(x)
    PROVE  ServiceInv'
  <1> DEFINE c == job[x].cmd
  <1>1. /\ job[x].pc = "append" /\ c.event \notin DOMAIN facts /\ job[x].expected = head /\ head' = head + 1
        /\ facts' = With(facts, c.event, [draft |-> c.input, seq |-> head + 1])
        /\ ledger' = LedgerApply(ledger, c.input) /\ Step(x, "receipt")
        /\ UNCHANGED <<calls, cas, receipts, intents, done, issued, load>>
    BY DEF AppendFact, FactHead, callVars
  <1>2. c \in Commands /\ c.op \in FactOps /\ Shaped /\ JobInv(x)
    BY <1>1 DEF ModelInv, CmdInv, CmdOK, ServiceInv
  <1>3. /\ DOMAIN facts' = DOMAIN facts \cup {c.event} /\ facts'[c.event].draft = c.input
        /\ \A e \in DOMAIN facts : facts'[e] = facts[e]
    BY <1>1 DEF With
  <1>4. Grow /\ Still
    BY <1>1, <1>3 DEF Grow, Still
  <1>5. Turn(x) /\ Kept(x, {"pc"}) /\ job'[x].pc = "receipt"
    BY <1>1, <1>2, StepMoves
  <1>6. job'[x].cmd = c /\ job'[x].expected = job[x].expected /\ job'[x].outcome = job[x].outcome
    BY <1>5 DEF Kept, JobFields
  <1>7. FactOK(c.input) /\ StoredFirst(c) \subseteq cas /\ Previewed(c)
    BY <1>1, <1>2 DEF JobInv
  <1>8. LedgerWellFormed(ledger')
    <2>0. LedgerWellFormed(ledger) /\ (c.input.type = "proposal.submitted" => c.input.base \in Nat)
      BY <1>2, WorkloadsAssumption DEF ServiceInv
    <2>1. CASE c.input.type \in {"evidence.imported", "run.cancel.requested", "worker.grant.revoked"}
      <3>1. LedgerApply(ledger, c.input) = ledger
        BY <2>1 DEF LedgerApply
      <3> QED BY <1>1, <2>0, <3>1
    <2>2. CASE c.input.type \notin {"evidence.imported", "run.cancel.requested", "worker.grant.revoked"}
      <3>1. LedgerOK(ledger, c.input)
        BY <1>7, <2>2 DEF FactOK
      <3> QED BY <1>1, <2>0, <3>1, LedgerApplies
    <2> QED BY <2>1, <2>2
  <1>9. EvidenceInv'
    <2>1. c.input.type = "evidence.imported" => c.input.id \in cas
      BY <1>2, <1>7, WorkloadsAssumption DEF StoredFirst
    <2> QED BY <1>1, <1>3, <2>1 DEF ServiceInv, EvidenceInv
  <1>10. ReceiptInv' /\ DispatchInv' /\ IssuedInv'
    BY <1>1, <1>2, <1>4, <1>5, ReceiptKept, DispatchKept, IssuedKept DEF ServiceInv, Shaped
  <1>11. JobInv(x)'
    <2>1. Imported \subseteq Imported'
      BY <1>3 DEF Imported
    <2>2. Previewed(c)' /\ SameFact(c)' /\ StoredFirst(c) \subseteq cas'
      BY <1>1, <1>3, <1>6, <1>7, <2>1 DEF Previewed, SameFact
    <2>3. Backed(c, job[x].outcome)'
      BY <1>2, <1>6, <2>2, FactBacked
    <2> QED BY <1>4, <1>5, <1>6, <2>3, ReceiptJob
  <1>12. \A y \in Callers : JobInv(y)'
    <2> SUFFICES ASSUME NEW y \in Callers PROVE JobInv(y)'
      OBVIOUS
    <2>1. CASE y # x
      BY <1>4, <1>5, <2>1, JobKept DEF ServiceInv, Turn
    <2> QED BY <1>11, <2>1
  <1> QED BY <1>8, <1>9, <1>10, <1>12 DEF ServiceInv

LEMMA ReceiptService ==
    ASSUME ModelInv, ServiceInv, NEW x \in Callers, AppendReceipt(x)
    PROVE  ServiceInv'
  <1> DEFINE c == job[x].cmd
             r == [digest |-> job[x].digest, outcome |-> job[x].outcome]
  <1>1. /\ job[x].pc = "receipt" /\ Refuse(x)
        /\ UNCHANGED <<head, calls, snapshot, ledger, grant, facts, cas, intents, done, issued, load>>
        /\ receipts' = IF c.id \in DOMAIN receipts THEN receipts ELSE With(receipts, c.id, r)
    BY DEF AppendReceipt, callVars, simVars
  <1>2. Shaped /\ c \in Commands /\ job[x].digest.cmd = c /\ Backed(c, job[x].outcome)
    BY <1>1 DEF ModelInv, CmdInv, CmdOK, ServiceInv, JobInv
  <1>3. /\ \A i \in DOMAIN receipts : i \in DOMAIN receipts' /\ receipts'[i] = receipts[i]
        /\ \A i \in DOMAIN receipts' : i \in DOMAIN receipts \/ receipts'[i] = r
    BY <1>1 DEF With
  <1>4. Grow /\ Still
    BY <1>1, <1>3 DEF Grow, Still
  <1>5. Turn(x) /\ job'[x] = Idle /\ job'[x].pc = "idle"
    BY <1>1, <1>2, RefuseMoves
  <1>6. ReceiptInv'
    <2> SUFFICES ASSUME NEW i \in DOMAIN receipts'
                 PROVE  /\ receipts'[i].digest.cmd \in Commands
                        /\ Backed(receipts[i].digest.cmd, receipts[i].outcome)'
      BY DEF ReceiptInv
    <2>1. CASE i \in DOMAIN receipts
      <3>1. /\ receipts[i].digest.cmd \in Commands /\ Backed(receipts[i].digest.cmd, receipts[i].outcome)
            /\ receipts'[i] = receipts[i]
        BY <1>3, <2>1 DEF ServiceInv, ReceiptInv
      <3> QED BY <1>4, <3>1, Grown
    <2>2. CASE receipts'[i] = r
      <3>1. receipts'[i].digest.cmd = c /\ receipts'[i].outcome = job[x].outcome
        BY <1>2, <2>2
      <3> QED BY <1>2, <1>4, <3>1, Grown
    <2> QED BY <1>3, <2>1, <2>2
  <1>7. EvidenceInv' /\ DispatchInv' /\ IssuedInv'
    BY <1>1, <1>2, <1>4, <1>5, EvidenceKept, DispatchKept, IssuedKept DEF ServiceInv, Shaped
  <1>8. \A y \in Callers : JobInv(y)'
    <2> SUFFICES ASSUME NEW y \in Callers PROVE JobInv(y)'
      OBVIOUS
    <2>1. CASE y # x
      BY <1>4, <1>5, <2>1, JobKept DEF ServiceInv, Turn
    <2> QED BY <1>5, <2>1, IdleJob
  <1> QED BY <1>1, <1>6, <1>7, <1>8 DEF ServiceInv

LEMMA IssueService ==
    ASSUME ModelInv, ServiceInv, NEW x \in Callers, NEW c \in work, Issue(x, c)
    PROVE  ServiceInv'
  <1> DEFINE seen == IF issued[c] = Unset THEN head ELSE issued[c]
  <1>1. /\ Shaped /\ issued' = [issued EXCEPT ![c] = seen]
        /\ UNCHANGED <<head, calls, snapshot, ledger, grant, facts, cas, receipts, intents, done, load>>
    BY DEF Issue, callVars, simVars, ModelInv
  <1>2. Grow /\ Still
    BY <1>1, GrowNothing DEF Still
  <1>3. Turn(x) /\ job'[x].pc = "lookup" /\ job'[x].expected = seen
    BY <1>1, IssueMoves
  <1>4. seen \in Nat /\ seen <= head
    BY <1>1 DEF Shaped, ServiceInv, IssuedInv
  <1>5. IssuedInv'
    BY <1>1, <1>4 DEF ServiceInv, IssuedInv, work
  <1>6. EvidenceInv' /\ DispatchInv' /\ ReceiptInv'
    BY <1>1, <1>2, <1>3, EvidenceKept, DispatchKept, ReceiptKept DEF ServiceInv
  <1>7. JobInv(x)'
    BY <1>1, <1>3, <1>4 DEF JobInv, ModelPcs, AppendPoints
  <1>8. \A y \in Callers : JobInv(y)'
    <2> SUFFICES ASSUME NEW y \in Callers PROVE JobInv(y)'
      OBVIOUS
    <2>1. CASE y # x
      BY <1>2, <1>3, <2>1, JobKept DEF ServiceInv, Turn
    <2> QED BY <1>7, <2>1
  <1> QED BY <1>1, <1>5, <1>6, <1>8 DEF ServiceInv

LEMMA CliService ==
    ASSUME ModelInv, ServiceInv, NEW x \in Callers, NEW c \in work, CliCall(x, c)
    PROVE  ServiceInv'
  <1>1. /\ Shaped /\ UNCHANGED <<ledger, facts, receipts, issued, done, load>> /\ Grow /\ Still
        /\ c.op \in CommandLine
    BY GrowNothing DEF CliCall, callVars, simVars, serviceVars, ModelInv, Still
  <1>2. /\ Turn(x) /\ job'[x].cmd = c /\ job'[x].pc \in {"mock", "reserve", "simulate"}
    BY <1>1, CliMoves DEF FirstPoint
  <1>3. job'[x].expected = Unset
    <2> DEFINE r == [Idle EXCEPT !.cmd = c, !.req = c.input,
                                 !.pc = IF c.op = "cli" THEN FirstPoint(c.input) ELSE "simulate"]
    <2>1. job' = [job EXCEPT ![x] = r] /\ Rec(job, Callers)
      BY <1>1, Zenon DEF CliCall, Shaped
    <2>2. r.expected = Unset
      BY DEF Idle
    <2> QED BY <2>1, <2>2 DEF Rec
  <1>4. JobInv(x)'
    BY <1>1, <1>2, <1>3 DEF JobInv, CommandLine, EffectOps
  <1> QED BY <1>1, <1>2, <1>4, ServiceQuiet

LEMMA StopService ==
    ASSUME ModelInv, ServiceInv, NEW x \in Callers, DispatchFails(x) \/ Crash(x)
    PROVE  ServiceInv'
  <1>1. /\ Refuse(x) /\ UNCHANGED <<ledger, facts, receipts, issued, done, load>> /\ Grow /\ Still
    BY GrowNothing DEF DispatchFails, Crash, callVars, simVars, serviceVars, Still
  <1> QED BY <1>1, RefuseService

(* An effect whose outcome claims nothing.                                 *)
LEMMA EffectBacked ==
    ASSUME NEW c, c.op \in EffectOps, NEW o, o \notin {"draft", "invalid-draft", "dispatched"},
           Scope(c) \in DOMAIN intents'
    PROVE  Backed(c, o)'
  BY DEF Backed, FactOps, EffectOps, EvaluationOps

(* A client ends its operation with an outcome.                            *)
LEMMA EndsService ==
    ASSUME ModelInv, ServiceInv, NEW x \in Callers, NEW o, Grow, Still,
           \/ job' = [job EXCEPT ![x].pc = "receipt", ![x].outcome = o]
           \/ job' = [job EXCEPT ![x].pc = "receipt", ![x].frozen = Unset, ![x].outcome = o],
           UNCHANGED <<ledger, facts, receipts, issued, done, load>>,
           Backed(job[x].cmd, o)'
    PROVE  ServiceInv'
  <1>1. /\ Turn(x) /\ Kept(x, {"pc", "frozen", "outcome"}) /\ job'[x].pc = "receipt" /\ job'[x].outcome = o
    <2>1. CASE job' = [job EXCEPT ![x].pc = "receipt", ![x].outcome = o]
      <3>1. Turn(x) /\ Kept(x, {"pc", "outcome"}) /\ job'[x].pc = "receipt" /\ job'[x].outcome = o
        BY <2>1, OutcomeMoves DEF ModelInv
      <3> QED BY <3>1 DEF Kept
    <2>2. CASE job' = [job EXCEPT ![x].pc = "receipt", ![x].frozen = Unset, ![x].outcome = o]
      BY <2>2, DraftMoves DEF ModelInv
    <2> QED BY <2>1, <2>2
  <1>2. job'[x].cmd = job[x].cmd /\ job'[x].expected = job[x].expected
    BY <1>1 DEF Kept, JobFields
  <1>3. JobInv(x)' /\ job'[x].pc # "dispatch"
    <2>1. head \in Nat /\ (job[x].expected = Unset \/ (job[x].expected \in Nat /\ job[x].expected <= head))
      BY DEF ModelInv, Shaped, ServiceInv, JobInv
    <2>2. job'[x].expected = Unset \/ (job'[x].expected \in Nat /\ job'[x].expected <= head')
      BY <1>2, <2>1 DEF Still
    <2> QED BY <1>1, <1>2, <2>2 DEF JobInv, ModelPcs, AppendPoints
  <1> QED BY <1>1, <1>3, ServiceQuiet

(* It keeps its command.                                                   *)
LEMMA EndsCommand ==
    ASSUME ModelInv, NEW x \in Callers, NEW o,
           \/ job' = [job EXCEPT ![x].pc = "receipt", ![x].outcome = o]
           \/ job' = [job EXCEPT ![x].pc = "receipt", ![x].frozen = Unset, ![x].outcome = o]
    PROVE  job'[x].cmd = job[x].cmd
  <1>1. CASE job' = [job EXCEPT ![x].pc = "receipt", ![x].outcome = o]
    <2>1. Kept(x, {"pc", "outcome"})
      BY <1>1, OutcomeMoves DEF ModelInv
    <2> QED BY <2>1 DEF Kept, JobFields
  <1>2. CASE job' = [job EXCEPT ![x].pc = "receipt", ![x].frozen = Unset, ![x].outcome = o]
    <2>1. Kept(x, {"pc", "frozen", "outcome"})
      BY <1>2, DraftMoves DEF ModelInv
    <2> QED BY <2>1 DEF Kept, JobFields
  <1> QED BY <1>1, <1>2

LEMMA ReserveService ==
    ASSUME ModelInv, ServiceInv, NEW x \in Callers, ReserveEffect(x)
    PROVE  ServiceInv'
  <1> DEFINE c == job[x].cmd
             s == Scope(c)
  <1>1. /\ Shaped /\ UNCHANGED <<head, calls, snapshot, grant, ledger, facts, cas, receipts, issued, done, load>>
        /\ job[x].pc = "intent" /\ Still
    BY DEF ReserveEffect, callVars, simVars, ModelInv, Still
  <1>2. c \in Commands /\ c.op \in EffectOps /\ s \in Scopes
    BY <1>1 DEF ModelInv, CmdInv, CmdOK, Scopes
  <1>3. CASE Refuse(x) /\ UNCHANGED intents
    BY <1>1, <1>3, GrowNothing, RefuseService
  <1>4. CASE /\ s \in DOMAIN intents /\ UNCHANGED intents
             /\ job' = [job EXCEPT ![x].pc = "receipt", ![x].outcome = "unknown"]
    <2>1. Turn(x) /\ Kept(x, {"pc", "outcome"})
      BY <1>1, <1>4, OutcomeMoves
    <2>2. job'[x].cmd = c
      BY <2>1 DEF Kept, JobFields
    <2>3. Backed(c, "unknown")'
      BY <1>2, <1>4, <2>2, EffectBacked
    <2> QED BY <1>1, <1>4, <2>3, GrowNothing, EndsService
  <1>5. CASE /\ s \notin DOMAIN intents /\ intents' = With(intents, s, job[x].digest.material)
             /\ job' = [job EXCEPT ![x].pc = IF c.op = "model" THEN FirstPoint(c.input) ELSE "dispatch",
                                   ![x].req = IF c.op = "model" THEN c.input ELSE None]
    <2> DEFINE to == IF c.op = "model" THEN FirstPoint(c.input) ELSE "dispatch"
               q == IF c.op = "model" THEN c.input ELSE None
    <2>1. to \in {"mock", "reserve", "dispatch"} /\ job' = [job EXCEPT ![x].pc = to, ![x].req = q]
      BY <1>5 DEF FirstPoint
    <2> HIDE DEF to, q
    <2>2. Turn(x) /\ Kept(x, {"pc", "req"}) /\ job'[x].pc = to
      BY <1>1, <2>1, RequestMoves
    <2>3. job'[x].cmd = c /\ job'[x].expected = job[x].expected
      BY <2>2 DEF Kept, JobFields
    <2>4. DOMAIN intents' = DOMAIN intents \cup {s}
      BY <1>5 DEF With
    <2>5. Grow
      BY <1>1, <2>4 DEF Grow
    <2>6. JobInv(x)'
      <3>1. job'[x].expected = Unset \/ (job'[x].expected \in Nat /\ job'[x].expected <= head')
        BY <1>1, <2>3 DEF ServiceInv, JobInv
      <3>2. Scope(job[x].cmd)' = s
        BY <2>3 DEF Scope
      <3> QED BY <2>1, <2>2, <2>3, <2>4, <3>1, <3>2 DEF JobInv
    <2>7. DispatchInv'
      <3>1. \A y \in Callers : y # x => job'[y] = job[y]
        BY <2>2 DEF Turn
      <3>2. \A y \in Callers : job[y].pc = "dispatch" => Scope(job[y].cmd) \in DOMAIN intents
        BY DEF ServiceInv, JobInv, ModelInv, CmdInv, CmdOK, EffectOps
      <3>3. done[s] = 0
        BY <1>2, <1>5 DEF ServiceInv, DispatchInv
      <3>4. Scope(job'[x].cmd) = s
        BY <2>3
      <3>5. \A y \in Callers : job'[y].pc = "dispatch" => done'[Scope(job'[y].cmd)] = 0
        BY <1>1, <3>1, <3>3, <3>4 DEF ServiceInv, DispatchInv
      <3>6. \A y, z \in Callers : y # z /\ job'[y].pc = "dispatch" /\ job'[z].pc = "dispatch"
               => Scope(job'[y].cmd) # Scope(job'[z].cmd)
        <4> SUFFICES ASSUME NEW y \in Callers, NEW z \in Callers, y # z,
                            job'[y].pc = "dispatch", job'[z].pc = "dispatch"
                     PROVE  Scope(job'[y].cmd) # Scope(job'[z].cmd)
          OBVIOUS
        <4>1. CASE y = x
          <5>1. Scope(job'[z].cmd) \in DOMAIN intents
            BY <3>1, <3>2, <4>1
          <5> QED BY <1>5, <3>4, <4>1, <5>1
        <4>2. CASE z = x
          <5>1. Scope(job'[y].cmd) \in DOMAIN intents
            BY <3>1, <3>2, <4>2
          <5> QED BY <1>5, <3>4, <4>2, <5>1
        <4>3. CASE y # x /\ z # x
          BY <3>1, <4>3 DEF ServiceInv, DispatchInv
        <4> QED BY <4>1, <4>2, <4>3
      <3> QED BY <1>1, <2>4, <3>5, <3>6 DEF ServiceInv, DispatchInv
    <2>8. EvidenceInv' /\ ReceiptInv' /\ IssuedInv'
      BY <1>1, <2>5, EvidenceKept, ReceiptKept, IssuedKept DEF ServiceInv, Shaped
    <2>9. \A y \in Callers : JobInv(y)'
      <3> SUFFICES ASSUME NEW y \in Callers PROVE JobInv(y)'
        OBVIOUS
      <3>1. CASE y # x
        BY <1>1, <2>2, <2>5, <3>1, JobKept DEF ServiceInv, Turn
      <3> QED BY <2>6, <3>1
    <2> QED BY <1>1, <2>7, <2>8, <2>9 DEF ServiceInv
  <1> QED BY <1>3, <1>4, <1>5, Zenon DEF ReserveEffect, MayReserve

LEMMA DispatchService ==
    ASSUME ModelInv, ServiceInv, NEW x \in Callers, Dispatch(x)
    PROVE  ServiceInv'
  <1> DEFINE c == job[x].cmd
             s == Scope(c)
  <1>1. /\ Shaped /\ UNCHANGED <<calls, ledger, facts, cas, receipts, intents, issued, load>>
        /\ job[x].pc = "dispatch" /\ Still /\ done' = [done EXCEPT ![s] = @ + 1]
        /\ job' = [job EXCEPT ![x].pc = "receipt", ![x].outcome = "dispatched"]
    BY DEF Dispatch, callVars, simVars, ModelInv, Still
  <1>2. c \in Commands /\ c.op = "dispatch" /\ s \in Scopes /\ s \in DOMAIN intents /\ done[s] = 0
    BY <1>1 DEF ModelInv, CmdInv, CmdOK, Scopes, ServiceInv, JobInv, DispatchInv, EffectOps
  <1>3. /\ done' \in [Scopes -> 0 .. 1] /\ done'[s] = 1 /\ \A t \in Scopes : t # s => done'[t] = done[t]
    BY <1>1, <1>2 DEF ServiceInv, DispatchInv
  <1>4. Grow
    BY <1>1, <1>2, <1>3 DEF Grow
  <1>5. Turn(x) /\ Kept(x, {"pc", "outcome"}) /\ job'[x].pc = "receipt" /\ job'[x].outcome = "dispatched"
    BY <1>1, OutcomeMoves
  <1>6. job'[x].cmd = c /\ job'[x].expected = job[x].expected
    BY <1>5 DEF Kept, JobFields
  <1>7. DispatchInv'
    <2>1. \A y \in Callers : job'[y].pc = "dispatch" => y # x /\ job'[y] = job[y]
      BY <1>5 DEF Turn
    <2>2. \A y \in Callers : job'[y].pc = "dispatch" => Scope(job[y].cmd) \in Scopes /\ Scope(job[y].cmd) # s
      BY <1>1, <2>1 DEF ModelInv, CmdInv, CmdOK, Scopes, ServiceInv, DispatchInv, EffectOps
    <2>3. \A y \in Callers : job'[y].pc = "dispatch" => done'[Scope(job'[y].cmd)] = 0
      BY <1>3, <2>1, <2>2 DEF ServiceInv, DispatchInv
    <2>4. \A y, z \in Callers : y # z /\ job'[y].pc = "dispatch" /\ job'[z].pc = "dispatch"
               => Scope(job'[y].cmd) # Scope(job'[z].cmd)
      BY <2>1 DEF ServiceInv, DispatchInv
    <2> QED BY <1>1, <1>2, <1>3, <2>3, <2>4 DEF ServiceInv, DispatchInv
  <1>8. EvidenceInv' /\ ReceiptInv' /\ IssuedInv'
    BY <1>1, <1>4, EvidenceKept, ReceiptKept, IssuedKept DEF ServiceInv, Shaped
  <1>9. JobInv(x)'
    <2>1. Backed(c, "dispatched")'
      BY <1>1, <1>2, <1>3, <1>6 DEF Backed, FactOps, EffectOps, EvaluationOps
    <2>2. head \in Nat /\ (job[x].expected = Unset \/ (job[x].expected \in Nat /\ job[x].expected <= head))
      BY DEF ModelInv, Shaped, ServiceInv, JobInv
    <2>3. job'[x].expected = Unset \/ (job'[x].expected \in Nat /\ job'[x].expected <= head')
      BY <1>1, <1>6, <2>2 DEF Still
    <2> QED BY <1>5, <1>6, <2>1, <2>3 DEF JobInv, ModelPcs, AppendPoints
  <1>10. \A y \in Callers : JobInv(y)'
    <2> SUFFICES ASSUME NEW y \in Callers PROVE JobInv(y)'
      OBVIOUS
    <2>1. CASE y # x
      BY <1>1, <1>4, <1>5, <2>1, JobKept DEF ServiceInv, Turn
    <2> QED BY <1>9, <2>1
  <1> QED BY <1>1, <1>7, <1>8, <1>10 DEF ServiceInv

(* A completed call yields a draft, or a text that is none.                *)
LEMMA DraftService ==
    ASSUME ModelInv, ServiceInv, NEW x \in Callers, GeneratedDraft(x),
           job[x].cmd.op \in {"model", "observe"},
           job[x].cmd.input.call \in calls.closed \ calls.failed,
           job[x].cmd.op \in EffectOps => Scope(job[x].cmd) \in DOMAIN intents,
           UNCHANGED <<head, calls, snapshot, grant, ledger, facts, receipts, intents, issued, done, load>>
    PROVE  ServiceInv'
  <1> DEFINE c == job[x].cmd
  <1>1. PICK o \in {"draft", "invalid-draft"} :
            /\ job' = [job EXCEPT ![x].pc = "receipt", ![x].frozen = Unset, ![x].outcome = o]
            /\ cas \subseteq cas' /\ (o = "draft" => c.input.call \in cas')
    BY DEF GeneratedDraft
  <1>2. Grow /\ Still
    BY <1>1 DEF Grow, Still
  <1>3. c' = c
    BY <1>1, EndsCommand
  <1>4. Backed(c, o)'
    BY <1>1, <1>3 DEF Backed, FactOps, EvaluationOps, Scope
  <1> QED BY <1>1, <1>2, <1>4, EndsService

LEMMA GenerateService ==
    ASSUME ModelInv, ServiceInv, NEW x \in Callers, GenerateEnds(x)
    PROVE  ServiceInv'
  <1> DEFINE c == job[x].cmd
  <1>1. /\ UNCHANGED <<head, calls, snapshot, grant, ledger, facts, receipts, intents, issued, done, load>>
        /\ job[x].pc \in {"returned", "raised"} /\ Still
    BY DEF GenerateEnds, callVars, simVars, Still
  <1>2. c.op \in EffectOps => Scope(c) \in DOMAIN intents
    BY <1>1 DEF ServiceInv, JobInv, ModelPcs
  <1>3. CASE job[x].pc = "returned" /\ c.op = "model" /\ GeneratedDraft(x)
    <2>1. c.input.call \in calls.closed \ calls.failed
      BY <1>3 DEF ServiceInv, JobInv, ModelInv, CmdInv, CmdOK, ModelPcs
    <2> QED BY <1>1, <1>2, <1>3, <2>1, DraftService
  <1>4. CASE Refuse(x) /\ UNCHANGED cas
    BY <1>1, <1>4, GrowNothing, RefuseService
  <1>5. CASE /\ c.op = "model" /\ UNCHANGED cas
             /\ job' = [job EXCEPT ![x].pc = "receipt", ![x].frozen = Unset, ![x].outcome = "uncertain"]
    <2>1. c' = c /\ c.op \in EffectOps
      BY <1>5, EndsCommand DEF EffectOps
    <2>2. Backed(c, "uncertain")'
      BY <1>1, <1>2, <1>5, <2>1 DEF Backed, FactOps, EffectOps, EvaluationOps, Scope
    <2> QED BY <1>1, <1>5, <2>2, GrowNothing, EndsService
  <1> QED BY <1>3, <1>4, <1>5 DEF GenerateEnds

LEMMA ObserveService ==
    ASSUME ModelInv, ServiceInv, NEW x \in Callers, ObserveModel(x)
    PROVE  ServiceInv'
  <1> DEFINE c == job[x].cmd
  <1>1. /\ UNCHANGED <<head, calls, snapshot, grant, ledger, facts, receipts, intents, issued, done, load>>
        /\ job[x].pc = "observe" /\ Still
    BY DEF ObserveModel, callVars, simVars, Still
  <1>2. c.op = "observe"
    BY <1>1 DEF ModelInv, CmdInv, CmdOK
  <1>3. CASE c.input.call \in calls.closed \ calls.failed /\ GeneratedDraft(x)
    BY <1>1, <1>2, <1>3, DraftService DEF EffectOps
  <1>4. CASE /\ UNCHANGED cas
             /\ job' = [job EXCEPT ![x].pc = "receipt",
                                   ![x].outcome = IF c.input.call \in calls.failed THEN "failed" ELSE "unknown"]
    <2>1. PICK o \in {"failed", "unknown"} : job' = [job EXCEPT ![x].pc = "receipt", ![x].outcome = o]
      BY <1>4
    <2>2. c' = c
      BY <2>1, EndsCommand
    <2>3. Backed(c, o)'
      BY <1>2, <2>1, <2>2 DEF Backed, FactOps, EffectOps, EvaluationOps
    <2> QED BY <1>1, <1>4, <2>1, <2>3, GrowNothing, EndsService
  <1> QED BY <1>3, <1>4 DEF ObserveModel

LEMMA EvaluateService ==
    ASSUME ModelInv, ServiceInv, NEW x \in Callers, Evaluate(x)
    PROVE  ServiceInv'
  <1> DEFINE c == job[x].cmd
  <1>1. /\ UNCHANGED <<head, calls, snapshot, grant, ledger, facts, receipts, intents, issued, done, load>>
        /\ job[x].pc = "evaluate" /\ Still
    BY DEF Evaluate, callVars, simVars, Still
  <1>2. c.op \in EvaluationOps
    BY <1>1 DEF ModelInv, CmdInv, CmdOK
  <1>3. CASE Refuse(x) /\ UNCHANGED cas
    BY <1>1, <1>3, GrowNothing, RefuseService
  <1>4. CASE EvaluationOK(c) /\ Step(x, "receipt") /\ cas' = cas \cup Stored(c)
    <2>1. Grow
      BY <1>1, <1>4 DEF Grow
    <2>2. Turn(x) /\ Kept(x, {"pc"}) /\ job'[x].pc = "receipt"
      BY <1>4, StepMoves DEF ModelInv
    <2>3. job'[x].cmd = c /\ job'[x].expected = job[x].expected /\ job'[x].outcome = job[x].outcome
      BY <2>2 DEF Kept, JobFields
    <2>4. Published' = Published
      BY <1>1 DEF Published
    <2>5. c.op = "inspect" => c.input.report \in Published
      BY <1>4 DEF EvaluationOK
    <2>6. Backed(c, job[x].outcome)'
      BY <1>2, <1>4, <2>3, <2>4, <2>5 DEF Backed, FactOps, EffectOps, EvaluationOps, Stored
    <2>7. JobInv(x)' /\ job'[x].pc # "dispatch"
      BY <1>1, <2>2, <2>3, <2>6, ReceiptJob
    <2> QED BY <1>1, <2>1, <2>2, <2>7, ServiceQuiet
  <1> QED BY <1>3, <1>4 DEF Evaluate

LEMMA PlanService ==
    ASSUME ModelInv, ServiceInv, NEW x \in Callers, PlanStep(x)
    PROVE  ServiceInv'
  <1> DEFINE c == job[x].cmd
             o == DryRun(c.input.spec)
  <1>1. /\ UNCHANGED <<head, calls, snapshot, grant, ledger, facts, cas, receipts, intents, issued, done, load>>
        /\ job[x].pc = "plan" /\ Still
    BY DEF PlanStep, callVars, simVars, serviceVars, Still
  <1>2. c.op = "plan" /\ c \in Commands
    BY <1>1 DEF ModelInv, CmdInv, CmdOK
  <1>3. CASE Refuse(x)
    BY <1>1, <1>3, GrowNothing, RefuseService
  <1>4. CASE SpecValid(c.input.spec) /\ job' = [job EXCEPT ![x].pc = "receipt", ![x].outcome = o]
    <2>1. StagesSound(c.input.spec, o)
      BY <1>2, <1>4, DryRunSound, WorkloadsAssumption
    <2>2. AuthorizationSound(c.input.spec, o, c.input.policy)
      BY <1>2, AuthorizedDecides, WorkloadsAssumption
    <2>3. PICK r : r = o
      OBVIOUS
    <2>4. job' = [job EXCEPT ![x].pc = "receipt", ![x].outcome = r]
      BY <1>4, <2>3
    <2>5. StagesSound(c.input.spec, r) /\ AuthorizationSound(c.input.spec, r, c.input.policy)
      BY <2>1, <2>2, <2>3
    <2>6. c' = c
      BY <2>4, EndsCommand
    <2>7. Backed(c, r)'
      BY <1>2, <2>5, <2>6 DEF Backed, FactOps, EffectOps, EvaluationOps
    <2> QED BY <1>1, <2>4, <2>7, GrowNothing, EndsService
  <1> QED BY <1>3, <1>4 DEF PlanStep

LEMMA SimEndsService ==
    ASSUME ModelInv, ServiceInv, NEW x \in Callers, SimulateEnds(x)
    PROVE  ServiceInv'
  <1> DEFINE c == job[x].cmd
  <1>1. /\ UNCHANGED <<head, calls, snapshot, grant, ledger, facts, cas, receipts, intents, issued, done, load>>
        /\ job[x].pc \in SimPcs /\ Still
    BY DEF SimulateEnds, callVars, simVars, serviceVars, Still, SimPcs
  <1>2. c.op \in {"simulate", "clisim"}
    BY <1>1 DEF ModelInv, CmdInv, CmdOK
  <1>3. CASE Refuse(x)
    BY <1>1, <1>3, GrowNothing, RefuseService
  <1>4. CASE job' = [job EXCEPT ![x].pc = "receipt", ![x].outcome = snapshot.status]
    <2>1. PICK r : job' = [job EXCEPT ![x].pc = "receipt", ![x].outcome = r]
      BY <1>4
    <2>2. c' = c
      BY <2>1, EndsCommand
    <2>3. Backed(c, r)'
      BY <1>2, <2>2 DEF Backed, FactOps, EffectOps, EvaluationOps
    <2> QED BY <1>1, <2>1, <2>3, GrowNothing, EndsService
  <1> QED BY <1>3, <1>4 DEF SimulateEnds

LEMMA SimService ==
    ASSUME ModelInv, ServiceInv, NEW x \in Callers, SimulateStep(x)
    PROVE  ServiceInv'
  <1>1. /\ UNCHANGED <<calls, grant, ledger, facts, cas, receipts, intents, issued, done, load>> /\ Still
    BY DEF SimulateStep, Simulate, SimPlan, SimFreeze, SimAppend, SimConflict, SimReturn,
           callVars, simVars, serviceVars, Still
  <1>2. Turn(x) /\ job'[x].pc \in SimPcs /\ job'[x].expected \in {Unset, job[x].expected}
    BY SimKeeps DEF ModelInv, CmdInv, CmdStep
  <1>3. JobInv(x)' /\ job'[x].pc # "dispatch"
    BY <1>1, <1>2, PlainJob DEF SimPcs, ModelPcs, AppendPoints
  <1> QED BY <1>1, <1>2, <1>3, GrowNothing, ServiceQuiet

(* A step of a call: what ended without a failure stays so, and a call     *)
(* returns only then.                                                      *)
LEMMA CallGrows ==
    ASSUME ModelInv, NEW x \in Callers, Generate(x)
    PROVE  /\ calls.closed \ calls.failed \subseteq calls'.closed \ calls'.failed
           /\ job[x].pc \in ModelPcs
           /\ Turn(x) /\ Kept(x, {"pc", "frozen"}) /\ job'[x].pc \in ModelPcs
           /\ job'[x].pc = "returned" => job[x].req.call \in calls'.closed \ calls'.failed
  <1>0. Shaped /\ CallInv /\ Rec(calls, CallFields)
    BY DEF ModelInv, Shaped
  <1>1. CASE Commit(x)
    <2>1. /\ calls' = NextCalls(x) /\ Go(x, After(x)) /\ job[x].pc \in AppendPoints
          /\ After(x) \in ModelPcs /\ (After(x) = "returned" <=> job[x].pc = "complete")
      BY <1>1 DEF Commit, After, ModelPcs, AppendPoints
    <2>2. Turn(x) /\ Kept(x, {"pc", "frozen"}) /\ job'[x].pc = After(x)
      BY <1>0, <2>1, GoMoves
    <2>3. calls' \in {calls, Started(calls, job[x].req), Ended(calls, job[x].req), Failed(calls, job[x].req)}
      BY <2>1 DEF NextCalls
    <2>4. CASE job[x].pc = "complete"
      <3>1. calls' = Ended(calls, job[x].req) /\ job[x].req.call \in calls.open
        BY <1>0, <2>1, <2>4 DEF NextCalls, CallInv, Holding
      <3> QED BY <1>0, <2>1, <2>2, <3>1 DEF Ended, Rec, CallFields, CallInv, ModelPcs
    <2>5. CASE job[x].pc = "fail"
      <3>1. calls' = Failed(calls, job[x].req) /\ job[x].req.call \in calls.open
        BY <1>0, <2>1, <2>5 DEF NextCalls, CallInv, Holding
      <3>2. job[x].req.call \notin calls.closed
        BY <1>0, <3>1 DEF CallInv
      <3>3. calls'.closed = calls.closed \cup {job[x].req.call} /\ calls'.failed = calls.failed \cup {job[x].req.call}
        BY <1>0, <3>1 DEF Failed, Ended, Rec, CallFields
      <3> QED BY <2>1, <2>2, <2>5, <3>2, <3>3 DEF ModelPcs
    <2>6. CASE job[x].pc \notin {"fail", "complete"}
      <3>1. calls' \in {calls, Started(calls, job[x].req)}
        BY <2>1, <2>6 DEF NextCalls
      <3>2. calls'.closed = calls.closed /\ calls'.failed = calls.failed
        BY <1>0, <3>1 DEF Started, Rec, CallFields
      <3> QED BY <2>1, <2>2, <2>6, <3>2 DEF ModelPcs
    <2> QED BY <2>4, <2>5, <2>6
  <1>2. CASE Freeze(x)
    <2>1. calls' = calls /\ job[x].pc \in AppendPoints
      BY <1>2 DEF Freeze, callVars
    <2>2. CASE \E pc \in {"exceed", job[x].pc} : job' = [job EXCEPT ![x].frozen = head, ![x].pc = pc]
      <3>1. PICK pc \in {"exceed", job[x].pc} : job' = [job EXCEPT ![x].frozen = head, ![x].pc = pc]
        BY <2>2
      <3>2. Turn(x) /\ Kept(x, {"frozen", "pc"}) /\ job'[x].pc = pc
        BY <1>0, <3>1, FreezeMoves
      <3> QED BY <2>1, <3>1, <3>2 DEF ModelPcs, AppendPoints, Kept
    <2>3. CASE \E pc \in {"undo", "raised"} : Go(x, pc)
      BY <1>0, <2>1, <2>3, GoMoves DEF ModelPcs, AppendPoints
    <2> QED BY <1>2, <2>2, <2>3 DEF Freeze, OnError
  <1>3. CASE ~Commit(x) /\ ~Freeze(x)
    <2>1. /\ calls' = calls /\ job[x].pc \in ModelPcs
          /\ \E pc \in {"undo", "raised", "consume", "complete", "release", "fail"} : Go(x, pc)
      BY <1>3 DEF Generate, Conflict, OnError, HttpAnswered, HttpUnsent, HttpUncertain, HttpUnusable,
                  callVars, ModelPcs
    <2> QED BY <1>0, <2>1, GoMoves DEF ModelPcs, AppendPoints
  <1> QED BY <1>1, <1>2, <1>3

LEMMA ModelService ==
    ASSUME ModelInv, ServiceInv, NEW x \in Callers, ModelStep(x)
    PROVE  ServiceInv'
  <1> DEFINE c == job[x].cmd
  <1>1. /\ UNCHANGED <<snapshot, grant, ledger, facts, cas, receipts, intents, issued, done, load>>
        /\ Generate(x) /\ Still
    BY DEF ModelStep, Generate, Freeze, Commit, Conflict, HttpAnswered, HttpUnsent, HttpUncertain, HttpUnusable,
           simVars, serviceVars, Still
  <1>2. /\ calls.closed \ calls.failed \subseteq calls'.closed \ calls'.failed
        /\ job[x].pc \in ModelPcs
        /\ Turn(x) /\ Kept(x, {"pc", "frozen"}) /\ job'[x].pc \in ModelPcs
        /\ job'[x].pc = "returned" => job[x].req.call \in calls'.closed \ calls'.failed
    BY <1>1, CallGrows
  <1>3. job'[x].cmd = c /\ job'[x].expected = job[x].expected /\ job'[x].req = job[x].req
    BY <1>2 DEF Kept, JobFields
  <1>4. Grow
    BY <1>1, <1>2 DEF Grow
  <1>5. c.op \in EffectOps => Scope(c) \in DOMAIN intents
    BY <1>2 DEF ServiceInv, JobInv
  <1>6. JobInv(x)'
    <2>1. head \in Nat /\ (job[x].expected = Unset \/ (job[x].expected \in Nat /\ job[x].expected <= head))
      BY DEF ModelInv, Shaped, ServiceInv, JobInv
    <2>2. job'[x].expected = Unset \/ (job'[x].expected \in Nat /\ job'[x].expected <= head')
      BY <1>1, <1>3, <2>1 DEF Still
    <2>3. job'[x].pc \notin {"append", "receipt"}
      BY <1>2 DEF ModelPcs, AppendPoints
    <2>4. c'.op \in EffectOps => Scope(c)' \in DOMAIN intents'
      BY <1>1, <1>3, <1>5 DEF Scope
    <2> QED BY <1>2, <1>3, <2>2, <2>3, <2>4 DEF JobInv
  <1>7. job'[x].pc # "dispatch"
    BY <1>2 DEF ModelPcs, AppendPoints
  <1> QED BY <1>1, <1>2, <1>4, <1>6, <1>7, ServiceQuiet

(* The processes outside the service.                                      *)
LEMMA OutsideService ==
    ASSUME ModelInv, ServiceInv, job' = job, Still,
           UNCHANGED <<calls, ledger, facts, cas, receipts, intents, issued, done, load>>
    PROVE  ServiceInv'
  <1>1. Grow
    BY GrowNothing
  <1>2. EvidenceInv' /\ ReceiptInv'
    BY <1>1, EvidenceKept, ReceiptKept DEF ServiceInv
  <1>3. IssuedInv'
    BY IssuedKept DEF ServiceInv, ModelInv, Shaped
  <1>4. DispatchInv'
    BY DEF ServiceInv, DispatchInv
  <1>5. \A y \in Callers : JobInv(y)'
    BY <1>1, JobKept DEF ServiceInv
  <1> QED BY <1>2, <1>3, <1>4, <1>5 DEF ServiceInv

LEMMA ServiceInductive ==
    ASSUME ModelInv, ServiceInv, [Next]_vars
    PROVE  ServiceInv'
  <1>1. ASSUME NEW x \in Callers, ClientStep(x) \/ Crash(x) PROVE ServiceInv'
    <2>1. CASE FactStep(x)
      BY <2>1, LookupService, PrepareService, AppendFactService, AppendRefusedService, ReceiptService DEF FactStep
    <2>2. CASE OperationStep(x)
      BY <2>2, ReserveService, DispatchService, StopService, ModelService, GenerateService, ObserveService,
         SimService, SimEndsService, EvaluateService, PlanService DEF OperationStep
    <2>3. CASE \E c \in work : Issue(x, c) \/ CliCall(x, c)
      BY <2>3, IssueService, CliService
    <2>4. CASE Crash(x)
      BY <2>4, StopService
    <2> QED BY <1>1, <2>1, <2>2, <2>3, <2>4 DEF ClientStep
  <1>2. ASSUME NEW cap \in Limits, RecordLimit(cap), UNCHANGED <<simVars, serviceVars>> PROVE ServiceInv'
    BY <1>2, OutsideService DEF RecordLimit, simVars, serviceVars, Still
  <1>3. CASE OtherWriter
    BY <1>3, OutsideService DEF OtherWriter, RunFact, Still
  <1>4. CASE Authorization
    BY <1>4, OutsideService DEF Authorization, RecordAuthorization, callVars, serviceVars, Still
  <1>5. CASE EditMaterial
    BY <1>5, OutsideService DEF EditMaterial, callVars, simVars, Still
  <1>6. CASE UNCHANGED vars
    BY <1>6, OutsideService DEF vars, callVars, simVars, serviceVars, Still
  <1> QED BY <1>1, <1>2, <1>3, <1>4, <1>5, <1>6 DEF Next

LEMMA ServiceStarts ==
    ASSUME Init
    PROVE  ServiceInv
  <1>1. \A x \in Callers : job[x] = Idle
    BY DEF Init
  <1>2. \A x \in Callers : JobInv(x)
    <2>1. Idle.pc = "idle" /\ Idle.expected = Unset
      BY DEF Idle
    <2> QED BY <1>1, <2>1 DEF JobInv, ModelPcs, AppendPoints
  <1>3. LedgerWellFormed(ledger)
    BY WorkloadsAssumption DEF Init
  <1>4. DOMAIN facts = {} /\ DOMAIN receipts = {}
    BY DEF Init
  <1>5. EvidenceInv /\ ReceiptInv
    BY <1>4 DEF EvidenceInv, ReceiptInv
  <1>6. DispatchInv /\ IssuedInv
    <2>1. \A x \in Callers : job[x].pc = "idle"
      BY <1>1, IdleShape
    <2> QED BY <2>1 DEF Init, DispatchInv, IssuedInv
  <1> QED BY <1>2, <1>3, <1>5, <1>6 DEF ServiceInv

(* A native run is started, a backup restored and a model request sent at  *)
(* most once per scope, whatever clients race, crash, retry or bypass the  *)
(* service.                                                                *)
THEOREM EffectOnce == Spec => []EffectAtMostOnce
  <1>1. Init => ModelInv /\ ServiceInv
    BY ModelStarts, ServiceStarts
  <1>2. ModelInv /\ ServiceInv /\ [Next]_vars => ModelInv' /\ ServiceInv'
    BY ModelInductive, ServiceInductive
  <1>3. ModelInv /\ ServiceInv => EffectAtMostOnce
    BY DEF ModelInv, CallInv, ServiceInv, DispatchInv, EffectAtMostOnce
  <1> QED BY <1>1, <1>2, <1>3, PTL DEF Spec

(* A receipt never claims what the log and the stores do not hold: its     *)
(* fact, its artifacts, its reserved scope, its completed call, a plan in  *)
(* order and fully decided.                                                *)
THEOREM ReceiptsBacked == Spec => []ReceiptBacked
  <1>1. Init => ModelInv /\ ServiceInv
    BY ModelStarts, ServiceStarts
  <1>2. ModelInv /\ ServiceInv /\ [Next]_vars => ModelInv' /\ ServiceInv'
    BY ModelInductive, ServiceInductive
  <1>3. ServiceInv => ReceiptBacked
    BY DEF ServiceInv, ReceiptInv, ReceiptBacked
  <1> QED BY <1>1, <1>2, <1>3, PTL DEF Spec

(* The ledger of the committed research facts is consistent, although each *)
(* fact was validated against a head that others may have moved.           *)
THEOREM LedgerSound == Spec => []LedgerConsistent
  <1>1. Init => ModelInv /\ ServiceInv
    BY ModelStarts, ServiceStarts
  <1>2. ModelInv /\ ServiceInv /\ [Next]_vars => ModelInv' /\ ServiceInv'
    BY ModelInductive, ServiceInductive
  <1>3. ServiceInv => LedgerConsistent
    BY WellFormedConsistent DEF ServiceInv, LedgerConsistent
  <1> QED BY <1>1, <1>2, <1>3, PTL DEF Spec

-----------------------------------------------------------------------------
(* What a simulation appends, and how the run it appends to moves.         *)

(* What a simulation appends.                                              *)
SimTypes == LifecycleTypes \cup MetricTypes

(* Where a path has its queueing, its start and its end.                   *)
LEMMA PathShape ==
    ASSUME NEW o
    PROVE  LET p == PathOf(o) IN
           /\ p \in Seq(SimTypes) /\ Len(p) \in 5 .. 6
           /\ p[1] = "run.queued" /\ p[4] = "attempt.started"
           /\ \A i \in 1 .. Len(p) :
                 /\ p[i] = "run.queued" => i = 1
                 /\ p[i] = "attempt.started" => i = 4
                 /\ p[i] = "run.completed" => i = 6 /\ o = "success"
                 /\ p[i] = "run.failed" => o = "failure"
                 /\ p[i] \notin {"attempt.cancelled", "run.cancelled"}
  <1> DEFINE a == <<"run.queued", "run.started", "attempt.queued", "attempt.started">>
             b == CASE o = "success" -> <<"attempt.succeeded", "run.completed">>
                    [] o = "failure" -> <<"attempt.failed", "run.failed">>
                    [] OTHER -> <<"attempt.unknown">>
             p == PathOf(o)
  <1>1. /\ a \in Seq(SimTypes) /\ Len(a) = 4
        /\ a[1] = "run.queued" /\ a[2] = "run.started" /\ a[3] = "attempt.queued" /\ a[4] = "attempt.started"
    BY DEF SimTypes, LifecycleTypes, RunTypes, AttemptTypes
  <1>2. /\ b \in Seq(SimTypes) /\ Len(b) \in 1 .. 2
        /\ b[1] \in {"attempt.succeeded", "attempt.failed", "attempt.unknown"}
        /\ Len(b) = 2 => \/ o = "success" /\ b[2] = "run.completed"
                         \/ o = "failure" /\ b[2] = "run.failed"
    <2>1. CASE o = "success"
      <3>1. b = <<"attempt.succeeded", "run.completed">>
        BY <2>1, Zenon
      <3> HIDE DEF b
      <3> QED BY <2>1, <3>1 DEF SimTypes, LifecycleTypes, RunTypes, AttemptTypes
    <2>2. CASE o = "failure"
      <3>1. b = <<"attempt.failed", "run.failed">>
        BY <2>2, Zenon
      <3> HIDE DEF b
      <3> QED BY <2>2, <3>1 DEF SimTypes, LifecycleTypes, RunTypes, AttemptTypes
    <2>3. CASE o \notin {"success", "failure"}
      <3>1. b = <<"attempt.unknown">>
        BY <2>3, Zenon
      <3> HIDE DEF b
      <3> QED BY <3>1 DEF SimTypes, LifecycleTypes, RunTypes, AttemptTypes
    <2> HIDE DEF b
    <2> QED BY <2>1, <2>2, <2>3
  <1>3. p = a \o b
    BY DEF PathOf
  <1> HIDE DEF a, b, p
  <1>4. /\ p \in Seq(SimTypes) /\ Len(p) = 4 + Len(b)
        /\ \A i \in 1 .. 4 + Len(b) : p[i] = IF i <= 4 THEN a[i] ELSE b[i - 4]
    <2>1. a \in Seq(SimTypes) /\ b \in Seq(SimTypes) /\ Len(a) = 4
      BY <1>1, <1>2
    <2>2. /\ a \o b \in Seq(SimTypes) /\ Len(a \o b) = Len(a) + Len(b)
          /\ \A i \in 1 .. Len(a) + Len(b) : (a \o b)[i] = IF i <= Len(a) THEN a[i] ELSE b[i - Len(a)]
      BY <2>1, ConcatProperties, Zenon
    <2> QED BY <1>3, <2>1, <2>2
  <1>5. /\ p[1] = "run.queued" /\ p[2] = "run.started" /\ p[3] = "attempt.queued" /\ p[4] = "attempt.started"
        /\ p[5] \in {"attempt.succeeded", "attempt.failed", "attempt.unknown"}
        /\ Len(p) \in 5 .. 6
        /\ Len(p) = 6 => \/ o = "success" /\ p[6] = "run.completed"
                         \/ o = "failure" /\ p[6] = "run.failed"
    <2>1. {1, 2, 3, 4, 5} \subseteq 1 .. 4 + Len(b) /\ Len(p) \in 5 .. 6 /\ (Len(p) = 6 => 6 \in 1 .. 4 + Len(b) /\ Len(b) = 2)
      BY <1>2, <1>4
    <2>2. /\ p[1] = a[1] /\ p[2] = a[2] /\ p[3] = a[3] /\ p[4] = a[4] /\ p[5] = b[1]
          /\ Len(p) = 6 => p[6] = b[2]
      BY <1>4, <2>1
    <2> QED BY <1>1, <1>2, <2>1, <2>2, Zenon
  <1>6. \A i \in 1 .. Len(p) : i \in 1 .. 5 \/ (i = 6 /\ Len(p) = 6)
    <2>1. Len(p) \in 5 .. 6
      BY <1>5
    <2>2. \A n \in 5 .. 6 : \A i \in 1 .. n : i \in 1 .. 5 \/ (i = 6 /\ n = 6)
      OBVIOUS
    <2> QED BY <2>1, <2>2, Zenon
  <1> QED BY <1>4, <1>5, <1>6 DEF p

(* A run that exists has emitted something.                                *)
LEMMA EmittedSome ==
    ASSUME NEW s
    PROVE  Len(Emitted(s)) \in Nat \ {0}
  <1> DEFINE d == CASE First(s).status = "succeeded" -> <<"attempt.succeeded">>
                    [] First(s).status = "failed" -> <<"attempt.failed">>
                    [] First(s).status = "cancelled" -> <<"attempt.cancelled">>
                    [] First(s).status = "unknown" -> <<"attempt.unknown">>
                    [] OTHER -> <<>>
             c == IF First(s).status = "queued" THEN <<>> ELSE <<"attempt.started">> \o d
             b == IF s.attempts = <<>> THEN <<>> ELSE <<"attempt.queued">> \o c
             a == IF s.status = "queued" THEN <<>> ELSE <<"run.started">> \o b
  <1>2. d \in Seq(SimTypes)
    <2>1. d \in {<<"attempt.succeeded">>, <<"attempt.failed">>, <<"attempt.cancelled">>, <<"attempt.unknown">>, <<>>}
      BY Zenon
    <2> HIDE DEF d
    <2>2. \A t \in SimTypes : <<t>> \in Seq(SimTypes)
      OBVIOUS
    <2>3. {"attempt.succeeded", "attempt.failed", "attempt.cancelled", "attempt.unknown"} \subseteq SimTypes
      BY DEF SimTypes, LifecycleTypes, AttemptTypes
    <2>4. <<>> \in Seq(SimTypes)
      OBVIOUS
    <2> QED BY <2>1, <2>2, <2>3, <2>4, Zenon
  <1>3. <<>> \in Seq(SimTypes) /\ {<<"run.queued">>, <<"run.started">>, <<"attempt.queued">>, <<"attempt.started">>} \subseteq Seq(SimTypes)
    BY DEF SimTypes, LifecycleTypes, RunTypes, AttemptTypes
  <1>4. Emitted(s) = <<"run.queued">> \o a
    BY DEF Emitted
  <1> HIDE DEF d
  <1>5. c \in Seq(SimTypes)
    BY <1>2, <1>3, ConcatProperties
  <1> HIDE DEF c
  <1>6. b \in Seq(SimTypes)
    BY <1>3, <1>5, ConcatProperties
  <1> HIDE DEF b
  <1>7. a \in Seq(SimTypes)
    BY <1>3, <1>6, ConcatProperties
  <1> HIDE DEF a
  <1>8. Len(Emitted(s)) = Len(<<"run.queued">>) + Len(a)
    BY <1>3, <1>4, <1>7, ConcatProperties
  <1>9. Len(<<"run.queued">>) = 1 /\ Len(a) \in Nat
    BY <1>7, LenProperties
  <1> QED BY <1>8, <1>9

(* What a cancellation appends.                                            *)
Cancels == {"attempt.cancelled", "run.cancelled"}

(* What is left of a path: the path from some place on, or cancellations.  *)
LEMMA RemainingShape ==
    ASSUME NEW s, NEW o
    PROVE  LET p == PathOf(o)
               l == Remaining(s, o) IN
           \/ s = None /\ l = p
           \/ s # None /\ \E k \in Nat : k >= 2 /\ l = SubSeq(p, k, Len(p))
           \/ s # None /\ l \in Seq(Cancels)
  <1> DEFINE p == PathOf(o)
             l == Remaining(s, o)
  <1>1. CASE s = None
    BY <1>1 DEF Remaining
  <1>2. CASE s # None /\ s.status \in TerminalRun \cup {"unknown", "lost"}
    <2>1. l = <<>>
      BY <1>2 DEF Remaining
    <2> QED BY <1>2, <2>1
  <1>3. CASE /\ s # None /\ s.status \notin TerminalRun \cup {"unknown", "lost"}
             /\ ~OutcomeObserved(s) /\ CancellationActionable(s)
    <2> DEFINE a == IF s.active # None /\ (s.cancelRequested \/ ActiveCancelRequested(s)) THEN <<"attempt.cancelled">> ELSE <<>>
               b == IF s.cancelRequested THEN <<"run.cancelled">> ELSE <<>>
    <2>1. l = a \o b
      BY <1>3 DEF Remaining, CancelRemaining
    <2>2. a \in Seq(Cancels) /\ b \in Seq(Cancels)
      BY DEF Cancels
    <2> HIDE DEF a, b
    <2>3. l \in Seq(Cancels)
      BY <2>1, <2>2, ConcatProperties
    <2> QED BY <1>3, <2>3
  <1>4. CASE /\ s # None /\ s.status \notin TerminalRun \cup {"unknown", "lost"}
             /\ ~(~OutcomeObserved(s) /\ CancellationActionable(s))
    <2>1. l = SubSeq(p, Len(Emitted(s)) + 1, Len(p))
      BY <1>4 DEF Remaining
    <2>2. Len(Emitted(s)) + 1 \in Nat /\ Len(Emitted(s)) + 1 >= 2
      BY EmittedSome
    <2> QED BY <1>4, <2>1, <2>2
  <1> QED BY <1>1, <1>2, <1>3, <1>4

(* Metrics put in after the first n of the events left.                    *)
Insertion(t, l, M, n) ==
    \/ n = 0 /\ t = M \o l
    \/ n # 0 /\ t = SubSeq(l, 1, n) \o M \o SubSeq(l, n + 1, Len(l))

Spliced(t, l, M, n) ==
    /\ Len(t) = Len(l) + Len(M)
    /\ \A i \in 1 .. Len(t) : t[i] = IF i <= n THEN l[i] ELSE IF i <= n + Len(M) THEN M[i - n]
                                     ELSE l[i - Len(M)]

LEMMA Inserted ==
    ASSUME NEW S, NEW l \in Seq(S), NEW M \in Seq(S), NEW n \in 0 .. Len(l), NEW t, Insertion(t, l, M, n)
    PROVE  t \in Seq(S) /\ Spliced(t, l, M, n)
  <1>0. Len(l) \in Nat /\ Len(M) \in Nat /\ n \in Nat /\ n <= Len(l) /\ \A i \in 1 .. Len(l) : l[i] \in S
    BY LenProperties, ElementOfSeq
  <1>1. CASE n = 0 /\ t = M \o l
    <2>1. /\ t \in Seq(S) /\ Len(t) = Len(M) + Len(l)
          /\ \A i \in 1 .. Len(M) + Len(l) : t[i] = IF i <= Len(M) THEN M[i] ELSE l[i - Len(M)]
      BY <1>1, ConcatProperties
    <2> QED BY <1>0, <1>1, <2>1 DEF Spliced
  <1>2. CASE n # 0 /\ t = SubSeq(l, 1, n) \o M \o SubSeq(l, n + 1, Len(l))
    <2> DEFINE A == SubSeq(l, 1, n)
               B == SubSeq(l, n + 1, Len(l))
    <2>1. A \in Seq(S) /\ Len(A) = n /\ \A i \in 1 .. n : A[i] = l[i]
      <3>1. 1 \in Int /\ n \in Int /\ 1 <= n /\ n - 1 + 1 = n /\ \A i \in 1 .. n : l[i] \in S /\ 1 + i - 1 = i
        BY <1>0, <1>2
      <3>2. A \in Seq(S) /\ Len(A) = n - 1 + 1 /\ \A i \in 1 .. n - 1 + 1 : A[i] = l[1 + i - 1]
        BY <3>1, SubSeqProperties
      <3> QED BY <3>1, <3>2
    <2>2. /\ B \in Seq(S) /\ Len(B) = Len(l) - n /\ \A i \in 1 .. Len(l) - n : B[i] = l[n + i]
      <3>1. /\ n + 1 \in Int /\ Len(l) \in Int /\ \A i \in n + 1 .. Len(l) : l[i] \in S
            /\ Len(l) - (n + 1) + 1 = Len(l) - n /\ \A i \in 1 .. Len(l) - n : n + 1 + i - 1 = n + i
        BY <1>0
      <3>2. /\ B \in Seq(S) /\ Len(B) = IF n + 1 <= Len(l) THEN Len(l) - (n + 1) + 1 ELSE 0
            /\ \A i \in 1 .. Len(l) - (n + 1) + 1 : B[i] = l[n + 1 + i - 1]
        BY <3>1, SubSeqProperties
      <3>3. Len(B) = Len(l) - n
        BY <1>0, <3>2
      <3> QED BY <3>1, <3>2, <3>3
    <2>3. t = (A \o M) \o B
      BY <1>2
    <2> HIDE DEF A, B
    <2>4. /\ A \o M \in Seq(S) /\ Len(A \o M) = n + Len(M)
          /\ \A i \in 1 .. n + Len(M) : (A \o M)[i] = IF i <= n THEN A[i] ELSE M[i - n]
      BY <2>1, ConcatProperties
    <2>5. /\ t \in Seq(S) /\ Len(t) = n + Len(M) + (Len(l) - n)
          /\ \A i \in 1 .. n + Len(M) + (Len(l) - n) :
                t[i] = IF i <= n + Len(M) THEN (A \o M)[i] ELSE B[i - (n + Len(M))]
      <3> DEFINE C == A \o M
      <3>1. C \in Seq(S) /\ B \in Seq(S) /\ Len(C) = n + Len(M) /\ Len(B) = Len(l) - n /\ t = C \o B
        BY <2>2, <2>3, <2>4
      <3> HIDE DEF C
      <3>2. /\ C \o B \in Seq(S) /\ Len(C \o B) = Len(C) + Len(B)
            /\ \A i \in 1 .. Len(C) + Len(B) : (C \o B)[i] = IF i <= Len(C) THEN C[i] ELSE B[i - Len(C)]
        BY <3>1, ConcatProperties, Zenon
      <3>3. /\ t \in Seq(S) /\ Len(t) = n + Len(M) + (Len(l) - n)
            /\ \A i \in 1 .. n + Len(M) + (Len(l) - n) : t[i] = IF i <= n + Len(M) THEN C[i] ELSE B[i - (n + Len(M))]
        BY <3>1, <3>2
      <3> QED BY <3>3 DEF C
    <2>6. Len(t) = Len(l) + Len(M)
      BY <1>0, <2>5
    <2>7. ASSUME NEW i \in 1 .. Len(t)
          PROVE  t[i] = IF i <= n THEN l[i] ELSE IF i <= n + Len(M) THEN M[i - n] ELSE l[i - Len(M)]
      <3>1. CASE i <= n + Len(M)
        <4>1. i \in 1 .. n + Len(M) /\ i \in 1 .. n + Len(M) + (Len(l) - n) /\ (i <= n => i \in 1 .. n)
          BY <1>0, <2>5, <3>1
        <4>2. t[i] = (A \o M)[i]
          BY <2>5, <3>1, <4>1
        <4>3. (A \o M)[i] = IF i <= n THEN A[i] ELSE M[i - n]
          BY <2>4, <4>1
        <4> QED BY <2>1, <3>1, <4>1, <4>2, <4>3
      <3>2. CASE ~(i <= n + Len(M))
        <4>1. i - (n + Len(M)) \in 1 .. Len(l) - n /\ n + (i - (n + Len(M))) = i - Len(M)
          BY <1>0, <2>5, <3>2
        <4>2. t[i] = B[i - (n + Len(M))]
          BY <2>5, <3>2
        <4>3. B[i - (n + Len(M))] = l[n + (i - (n + Len(M)))]
          BY <2>2, <4>1
        <4>4. t[i] = l[i - Len(M)] /\ ~(i <= n)
          BY <1>0, <3>2, <4>1, <4>2, <4>3
        <4> QED BY <3>2, <4>4
      <3> QED BY <3>1, <3>2
    <2> QED BY <2>5, <2>6, <2>7 DEF Spliced
  <1> QED BY <1>1, <1>2 DEF Insertion

(* The metrics of a request, each at its place.                            *)
LEMMA MetricsNamed ==
    ASSUME NEW r, r.metrics \subseteq MetricTypes
    PROVE  /\ MetricsOf(r) \in Seq(MetricTypes)
           /\ \A m \in r.metrics : \E j \in 1 .. Len(MetricsOf(r)) : MetricsOf(r)[j] = m
  <1> DEFINE a == IF "training.step" \in r.metrics THEN <<"training.step">> ELSE <<>>
             b == IF "evaluation.metric" \in r.metrics THEN <<"evaluation.metric">> ELSE <<>>
             M == MetricsOf(r)
  <1>1. M = a \o b
    BY DEF MetricsOf
  <1>2. /\ a \in Seq(MetricTypes) /\ Len(a) \in 0 .. 1
        /\ "training.step" \in r.metrics => Len(a) = 1 /\ a[1] = "training.step"
    <2>1. CASE "training.step" \in r.metrics
      <3>1. a = <<"training.step">>
        BY <2>1
      <3> HIDE DEF a
      <3> QED BY <2>1, <3>1 DEF MetricTypes
    <2>2. CASE "training.step" \notin r.metrics
      <3>1. a = <<>>
        BY <2>2
      <3> HIDE DEF a
      <3> QED BY <2>2, <3>1
    <2> HIDE DEF a
    <2> QED BY <2>1, <2>2
  <1>3. /\ b \in Seq(MetricTypes) /\ Len(b) \in 0 .. 1
        /\ "evaluation.metric" \in r.metrics => Len(b) = 1 /\ b[1] = "evaluation.metric"
    <2>1. CASE "evaluation.metric" \in r.metrics
      <3>1. b = <<"evaluation.metric">>
        BY <2>1
      <3> HIDE DEF b
      <3> QED BY <2>1, <3>1 DEF MetricTypes
    <2>2. CASE "evaluation.metric" \notin r.metrics
      <3>1. b = <<>>
        BY <2>2
      <3> HIDE DEF b
      <3> QED BY <2>2, <3>1
    <2> HIDE DEF b
    <2> QED BY <2>1, <2>2
  <1> HIDE DEF a, b, M
  <1>4. /\ M \in Seq(MetricTypes) /\ Len(M) = Len(a) + Len(b)
        /\ \A i \in 1 .. Len(a) + Len(b) : M[i] = IF i <= Len(a) THEN a[i] ELSE b[i - Len(a)]
    BY <1>1, <1>2, <1>3, ConcatProperties
  <1>5. ASSUME NEW m \in r.metrics PROVE \E j \in 1 .. Len(M) : M[j] = m
    <2>1. CASE m = "training.step"
      <3>1. 1 \in 1 .. Len(a) + Len(b) /\ 1 <= Len(a)
        BY <1>2, <1>3, <2>1
      <3>2. M[1] = m
        BY <1>2, <1>4, <2>1, <3>1
      <3> QED BY <1>4, <3>1, <3>2
    <2>2. CASE m = "evaluation.metric"
      <3>1. Len(a) + 1 \in 1 .. Len(a) + Len(b) /\ ~(Len(a) + 1 <= Len(a)) /\ Len(a) + 1 - Len(a) = 1
        BY <1>2, <1>3, <2>2
      <3>2. M[Len(a) + 1] = m
        BY <1>3, <1>4, <2>2, <3>1
      <3> QED BY <1>4, <3>1, <3>2
    <2> QED BY <2>1, <2>2 DEF MetricTypes
  <1> QED BY <1>4, <1>5 DEF M

(* What is still to be appended for r when the metrics of had are in the   *)
(* log: a completion comes after every metric that r names.                *)
TodoOK(r, todo, had) ==
    /\ todo \in Seq(SimTypes)
    /\ \A i \in 1 .. Len(todo) :
          /\ todo[i] = "run.queued" => i = 1
          /\ todo[i] = "run.failed" => r.outcome = "failure"
          /\ todo[i] = "run.completed" =>
                /\ r.outcome = "success"
                /\ \A m \in r.metrics : m \in had \/ \E j \in 1 .. i - 1 : todo[j] = m

(* The events that are left of a path from its k-th on.                    *)
Rest(o, k, l) ==
    /\ l \in Seq(SimTypes)
    /\ \A i \in 1 .. Len(l) : k + i - 1 \in 1 .. Len(PathOf(o)) /\ l[i] = PathOf(o)[k + i - 1]
    /\ k = 1 => Len(l) = Len(PathOf(o))

LEMMA RestIs ==
    ASSUME NEW o, NEW k \in Nat, k >= 1, NEW l,
           \/ k = 1 /\ l = PathOf(o)
           \/ k # 1 /\ l = SubSeq(PathOf(o), k, Len(PathOf(o)))
    PROVE  Rest(o, k, l)
  <1> DEFINE p == PathOf(o)
  <1>0. p \in Seq(SimTypes) /\ Len(p) \in Nat /\ \A i \in 1 .. Len(p) : p[i] \in SimTypes
    BY PathShape, LenProperties, ElementOfSeq
  <1> HIDE DEF p
  <1>1. CASE k = 1 /\ l = p
    BY <1>0, <1>1 DEF Rest, p
  <1>2. CASE k # 1 /\ l = SubSeq(p, k, Len(p))
    <2>1. /\ l \in Seq(SimTypes) /\ Len(l) = IF k <= Len(p) THEN Len(p) - k + 1 ELSE 0
          /\ \A i \in 1 .. Len(p) - k + 1 : l[i] = p[k + i - 1]
      <3>1. k \in Int /\ Len(p) \in Int /\ \A i \in k .. Len(p) : p[i] \in SimTypes
        BY <1>0
      <3> QED BY <1>2, <3>1, SubSeqProperties
    <2>2. \A i \in 1 .. Len(l) : k + i - 1 \in 1 .. Len(p) /\ i \in 1 .. Len(p) - k + 1
      BY <1>0, <2>1
    <2> QED BY <1>2, <2>1, <2>2 DEF Rest, p
  <1> QED BY <1>1, <1>2 DEF p

LEMMA RestShape ==
    ASSUME NEW o, NEW k \in Nat, k >= 1, NEW l, Rest(o, k, l)
    PROVE  \A i \in 1 .. Len(l) :
              /\ l[i] = "run.queued" => k = 1 /\ i = 1
              /\ l[i] = "attempt.started" => k + i = 5
              /\ l[i] = "run.completed" => k + i = 7 /\ o = "success"
              /\ l[i] = "run.failed" => o = "failure"
              /\ l[i] \notin Cancels
  <1> SUFFICES ASSUME NEW i \in 1 .. Len(l)
               PROVE  /\ l[i] = "run.queued" => k = 1 /\ i = 1
                      /\ l[i] = "attempt.started" => k + i = 5
                      /\ l[i] = "run.completed" => k + i = 7 /\ o = "success"
                      /\ l[i] = "run.failed" => o = "failure"
                      /\ l[i] \notin Cancels
    OBVIOUS
  <1> DEFINE p == PathOf(o)
             n == k + i - 1
  <1>1. n \in 1 .. Len(p) /\ l[i] = p[n]
    BY DEF Rest
  <1>2. /\ p[n] = "run.queued" => n = 1
        /\ p[n] = "attempt.started" => n = 4
        /\ p[n] = "run.completed" => n = 6 /\ o = "success"
        /\ p[n] = "run.failed" => o = "failure"
        /\ p[n] \notin Cancels
    BY <1>1, PathShape DEF Cancels
  <1>3. i \in Nat /\ i >= 1
    BY LenProperties DEF Rest
  <1> QED BY <1>1, <1>2, <1>3

(* The run is queued first, or was queued before.                          *)
QueuesFirst(todo) == Len(todo) > 0 /\ todo[1] = "run.queued"
QueuedBefore(todo) == \A i \in 1 .. Len(todo) : todo[i] # "run.queued"

(* The appends of a call put every metric before the completion.           *)
LEMMA StepsOfRest ==
    ASSUME NEW r, r.metrics \subseteq MetricTypes, NEW k \in Nat, k >= 1, NEW l, Rest(r.outcome, k, l)
    PROVE  /\ TodoOK(r, Steps(r, l), {})
           /\ IF k = 1 THEN QueuesFirst(Steps(r, l)) ELSE QueuedBefore(Steps(r, l))
  <1> DEFINE o == r.outcome
             t == Steps(r, l)
             M == MetricsOf(r)
  <1>0. /\ l \in Seq(SimTypes) /\ Len(l) \in Nat /\ DOMAIN l = 1 .. Len(l)
        /\ k = 1 => Len(l) > 0 /\ l[1] = "run.queued" /\ Len(l) >= 4 /\ l[4] = "attempt.started"
    <2>1. l \in Seq(SimTypes) /\ Len(l) \in Nat /\ DOMAIN l = 1 .. Len(l)
      BY LenProperties DEF Rest
    <2>2. ASSUME k = 1 PROVE Len(l) >= 4 /\ l[1] = "run.queued" /\ l[4] = "attempt.started"
      <3>1. Len(l) = Len(PathOf(o)) /\ Len(l) \in 5 .. 6 /\ PathOf(o)[1] = "run.queued" /\ PathOf(o)[4] = "attempt.started"
        BY <2>2, PathShape DEF Rest
      <3>2. 1 \in 1 .. Len(l) /\ 4 \in 1 .. Len(l) /\ k + 1 - 1 = 1 /\ k + 4 - 1 = 4
        BY <2>2, <3>1
      <3>3. l[1] = PathOf(o)[1] /\ l[4] = PathOf(o)[4]
        BY <3>2 DEF Rest
      <3> QED BY <3>1, <3>3
    <2> QED BY <2>1, <2>2
  <1>1. \A i \in 1 .. Len(l) :
              /\ l[i] = "run.queued" => k = 1 /\ i = 1
              /\ l[i] = "attempt.started" => k + i = 5
              /\ l[i] = "run.completed" => k + i = 7 /\ o = "success"
              /\ l[i] = "run.failed" => o = "failure"
              /\ l[i] \notin Cancels
    BY RestShape
  <1>2. CASE ~EmitsMetrics(r, l)
    <2>1. t = l
      BY <1>2 DEF Steps
    <2>2. o # "success" \/ Len(l) = 0
      <3>1. ToSet(l) \cap {"attempt.cancelled", "run.cancelled"} = {}
        BY <1>0, <1>1 DEF ToSet, Cancels
      <3>2. o # "success" \/ l = <<>>
        BY <1>2, <3>1 DEF EmitsMetrics
      <3> QED BY <3>2
    <2> HIDE DEF o, t
    <2>3. TodoOK(r, t, {})
      BY <1>0, <1>1, <2>1, <2>2 DEF TodoOK, o
    <2>4. IF k = 1 THEN QueuesFirst(t) ELSE QueuedBefore(t)
      BY <1>0, <1>1, <2>1 DEF QueuesFirst, QueuedBefore
    <2> QED BY <2>3, <2>4 DEF t
  <1>3. CASE EmitsMetrics(r, l)
    <2>0. o = "success"
      BY <1>3 DEF EmitsMetrics
    <2>1. M \in Seq(SimTypes) /\ M \in Seq(MetricTypes) /\ \A m \in r.metrics : \E j \in 1 .. Len(M) : M[j] = m
      BY MetricsNamed, SeqMonotonic DEF SimTypes
    <2>2. Len(M) \in Nat /\ \A j \in 1 .. Len(M) : M[j] \in MetricTypes
      BY <2>1, LenProperties, ElementOfSeq
    <2>3. PICK n \in 0 .. Len(l) :
             /\ \/ n = 0 /\ t = M \o l
                \/ n # 0 /\ t = SubSeq(l, 1, n) \o M \o SubSeq(l, n + 1, Len(l))
             /\ n = 0 => k # 1
             /\ n # 0 => k + n = 5
      <3>1. CASE "attempt.started" \notin ToSet(l)
        <4>1. t = M \o l
          BY <1>3, <3>1 DEF Steps
        <4>2. k # 1
          BY <1>0, <3>1 DEF ToSet
        <4>3. 0 \in 0 .. Len(l)
          BY <1>0
        <4> HIDE DEF t, M
        <4> QED BY <4>1, <4>2, <4>3, Zenon
      <3>2. CASE "attempt.started" \in ToSet(l)
        <4> DEFINE i == CHOOSE q \in DOMAIN l : l[q] = "attempt.started"
        <4>1. t = SubSeq(l, 1, i) \o M \o SubSeq(l, i + 1, Len(l))
          BY <1>3, <3>2 DEF Steps
        <4>2. i \in DOMAIN l /\ l[i] = "attempt.started"
          BY <3>2 DEF ToSet
        <4> HIDE DEF i
        <4>3. i \in 0 .. Len(l) /\ i # 0 /\ k + i = 5
          BY <1>0, <1>1, <4>2
        <4> QED BY <4>1, <4>3
      <3> QED BY <3>1, <3>2
    <2> HIDE DEF t, M
    <2>4. /\ t \in Seq(SimTypes) /\ Len(t) = Len(l) + Len(M)
          /\ \A i \in 1 .. Len(t) : t[i] = IF i <= n THEN l[i] ELSE IF i <= n + Len(M) THEN M[i - n]
                                           ELSE l[i - Len(M)]
      <3>1. Insertion(t, l, M, n)
        BY <2>3 DEF Insertion
      <3>2. l \in Seq(SimTypes) /\ M \in Seq(SimTypes) /\ n \in 0 .. Len(l)
        BY <1>0, <2>1, <2>3
      <3>3. t \in Seq(SimTypes) /\ Spliced(t, l, M, n)
        BY <3>1, <3>2, Inserted
      <3> QED BY <3>3 DEF Spliced
    <2>5. n \in Nat /\ n <= Len(l)
      BY <1>0, <2>3
    <2>6. ASSUME NEW i \in 1 .. Len(t), t[i] \notin MetricTypes
          PROVE  \/ i <= n /\ i \in 1 .. Len(l) /\ t[i] = l[i]
                 \/ i > n + Len(M) /\ i - Len(M) \in 1 .. Len(l) /\ i - Len(M) > n /\ t[i] = l[i - Len(M)]
      <3>1. CASE i <= n
        BY <1>0, <2>4, <2>5, <3>1
      <3>2. CASE ~(i <= n) /\ i <= n + Len(M)
        <4>1. t[i] = M[i - n] /\ i - n \in 1 .. Len(M)
          BY <1>0, <2>2, <2>4, <2>5, <3>2
        <4> QED BY <2>2, <2>6, <4>1
      <3>3. CASE ~(i <= n) /\ ~(i <= n + Len(M))
        BY <1>0, <2>2, <2>4, <2>5, <3>3
      <3> QED BY <3>1, <3>2, <3>3
    <2>7. ASSUME NEW i \in 1 .. Len(t), t[i] = "run.queued" PROVE k = 1 /\ i = 1
      <3>1. t[i] \notin MetricTypes
        BY <2>7 DEF MetricTypes
      <3>2. CASE i <= n /\ i \in 1 .. Len(l) /\ t[i] = l[i]
        BY <1>1, <2>7, <3>2
      <3>3. CASE i > n + Len(M) /\ i - Len(M) \in 1 .. Len(l) /\ i - Len(M) > n /\ t[i] = l[i - Len(M)]
        <4>1. k = 1 /\ i - Len(M) = 1
          BY <1>1, <2>7, <3>3
        <4> QED BY <2>3, <2>5, <3>3, <4>1
      <3> QED BY <2>6, <3>1, <3>2, <3>3
    <2>8. ASSUME NEW i \in 1 .. Len(t), t[i] = "run.completed", NEW m \in r.metrics
          PROVE  \E j \in 1 .. i - 1 : t[j] = m
      <3>1. t[i] \notin MetricTypes
        BY <2>8 DEF MetricTypes
      <3>2. CASE i <= n /\ i \in 1 .. Len(l) /\ t[i] = l[i]
        <4>1. k + i = 7
          BY <1>1, <2>8, <3>2
        <4> QED BY <2>3, <2>5, <3>2, <4>1
      <3>3. CASE i > n + Len(M) /\ i - Len(M) \in 1 .. Len(l) /\ i - Len(M) > n /\ t[i] = l[i - Len(M)]
        <4>1. PICK j \in 1 .. Len(M) : M[j] = m
          BY <2>1
        <4>2. n + j \in 1 .. i - 1 /\ n + j \in 1 .. Len(t) /\ ~(n + j <= n) /\ n + j <= n + Len(M) /\ (n + j) - n = j
          BY <1>0, <2>2, <2>4, <2>5, <3>3
        <4>3. t[n + j] = M[j]
          BY <2>4, <4>2
        <4> QED BY <4>1, <4>2, <4>3
      <3> QED BY <2>6, <3>1, <3>2, <3>3
    <2>9. ASSUME NEW i \in 1 .. Len(t), t[i] = "run.failed" PROVE FALSE
      <3>1. t[i] \notin MetricTypes
        BY <2>9 DEF MetricTypes
      <3>2. \E q \in 1 .. Len(l) : l[q] = "run.failed"
        BY <2>6, <2>9, <3>1
      <3> QED BY <1>1, <2>0, <3>2
    <2>10. TodoOK(r, t, {})
      BY <2>0, <2>4, <2>7, <2>8, <2>9 DEF TodoOK
    <2>11. CASE k = 1
      <3>1. n # 0 /\ 1 \in 1 .. Len(t) /\ 1 <= n
        BY <1>0, <2>2, <2>3, <2>4, <2>5, <2>11
      <3>2. t[1] = l[1] /\ Len(t) > 0
        BY <2>4, <3>1
      <3> QED BY <1>0, <2>10, <2>11, <3>2 DEF QueuesFirst, t
    <2>12. CASE k # 1
      BY <2>7, <2>10, <2>12 DEF QueuedBefore, t
    <2> QED BY <2>11, <2>12
  <1> QED BY <1>2, <1>3

(* What a call plans from the fold it has read.                            *)
LEMMA StepsStart ==
    ASSUME NEW r, r.metrics \subseteq MetricTypes, NEW s
    PROVE  LET t == Steps(r, Remaining(s, r.outcome)) IN
           /\ TodoOK(r, t, {})
           /\ IF s = None THEN QueuesFirst(t) ELSE QueuedBefore(t)
  <1> DEFINE o == r.outcome
             l == Remaining(s, o)
  <1>1. CASE s = None /\ l = PathOf(o)
    <2>1. Rest(o, 1, l)
      BY <1>1, RestIs
    <2> QED BY <1>1, <2>1, StepsOfRest
  <1>2. CASE s # None /\ \E k \in Nat : k >= 2 /\ l = SubSeq(PathOf(o), k, Len(PathOf(o)))
    <2>1. PICK k \in Nat : k >= 2 /\ l = SubSeq(PathOf(o), k, Len(PathOf(o)))
      BY <1>2
    <2>2. k >= 1 /\ k # 1
      BY <2>1
    <2> HIDE DEF l
    <2>3. Rest(o, k, l)
      BY <2>1, <2>2, RestIs
    <2> QED BY <1>2, <2>2, <2>3, StepsOfRest DEF l
  <1>3. CASE s # None /\ l \in Seq(Cancels)
    <2>1. Len(l) \in Nat /\ DOMAIN l = 1 .. Len(l) /\ \A i \in 1 .. Len(l) : l[i] \in Cancels
      BY <1>3, LenProperties, ElementOfSeq
    <2>2. ~EmitsMetrics(r, l)
      <3> SUFFICES ASSUME l # <<>> PROVE ToSet(l) \cap {"attempt.cancelled", "run.cancelled"} # {}
        BY DEF EmitsMetrics
      <3>1. 1 \in DOMAIN l
        BY <1>3, <2>1, EmptySeq
      <3> QED BY <2>1, <3>1 DEF ToSet, Cancels
    <2>3. Steps(r, l) = l
      BY <2>2 DEF Steps
    <2>4. l \in Seq(SimTypes)
      <3>1. Cancels \subseteq SimTypes
        BY DEF Cancels, SimTypes, LifecycleTypes, RunTypes, AttemptTypes
      <3> QED BY <1>3, <3>1, SeqMonotonic
    <2>5. TodoOK(r, l, {}) /\ QueuedBefore(l)
      BY <2>1, <2>4 DEF TodoOK, QueuedBefore, Cancels
    <2> QED BY <1>3, <2>3, <2>5
  <1> QED BY <1>1, <1>2, <1>3, RemainingShape

(* The draft of an event, as the reducer sees it.                          *)
LEMMA SimDraftType ==
    ASSUME NEW type
    PROVE  /\ SimDraft(type) \in Event
           /\ type \in LifecycleTypes => SimDraft(type).type = type
           /\ type \notin LifecycleTypes => SimDraft(type).type = "other"
  <1>1. SimAttempt \in AttemptIds /\ SimRevision \in Revisions
    BY SimulatedAssumption DEF SimAttempt, SimRevision
  <1>2. 1 \in Ordinals
    BY ConstantsAssumption DEF Ordinals
  <1> QED BY <1>1, <1>2 DEF SimDraft, Event, EventTypes

(* How a fold changes the status of the run.                               *)
LEMMA FoldStatus ==
    ASSUME NEW s \in Snapshot, NEW e \in Event, NEW q \in Nat, s # None, Apply(s, e, q) # Rejected
    PROVE  LET t == Apply(s, e, q) IN
           /\ t \in Snapshot /\ e.type # "run.queued"
           /\ t.status = "completed" <=> s.status = "completed" \/ e.type = "run.completed"
           /\ t.status = "failed" => s.status = "failed" \/ e.type = "run.failed"
           /\ t.status = "cancelled" => t.cancelRequested
  <1> DEFINE t == Result(s, e, q)
  <1>1. Apply(s, e, q) = t /\ Guard(s, e, q) /\ SnapshotOK(t)
    BY ApplyCases
  <1>2. t \in Snapshot
    BY <1>1, ResultType DEF Guard
  <1>3. t.status = "cancelled" => t.cancelRequested
    BY <1>1 DEF SnapshotOK, StatusMatchesAttempts
  <1>4. e.type \in EventTypes /\ e.type # "run.queued"
    BY <1>1 DEF Guard, RunEventOK, Event, EventTypes, RunTypes
  <1>5. CASE e.type \in {"other", "run.reviewed"}
    BY <1>1, <1>2, <1>3, <1>4, <1>5, ObservedFields
  <1>6. CASE e.type \in RunTypes \ {"run.queued", "run.reviewed"}
    <2>1. s.status # "completed"
      BY <1>1, <1>6 DEF Guard, LifecycleTypes, TerminalRun, RunTypes
    <2>2. t.status = CASE e.type = "run.started"   -> "running"
                       [] e.type = "run.completed" -> "completed"
                       [] e.type = "run.failed"    -> "failed"
                       [] e.type = "run.cancelled" -> "cancelled"
                       [] OTHER                    -> s.status
      BY <1>6, RunEventFields
    <2> QED BY <1>1, <1>2, <1>3, <1>4, <2>1, <2>2
  <1>7. CASE e.type = "attempt.queued"
    <2>1. t.status = "running"
      BY <1>7, AttemptQueuedFields
    <2>2. s.status # "completed"
      BY <1>1, <1>7 DEF Guard, LifecycleTypes, TerminalRun, AttemptTypes
    <2> QED BY <1>1, <1>2, <1>3, <1>4, <1>7, <2>1, <2>2
  <1>8. CASE e.type \in AttemptTypes \ {"attempt.queued"}
    <2>1. s.status # "completed" /\ e.type # "run.completed"
      BY <1>1, <1>8 DEF Guard, LifecycleTypes, TerminalRun, AttemptTypes
    <2>2. Updated(s, e, q) = AttemptEventResult(s, e, q)
      BY <1>8 DEF Updated, AttemptTypes
    <2>3. t.status = RunTo(e.type, s.status)
      BY <2>2 DEF Result, Stamped, AttemptEventResult, Snapshot
    <2>4. RunTo(e.type, s.status) \in {"unknown", "lost", "retry_pending", "running", s.status}
      BY DEF RunTo
    <2> QED BY <1>1, <1>2, <1>3, <1>4, <2>1, <2>3, <2>4
  <1> QED BY <1>4, <1>5, <1>6, <1>7, <1>8 DEF EventTypes, LifecycleTypes

(* The first event of a run queues it; a metric does not.                  *)
LEMMA FoldFirst ==
    ASSUME NEW e \in Event, NEW q \in Nat, Apply(None, e, q) # Rejected
    PROVE  LET t == Apply(None, e, q) IN
           \/ e.type = "other" /\ t = None
           \/ e.type = "run.queued" /\ t \in Snapshot /\ t.status = "queued"
  <1>1. CASE e.type = "other"
    BY <1>1 DEF Apply
  <1>2. CASE e.type = "run.queued" /\ EnvelopeOK(e)
    <2>1. Apply(None, e, q) = FirstSnapshot(e, q)
      BY <1>2 DEF Apply
    <2>2. FirstSnapshot(e, q).status = "queued"
      BY DEF FirstSnapshot
    <2> QED BY <1>2, <2>1, <2>2, FirstSnapshotType
  <1> QED BY <1>1, <1>2 DEF Apply

-----------------------------------------------------------------------------
(* The inductive invariant of the simulations.                             *)

(* The metrics of r that are in the log.                                   *)
Had(r) == {m \in r.metrics : EventId(r, m) \in DOMAIN recorded}

(* What a simulation at its statement may rely on.                         *)
SimJob(x) ==
    LET r == job[x].req
        todo == job[x].todo IN
    /\ job[x].pc \in {"simulate", "appending"} => r.metrics \subseteq MetricTypes
    /\ job[x].pc = "appending" =>
          /\ TodoOK(r, todo, Had(r)) /\ Consumed(r)
          /\ load.run = None => \/ QueuesFirst(todo)
                                \/ snapshot # None /\ bound.plan = r.outcome /\ bound.auth = r.auth
          /\ Frozen(x) /\ job[x].frozen = head =>
                 todo # <<>> /\ EventId(r, Head(todo)) \notin DOMAIN recorded /\ Folds(Head(todo)) # Rejected

(* The log of the simulations.  A run that was there before is nobody's.   *)
SimLog ==
    /\ snapshot \in Snapshot \cup {None}
    /\ load.run # None => snapshot # None /\ bound = None
    /\ \A e \in DOMAIN auths : auths[e].sequence \in Nat /\ auths[e].sequence <= head
    /\ \A e \in DOMAIN recorded : recorded[e] \in Nat /\ recorded[e] <= head
    /\ finisher # None => snapshot # None /\ EventId(finisher, "run.completed") \in DOMAIN recorded
    /\ bound # None => snapshot # None

SimInv == SimLog /\ SimulatedSound /\ \A x \in Callers : SimJob(x)

(* An event of the list was appended, or was found in the log.             *)
LEMMA TailOK ==
    ASSUME NEW r, NEW todo, NEW had, NEW more, TodoOK(r, todo, had), todo # <<>>, had \subseteq more,
           Head(todo) \in r.metrics => Head(todo) \in more
    PROVE  TodoOK(r, Tail(todo), more) /\ Head(todo) = todo[1] /\ Head(todo) \in SimTypes
  <1>0. todo \in Seq(SimTypes) /\ Len(todo) \in Nat /\ Len(todo) > 0
    BY LenProperties, EmptySeq DEF TodoOK
  <1> DEFINE l == Tail(todo)
  <1>1. /\ l \in Seq(SimTypes) /\ Len(l) = Len(todo) - 1 /\ \A i \in 1 .. Len(l) : l[i] = todo[i + 1]
        /\ Head(todo) = todo[1] /\ Head(todo) \in SimTypes
    BY <1>0, HeadTailProperties
  <1> HIDE DEF l
  <1>2. ASSUME NEW i \in 1 .. Len(l)
        PROVE  /\ l[i] # "run.queued"
               /\ l[i] = "run.failed" => r.outcome = "failure"
               /\ l[i] = "run.completed" =>
                    /\ r.outcome = "success"
                    /\ \A m \in r.metrics : m \in more \/ \E j \in 1 .. i - 1 : l[j] = m
    <2>1. i + 1 \in 1 .. Len(todo) /\ i + 1 # 1 /\ l[i] = todo[i + 1]
      BY <1>0, <1>1
    <2>2. /\ l[i] # "run.queued"
          /\ l[i] = "run.failed" => r.outcome = "failure"
          /\ l[i] = "run.completed" => r.outcome = "success"
      BY <2>1 DEF TodoOK
    <2>3. ASSUME l[i] = "run.completed", NEW m \in r.metrics, m \notin more
          PROVE  \E j \in 1 .. i - 1 : l[j] = m
      <3>1. PICK j \in 1 .. (i + 1) - 1 : todo[j] = m
        BY <2>1, <2>3 DEF TodoOK
      <3>2. j # 1
        BY <1>1, <2>3, <3>1
      <3>3. j - 1 \in 1 .. i - 1 /\ j - 1 \in 1 .. Len(l) /\ (j - 1) + 1 = j
        BY <1>0, <1>1, <3>1, <3>2
      <3>4. l[j - 1] = m
        BY <1>1, <3>1, <3>3
      <3> QED BY <3>3, <3>4
    <2> QED BY <2>2, <2>3
  <1>3. TodoOK(r, l, more)
    BY <1>1, <1>2 DEF TodoOK
  <1> QED BY <1>1, <1>3 DEF l

LEMMA HadMore ==
    ASSUME NEW r, NEW todo, NEW had, NEW more, TodoOK(r, todo, had), had \subseteq more
    PROVE  TodoOK(r, todo, more)
  BY DEF TodoOK

(* What the log of the simulations holds stays there; a run that exists    *)
(* stays bound to what queued it.                                          *)
SimGrow ==
    /\ DOMAIN auths \subseteq DOMAIN auths' /\ \A e \in DOMAIN auths : auths'[e] = auths[e]
    /\ DOMAIN recorded \subseteq DOMAIN recorded' /\ \A e \in DOMAIN recorded : recorded'[e] = recorded[e]
    /\ snapshot # None => snapshot' # None /\ bound' = bound
    /\ head' = head + 1 \/ UNCHANGED <<head, simVars>>

LEMMA SimGrown ==
    ASSUME SimGrow, NEW r
    PROVE  Had(r) \subseteq Had(r)' /\ (Consumed(r) => Consumed(r)')
  BY DEF SimGrow, Had, Consumed

LEMMA NothingSim ==
    ASSUME UNCHANGED <<head, simVars>>
    PROVE  SimGrow
  BY DEF SimGrow, simVars

(* A simulation that does not move keeps what it relies on.                *)
LEMMA SimJobKept ==
    ASSUME ModelInv, SimGrow, load' = load, NEW y \in Callers, job'[y] = job[y], SimJob(y)
    PROVE  SimJob(y)'
  <1> DEFINE r == job[y].req
             todo == job[y].todo
  <1>1. CASE job[y].pc # "appending"
    BY <1>1 DEF SimJob
  <1>2. CASE job[y].pc = "appending"
    <2>1. r.metrics \subseteq MetricTypes /\ TodoOK(r, todo, Had(r)) /\ Consumed(r)
      BY <1>2 DEF SimJob
    <2>2. TodoOK(r, todo, Had(r)') /\ Consumed(r)'
      BY <2>1, SimGrown, HadMore
    <2>3. load'.run = None => \/ QueuesFirst(todo)
                              \/ snapshot' # None /\ bound'.plan = r.outcome /\ bound'.auth = r.auth
      BY <1>2 DEF SimJob, SimGrow
    <2>4. ASSUME Frozen(y)', job[y].frozen = head'
          PROVE  todo # <<>> /\ EventId(r, Head(todo)) \notin DOMAIN recorded' /\ Folds(Head(todo))' # Rejected
      <3>1. Frozen(y) /\ job[y].frozen \in Nat /\ job[y].frozen <= head /\ head \in Nat
        BY <2>4 DEF Frozen, ModelInv, FrozenInv, Shaped
      <3>2. UNCHANGED <<head, simVars>>
        BY <2>4, <3>1 DEF SimGrow
      <3>3. Folds(Head(todo))' = Folds(Head(todo))
        BY <3>2 DEF Folds, simVars
      <3> QED BY <1>2, <2>4, <3>1, <3>2, <3>3 DEF SimJob, simVars
    <2>5. r' = r /\ todo' = todo /\ job'[y].pc = "appending"
      BY <1>2
    <2> QED BY <1>2, <2>1, <2>2, <2>3, <2>4, <2>5 DEF SimJob, Frozen
  <1> QED BY <1>1, <1>2

(* The log grows by an event that neither completes nor fails a run that a *)
(* simulation queued.                                                      *)
LEMMA RunMoves ==
    ASSUME SimLog, SimulatedSound, head \in Nat, NEW t, snapshot # None, Folds(t) # Rejected, snapshot' = Folds(t),
           bound # None => t \notin {"run.completed", "run.failed"},
           head' = head + 1, UNCHANGED <<bound, auths, recorded, finisher, load>>
    PROVE  SimLog' /\ SimulatedSound' /\ SimGrow
  <1>1. SimDraft(t) \in Event /\ SimDraft(t).type \in {t, "other"} /\ snapshot \in Snapshot /\ head + 1 \in Nat
    BY SimDraftType DEF SimLog
  <1>2. /\ snapshot' \in Snapshot /\ snapshot' # None
        /\ snapshot.status = "completed" => snapshot'.status = "completed"
        /\ snapshot'.status = "completed" => snapshot.status = "completed" \/ t = "run.completed"
        /\ snapshot'.status = "failed" => snapshot.status = "failed" \/ t = "run.failed"
        /\ snapshot'.status = "cancelled" => snapshot'.cancelRequested
    BY <1>1, FoldStatus, SentinelAssumption DEF Folds
  <1>3. SimGrow
    BY <1>2 DEF SimGrow
  <1>4. SimLog'
    BY <1>2 DEF SimLog, EventId
  <1>5. SimulatedSound'
    BY <1>2 DEF SimulatedSound, EventId
  <1> QED BY <1>3, <1>4, <1>5

(* A client comes to a simulation with a request of a command.             *)
Enters(x) ==
    job'[x].pc \in {"simulate", "appending"} => job'[x].pc = "simulate" /\ job'[x].req.metrics \subseteq MetricTypes

LEMMA EntersNot ==
    ASSUME Shaped, NEW x \in Callers,
           \/ Refuse(x)
           \/ \E pc \in {"head", "append", "receipt"} : Step(x, pc)
           \/ \E o : job' = [job EXCEPT ![x].pc = "receipt", ![x].outcome = o]
           \/ \E o : job' = [job EXCEPT ![x].pc = "receipt", ![x].frozen = Unset, ![x].outcome = o]
    PROVE  Enters(x)
  <1>1. CASE Refuse(x)
    BY <1>1, RefuseMoves DEF Enters
  <1>2. CASE \E pc \in {"head", "append", "receipt"} : Step(x, pc)
    BY <1>2, StepMoves DEF Enters
  <1>3. CASE \E o : job' = [job EXCEPT ![x].pc = "receipt", ![x].outcome = o]
    <2>1. PICK o : job' = [job EXCEPT ![x].pc = "receipt", ![x].outcome = o]
      BY <1>3
    <2>2. job'[x].pc = "receipt"
      BY <2>1, OutcomeMoves
    <2> QED BY <2>2 DEF Enters
  <1>4. CASE \E o : job' = [job EXCEPT ![x].pc = "receipt", ![x].frozen = Unset, ![x].outcome = o]
    <2>1. PICK o : job' = [job EXCEPT ![x].pc = "receipt", ![x].frozen = Unset, ![x].outcome = o]
      BY <1>4
    <2> QED BY <2>1, DraftMoves DEF Enters
  <1> QED BY <1>1, <1>2, <1>3, <1>4

LEMMA CheckHeadEnters ==
    ASSUME ModelInv, NEW x \in Callers, CheckHead(x)
    PROVE  Enters(x)
  <1>0. Shaped
    BY DEF ModelInv
  <1>1. CASE Refuse(x)
    BY <1>0, <1>1, EntersNot
  <1>2. CASE ~Refuse(x)
    <2> DEFINE c == job[x].cmd
               to == CASE c.op \in FactOps -> "fact" [] c.op \in EffectOps -> "intent"
                       [] c.op = "simulate" -> "simulate" [] c.op \in EvaluationOps -> "evaluate"
                       [] c.op \in {"plan", "observe"} -> c.op [] OTHER -> "receipt"
               q == IF c.op = "simulate" THEN c.input ELSE job[x].req
    <2>1. job' = [job EXCEPT ![x].pc = to, ![x].req = q] /\ job[x].pc = "head"
      BY <1>2 DEF CheckHead
    <2>2. c \in Commands
      BY <2>1 DEF ModelInv, CmdInv, CmdOK
    <2>3. to \in {"simulate", "appending"} => to = "simulate" /\ c.op = "simulate"
      BY DEF FactOps, EffectOps, EvaluationOps
    <2>4. c.op = "simulate" => q = c.input
      OBVIOUS
    <2> HIDE DEF to, q
    <2>5. job'[x].pc = to /\ job'[x].req = q
      BY <1>0, <2>1, RequestMoves
    <2>6. c.op = "simulate" => c.input.metrics \subseteq MetricTypes
      BY <2>2, SimulationsAssumption
    <2> QED BY <2>3, <2>4, <2>5, <2>6 DEF Enters
  <1> QED BY <1>1, <1>2

LEMMA ReserveEnters ==
    ASSUME ModelInv, NEW x \in Callers, ReserveEffect(x)
    PROVE  Enters(x)
  <1>0. Shaped
    BY DEF ModelInv
  <1>1. CASE Refuse(x) \/ job' = [job EXCEPT ![x].pc = "receipt", ![x].outcome = "unknown"]
    BY <1>0, <1>1, EntersNot
  <1>2. CASE ~(Refuse(x) \/ job' = [job EXCEPT ![x].pc = "receipt", ![x].outcome = "unknown"])
    <2> DEFINE c == job[x].cmd
               to == IF c.op = "model" THEN FirstPoint(c.input) ELSE "dispatch"
               q == IF c.op = "model" THEN c.input ELSE None
    <2>1. job' = [job EXCEPT ![x].pc = to, ![x].req = q]
      BY <1>2 DEF ReserveEffect
    <2>2. to \notin {"simulate", "appending"}
      BY DEF FirstPoint
    <2> HIDE DEF to, q
    <2>3. job'[x].pc = to
      BY <1>0, <2>1, RequestMoves
    <2> QED BY <2>2, <2>3 DEF Enters
  <1> QED BY <1>1, <1>2

(* A step of a client outside the simulated runtime.                       *)
LEMMA ClientEnters ==
    ASSUME ModelInv, NEW x \in Callers, ClientStep(x) \/ Crash(x), ~SimulateStep(x)
    PROVE  Enters(x)
  <1>0. Shaped
    BY DEF ModelInv
  <1>1. CASE FactStep(x)
    <2>1. CASE Lookup(x)
      BY <1>0, <2>1, EntersNot DEF Lookup
    <2>2. CASE PrepareFact(x)
      BY <1>0, <2>2, EntersNot DEF PrepareFact
    <2>3. CASE AppendFact(x)
      BY <1>0, <2>3, EntersNot DEF AppendFact
    <2>4. CASE AppendRefused(x)
      BY <1>0, <2>4, EntersNot DEF AppendRefused
    <2>5. CASE AppendReceipt(x)
      BY <1>0, <2>5, EntersNot DEF AppendReceipt
    <2> QED BY <1>1, <2>1, <2>2, <2>3, <2>4, <2>5, CheckHeadEnters DEF FactStep
  <1>2. CASE OperationStep(x)
    <2>1. CASE Dispatch(x)
      BY <1>0, <2>1, EntersNot DEF Dispatch
    <2>2. CASE DispatchFails(x)
      BY <1>0, <2>2, EntersNot DEF DispatchFails
    <2>3. CASE ModelStep(x)
      BY <2>3, CallGrows DEF ModelStep, ModelPcs, AppendPoints, Enters
    <2>4. CASE GenerateEnds(x)
      BY <1>0, <2>4, EntersNot DEF GenerateEnds, GeneratedDraft
    <2>5. CASE ObserveModel(x)
      BY <1>0, <2>5, EntersNot DEF ObserveModel, GeneratedDraft
    <2>6. CASE SimulateEnds(x)
      BY <1>0, <2>6, EntersNot DEF SimulateEnds
    <2>7. CASE Evaluate(x)
      BY <1>0, <2>7, EntersNot DEF Evaluate
    <2>8. CASE PlanStep(x)
      BY <1>0, <2>8, EntersNot DEF PlanStep
    <2> QED BY <1>2, <2>1, <2>2, <2>3, <2>4, <2>5, <2>6, <2>7, <2>8, ReserveEnters DEF OperationStep
  <1>3. ASSUME NEW c \in work, Issue(x, c) PROVE Enters(x)
    BY <1>0, <1>3, IssueMoves DEF Enters
  <1>4. ASSUME NEW c \in work, CliCall(x, c) PROVE Enters(x)
    <2>1. c \in Commands /\ c.op \in {"cli", "clisim"}
      BY <1>0, <1>4, WorkIsCommands DEF CliCall, CommandLine
    <2>2. c.op = "clisim" => c.input.metrics \subseteq MetricTypes
      BY <2>1, SimulationsAssumption
    <2>3. job'[x].req = c.input /\ job'[x].pc = IF c.op = "cli" THEN FirstPoint(c.input) ELSE "simulate"
      BY <1>0, <1>4, CliMoves
    <2> QED BY <2>1, <2>2, <2>3 DEF Enters, FirstPoint
  <1>5. CASE Crash(x)
    BY <1>0, <1>5, EntersNot DEF Crash
  <1> QED BY <1>1, <1>2, <1>3, <1>4, <1>5 DEF ClientStep

(* A step of x keeps the invariant when x relies on what holds afterwards. *)
LEMMA SimTurn ==
    ASSUME ModelInv, SimInv, NEW x \in Callers, Turn(x), load' = load, SimGrow, SimLog', SimulatedSound', SimJob(x)'
    PROVE  SimInv'
  <1>1. ASSUME NEW y \in Callers PROVE SimJob(y)'
    <2>1. CASE y # x
      BY <2>1, SimJobKept DEF SimInv, Turn
    <2> QED BY <2>1
  <1> QED BY <1>1 DEF SimInv

(* Another part of the log grows, or none.                                 *)
LEMMA QuietSim ==
    ASSUME SimLog, SimulatedSound, head \in Nat, head' \in {head, head + 1}, UNCHANGED <<simVars, load>>
    PROVE  SimLog' /\ SimulatedSound' /\ SimGrow
  <1>1. SimGrow
    BY DEF SimGrow, simVars
  <1>2. SimLog'
    BY DEF SimLog, simVars, EventId
  <1>3. SimulatedSound'
    BY DEF SimulatedSound, simVars, EventId
  <1> QED BY <1>1, <1>2, <1>3

LEMMA EntersJob ==
    ASSUME NEW x \in Callers, Enters(x)
    PROVE  SimJob(x)'
  BY DEF Enters, SimJob

LEMMA CancelMoves ==
    ASSUME ModelInv, ServiceInv, SimInv, NEW x \in Callers, AppendFact(x)
    PROVE  SimLog' /\ SimulatedSound' /\ SimGrow
  <1> DEFINE c == job[x].cmd
  <1>1. /\ job[x].pc = "append" /\ job[x].expected = head /\ head' = head + 1 /\ head \in Nat
        /\ UNCHANGED <<bound, auths, recorded, finisher, load>>
        /\ snapshot' = IF c.op = "cancel" THEN Folds(c.input.type) ELSE snapshot
    BY DEF AppendFact, FactHead, ModelInv, Shaped
  <1>2. CASE c.op # "cancel"
    BY <1>1, <1>2, QuietSim DEF SimInv, simVars
  <1>3. CASE c.op = "cancel"
    <2>1. c \in Commands /\ FactOK(c.input)
      BY <1>1 DEF ModelInv, CmdInv, CmdOK, ServiceInv, JobInv
    <2>2. c.input.type = "run.cancel.requested"
      BY <1>3, <2>1, SimulationsAssumption
    <2>3. snapshot # None /\ Folds(c.input.type) # Rejected
      BY <2>1, <2>2 DEF FactOK
    <2> QED BY <1>1, <1>3, <2>2, <2>3, RunMoves DEF SimInv
  <1> QED BY <1>2, <1>3

LEMMA ElsewhereSim ==
    ASSUME ModelInv, ServiceInv, SimInv, NEW x \in Callers, ClientStep(x) \/ Crash(x), ~SimulateStep(x)
    PROVE  SimInv'
  <1>1. Turn(x) /\ head \in Nat
    BY ClientKeeps DEF CmdStep, ModelInv, Shaped
  <1>2. SimJob(x)'
    BY ClientEnters, EntersJob
  <1>3. load' = load
    BY DEF ClientStep, FactStep, OperationStep, Lookup, CheckHead, PrepareFact, AppendFact, AppendRefused,
           AppendReceipt, ReserveEffect, Dispatch, DispatchFails, ModelStep, GenerateEnds, ObserveModel,
           SimulateEnds, Evaluate, PlanStep, Issue, CliCall, Crash, serviceVars
  <1>4. CASE AppendFact(x)
    BY <1>1, <1>2, <1>3, <1>4, CancelMoves, SimTurn
  <1>5. CASE ~AppendFact(x)
    <2>1. UNCHANGED simVars
      BY <1>5 DEF ClientStep, FactStep, OperationStep, Lookup, CheckHead, PrepareFact, AppendRefused,
             AppendReceipt, ReserveEffect, Dispatch, DispatchFails, ModelStep, GenerateEnds, ObserveModel,
             SimulateEnds, Evaluate, PlanStep, Issue, CliCall, Crash
    <2>2. head' \in {head, head + 1}
      <3>1. CASE ModelStep(x)
        BY <3>1 DEF ModelStep, Generate, Freeze, Commit, Conflict, HttpAnswered, HttpUnsent, HttpUncertain,
                    HttpUnusable
      <3>2. CASE ~ModelStep(x)
        BY <1>5, <3>2 DEF ClientStep, FactStep, OperationStep, Lookup, CheckHead, PrepareFact, AppendRefused,
             AppendReceipt, ReserveEffect, Dispatch, DispatchFails, GenerateEnds, ObserveModel,
             SimulateEnds, Evaluate, PlanStep, Issue, CliCall, Crash
      <3> QED BY <3>1, <3>2
    <2>3. SimLog' /\ SimulatedSound' /\ SimGrow
      BY <1>1, <1>3, <2>1, <2>2, QuietSim DEF SimInv
    <2> QED BY <1>1, <1>2, <1>3, <2>3, SimTurn
  <1> QED BY <1>4, <1>5

(* The gates: what a call plans is what its request may still append.      *)
LEMMA PlanSim ==
    ASSUME ModelInv, SimInv, NEW x \in Callers, SimPlan(x), load' = load
    PROVE  SimInv'
  <1> DEFINE r == job[x].req
             left == Remaining(snapshot, r.outcome)
             steps == Steps(r, left)
             to == IF left = <<>> THEN "simulated" ELSE "appending"
  <1>0. Shaped /\ head \in Nat /\ CmdOK(job[x])
    BY DEF ModelInv, Shaped, CmdInv
  <1>1. /\ job[x].pc = "simulate" /\ UNCHANGED <<head, simVars>> /\ job[x].frozen = Unset
        /\ r.metrics \subseteq MetricTypes
    BY <1>0 DEF SimPlan, CmdOK, AppendPoints, SimInv, SimJob
  <1>2. SimLog' /\ SimulatedSound' /\ SimGrow
    BY <1>0, <1>1, QuietSim DEF SimInv
  <1>3. CASE Go(x, "refused")
    <2>1. Turn(x) /\ job'[x].pc = "refused"
      BY <1>0, <1>3, GoMoves
    <2> QED BY <1>2, <2>1, SimTurn, EntersJob DEF Enters
  <1>4. CASE Consumed(r) /\ MatchingRun(r) /\ job' = [job EXCEPT ![x].pc = to, ![x].todo = steps]
    <2>1. /\ TodoOK(r, steps, {})
          /\ IF snapshot = None THEN QueuesFirst(steps) ELSE QueuedBefore(steps)
      BY <1>1, StepsStart
    <2> HIDE DEF to, steps
    <2>2. Turn(x) /\ Kept(x, {"pc", "todo"}) /\ job'[x].pc = to /\ job'[x].todo = steps
      BY <1>0, <1>4, PlanMoves
    <2>3. job'[x].req = r /\ job'[x].frozen = Unset
      BY <1>1, <2>2 DEF Kept, JobFields
    <2>4. TodoOK(r, steps, Had(r)') /\ Consumed(r)'
      <3>1. {} \subseteq Had(r)'
        OBVIOUS
      <3>2. TodoOK(r, steps, Had(r)')
        BY <2>1, <3>1, HadMore
      <3> QED BY <1>2, <1>4, <2>3, <3>2, SimGrown DEF Consumed
    <2>5. QueuesFirst(steps) \/ (snapshot' # None /\ bound'.plan = r.outcome /\ bound'.auth = r.auth)
      BY <1>1, <1>4, <2>1 DEF MatchingRun, simVars
    <2>6. SimJob(x)'
      BY <1>1, <2>2, <2>3, <2>4, <2>5 DEF SimJob, Frozen
    <2> QED BY <1>2, <2>2, <2>6, SimTurn
  <1> QED BY <1>3, <1>4 DEF SimPlan

(* A metric that is recorded is skipped; a draft is validated at the head. *)
LEMMA FreezeSim ==
    ASSUME ModelInv, SimInv, NEW x \in Callers, SimFreeze(x), load' = load
    PROVE  SimInv'
  <1> DEFINE r == job[x].req
             todo == job[x].todo
             t == Head(todo)
  <1>0. Shaped /\ head \in Nat /\ SimJob(x)
    BY DEF ModelInv, Shaped, SimInv
  <1>1. job[x].pc = "appending" /\ ~Frozen(x) /\ todo # <<>> /\ UNCHANGED <<head, simVars>>
    BY DEF SimFreeze
  <1>2. SimLog' /\ SimulatedSound' /\ SimGrow
    BY <1>0, <1>1, QuietSim DEF SimInv
  <1>3. /\ r.metrics \subseteq MetricTypes /\ TodoOK(r, todo, Had(r)) /\ Consumed(r)
        /\ load.run = None => \/ QueuesFirst(todo)
                              \/ snapshot # None /\ bound.plan = r.outcome /\ bound.auth = r.auth
    BY <1>0, <1>1 DEF SimJob
  <1>4. CASE Go(x, "refused")
    <2>1. Turn(x) /\ job'[x].pc = "refused"
      BY <1>0, <1>4, GoMoves
    <2> QED BY <1>2, <2>1, SimTurn, EntersJob DEF Enters
  <1>5. CASE t \in MetricTypes /\ EventId(r, t) \in DOMAIN recorded /\ job' = [job EXCEPT ![x].todo = Tail(todo)]
    <2>1. PICK v : v = Tail(todo)
      OBVIOUS
    <2>2. job' = [job EXCEPT ![x].todo = v]
      BY <1>5, <2>1
    <2>3. /\ Turn(x) /\ Kept(x, {"todo", "frozen"}) /\ job'[x].todo = v /\ job'[x].frozen = job[x].frozen
      <3> DEFINE j == [job[x] EXCEPT !.todo = v]
      <3>1. job' = [job EXCEPT ![x] = j] /\ Rec(job[x], JobFields) /\ Rec(job, Callers)
        BY Zenon, <1>0, <2>2 DEF Shaped
      <3>2. Rec(j, JobFields) /\ j.todo = v /\ \A f \in JobFields \ {"todo"} : j[f] = job[x][f]
        BY Zenon, <3>1 DEF Rec, JobFields
      <3>3. Turn(x) /\ job'[x] = j
        BY <3>1, <3>2, Replaced
      <3> QED BY <3>2, <3>3 DEF Kept, JobFields
    <2>4. job'[x].req = r /\ job'[x].pc = "appending" /\ job'[x].frozen = Unset
      BY <1>1, <2>3 DEF Kept, JobFields, Frozen
    <2>5. t \in r.metrics => t \in Had(r)
      BY <1>5 DEF Had
    <2>6. TodoOK(r, v, Had(r)) /\ t = todo[1]
      BY <1>1, <1>3, <2>1, <2>5, TailOK
    <2>7. ~QueuesFirst(todo)
      BY <1>5, <2>6 DEF QueuesFirst, MetricTypes
    <2>8. Had(r)' = Had(r) /\ Consumed(r)'
      BY <1>1, <1>3, <2>4 DEF Had, Consumed, simVars, EventId
    <2>9. SimJob(x)'
      BY <1>1, <1>3, <2>3, <2>4, <2>6, <2>7, <2>8 DEF SimJob, Frozen, simVars
    <2> QED BY <1>2, <2>3, <2>9, SimTurn
  <1>6. CASE EventId(r, t) \notin DOMAIN recorded /\ Folds(t) # Rejected /\ job' = [job EXCEPT ![x].frozen = head]
    <2>1. job' = [job EXCEPT ![x].frozen = head, ![x].pc = job[x].pc]
      <3>1. Rec(job, Callers) /\ Rec(job[x], JobFields)
        BY <1>0 DEF Shaped
      <3>2. [job[x] EXCEPT !.frozen = head] = [job[x] EXCEPT !.frozen = head, !.pc = job[x].pc]
        BY <3>1, Zenon DEF Rec, JobFields
      <3> QED BY <1>6, <3>1, <3>2, Zenon DEF Rec
    <2>2. Turn(x) /\ Kept(x, {"frozen", "pc"}) /\ job'[x].frozen = head /\ job'[x].pc = job[x].pc
      BY <1>0, <2>1, FreezeMoves
    <2>3. job'[x].req = r /\ job'[x].todo = todo
      BY <2>2 DEF Kept, JobFields
    <2>4. Had(r)' = Had(r) /\ Consumed(r)' /\ Folds(t)' = Folds(t) /\ EventId(r, t)' = EventId(r, t)
      BY <1>1, <1>3, <2>3 DEF Had, Consumed, simVars, EventId, Folds
    <2>5. SimJob(x)'
      BY <1>1, <1>3, <1>6, <2>2, <2>3, <2>4 DEF SimJob, Frozen, simVars
    <2> QED BY <1>2, <2>2, <2>5, SimTurn
  <1> QED BY <1>4, <1>5, <1>6 DEF SimFreeze

(* A simulation stops.                                                     *)
LEMMA StopSim ==
    ASSUME ModelInv, SimInv, NEW x \in Callers, SimConflict(x) \/ SimReturn(x), load' = load
    PROVE  SimInv'
  <1>0. Shaped /\ head \in Nat
    BY DEF ModelInv, Shaped
  <1>1. UNCHANGED <<head, simVars>> /\ \E pc \in {"refused", "simulated"} : Go(x, pc)
    BY DEF SimConflict, SimReturn
  <1>2. SimLog' /\ SimulatedSound' /\ SimGrow
    BY <1>0, <1>1, QuietSim DEF SimInv
  <1>3. Turn(x) /\ job'[x].pc \in {"refused", "simulated"}
    BY <1>0, <1>1, GoMoves
  <1> QED BY <1>2, <1>3, SimTurn, EntersJob DEF Enters

(* The append of a simulation, on the head it was validated at.            *)
LEMMA AppendSim ==
    ASSUME ModelInv, SimInv, NEW x \in Callers, SimAppend(x), load' = load
    PROVE  SimInv'
  <1> DEFINE r == job[x].req
             todo == job[x].todo
             t == Head(todo)
             id == EventId(r, t)
  <1>0. Shaped /\ head \in Nat /\ SimJob(x) /\ SimLog /\ SimulatedSound
    BY DEF ModelInv, Shaped, SimInv
  <1>1. /\ job[x].pc = "appending" /\ Frozen(x) /\ job[x].frozen = head /\ head' = head + 1
        /\ snapshot' = Folds(t) /\ auths' = auths
        /\ recorded' = [e \in DOMAIN recorded \cup {id} |-> IF e = id THEN head + 1 ELSE recorded[e]]
        /\ bound' = IF t = "run.queued" THEN [plan |-> r.outcome, auth |-> r.auth, at |-> head + 1] ELSE bound
        /\ finisher' = IF t = "run.completed" THEN r ELSE finisher
        /\ job' = [job EXCEPT ![x].todo = Tail(todo), ![x].frozen = Unset, ![x].expected = Unset]
    BY DEF SimAppend, AppendHead
  <1>2. /\ r.metrics \subseteq MetricTypes /\ TodoOK(r, todo, Had(r)) /\ Consumed(r)
        /\ load.run = None => \/ QueuesFirst(todo)
                              \/ snapshot # None /\ bound.plan = r.outcome /\ bound.auth = r.auth
        /\ todo # <<>> /\ id \notin DOMAIN recorded /\ Folds(t) # Rejected
    BY <1>0, <1>1 DEF SimJob
  <1>3. t = todo[1] /\ t \in SimTypes
    <2>1. (t \in r.metrics => t \in Had(r) \cup {t}) /\ Had(r) \subseteq Had(r) \cup {t}
      OBVIOUS
    <2> QED BY <1>2, <2>1, TailOK
  <1>4. /\ SimDraft(t) \in Event /\ head + 1 \in Nat
        /\ t \in LifecycleTypes => SimDraft(t).type = t
        /\ t \notin LifecycleTypes => SimDraft(t).type = "other"
    BY <1>0, SimDraftType
  <1>5. /\ "run.queued" \in LifecycleTypes /\ "run.completed" \in LifecycleTypes /\ "run.failed" \in LifecycleTypes
        /\ "run.completed" \notin MetricTypes
    BY DEF LifecycleTypes, RunTypes, MetricTypes
  <1>6. /\ DOMAIN recorded' = DOMAIN recorded \cup {id} /\ recorded'[id] = head + 1
        /\ \A e \in DOMAIN recorded : recorded'[e] = recorded[e]
    BY <1>1, <1>2
  <1> HIDE DEF t, id
  (* A run that does not exist is queued; one that exists moves on.        *)
  <1>7. \/ /\ snapshot = None /\ load.run = None /\ t = "run.queued" /\ bound = None /\ finisher = None
           /\ snapshot'.status = "queued" /\ snapshot' \in Snapshot
        \/ /\ snapshot # None /\ t # "run.queued" /\ snapshot' \in Snapshot
           /\ snapshot'.status = "completed" <=> snapshot.status = "completed" \/ t = "run.completed"
           /\ snapshot'.status = "failed" => snapshot.status = "failed" \/ t = "run.failed"
           /\ snapshot'.status = "cancelled" => snapshot'.cancelRequested
    <2>1. CASE snapshot = None
      <3>1. load.run = None /\ t = "run.queued" /\ bound = None /\ finisher = None
        BY <1>0, <1>2, <1>3, <2>1 DEF SimLog, QueuesFirst
      <3>2. SimDraft(t).type = "run.queued"
        BY <1>4, <1>5, <3>1
      <3>3. Apply(None, SimDraft(t), head + 1) # Rejected /\ snapshot' = Apply(None, SimDraft(t), head + 1)
        BY <1>1, <1>2, <2>1 DEF Folds, t
      <3>4. snapshot' \in Snapshot /\ snapshot'.status = "queued"
        BY <1>4, <3>2, <3>3, FoldFirst
      <3> QED BY <2>1, <3>1, <3>4
    <2>2. CASE snapshot # None
      <3>1. snapshot \in Snapshot
        BY <1>0, <2>2 DEF SimLog
      <3>2. /\ Apply(snapshot, SimDraft(t), head + 1) # Rejected
            /\ snapshot' = Apply(snapshot, SimDraft(t), head + 1)
        BY <1>1, <1>2 DEF Folds, t
      <3>3. /\ snapshot' \in Snapshot /\ SimDraft(t).type # "run.queued"
            /\ snapshot'.status = "completed" <=> snapshot.status = "completed" \/ SimDraft(t).type = "run.completed"
            /\ snapshot'.status = "failed" => snapshot.status = "failed" \/ SimDraft(t).type = "run.failed"
            /\ snapshot'.status = "cancelled" => snapshot'.cancelRequested
        BY <1>4, <2>2, <3>1, <3>2, FoldStatus
      <3> QED BY <1>4, <1>5, <2>2, <3>3
    <2> QED BY <2>1, <2>2
  <1>8. snapshot' # None
    BY <1>7, SentinelAssumption
  <1>9. SimGrow
    BY <1>1, <1>6, <1>7, <1>8 DEF SimGrow
  <1>10. t = "run.completed" => /\ r.outcome = "success"
                                /\ \A m \in r.metrics : m \in Had(r)
    <2>1. 1 \in 1 .. Len(todo) /\ \A j \in 1 .. 1 - 1 : FALSE
      <3>1. Len(todo) \in Nat /\ Len(todo) > 0
        BY <1>2, LenProperties, EmptySeq DEF TodoOK
      <3> QED BY <3>1
    <2> QED BY <1>2, <1>3, <2>1 DEF TodoOK
  <1>11. t = "run.failed" => r.outcome = "failure"
    <2>1. 1 \in 1 .. Len(todo)
      <3>1. Len(todo) \in Nat /\ Len(todo) > 0
        BY <1>2, LenProperties, EmptySeq DEF TodoOK
      <3> QED BY <3>1
    <2>2. todo[1] = "run.failed" => r.outcome = "failure"
      BY <1>2, <2>1, Zenon DEF TodoOK
    <2> QED BY <1>3, <2>2
  <1>12. SimLog'
    <2>1. load'.run # None => snapshot' # None /\ bound' = None
      BY <1>0, <1>1, <1>7, <1>8 DEF SimLog
    <2>2. \A e \in DOMAIN auths' : auths'[e].sequence \in Nat /\ auths'[e].sequence <= head'
      BY <1>0, <1>1 DEF SimLog
    <2>3. \A e \in DOMAIN recorded' : recorded'[e] \in Nat /\ recorded'[e] <= head'
      BY <1>0, <1>1, <1>6 DEF SimLog
    <2>4. finisher' # None => snapshot' # None /\ EventId(finisher, "run.completed")' \in DOMAIN recorded'
      BY <1>0, <1>1, <1>6, <1>8 DEF SimLog, EventId, id
    <2> QED BY <1>7, <1>8, <2>1, <2>2, <2>3, <2>4 DEF SimLog
  <1>13. ASSUME finisher' # None
         PROVE  /\ snapshot'.status = "completed" /\ finisher'.outcome = "success"
                /\ \A m \in finisher'.metrics :
                      /\ EventId(finisher', m) \in DOMAIN recorded'
                      /\ recorded'[EventId(finisher', m)] < recorded'[EventId(finisher', "run.completed")]
    <2>1. CASE t = "run.completed"
      <3>1. finisher' = r /\ id = EventId(r, "run.completed") /\ recorded'[id] = head + 1
        BY <1>1, <1>6, <2>1 DEF id
      <3>2. ASSUME NEW m \in r.metrics
            PROVE  EventId(r, m) \in DOMAIN recorded' /\ recorded'[EventId(r, m)] < head + 1
        <4>1. EventId(r, m) \in DOMAIN recorded
          BY <1>10, <2>1, <3>2 DEF Had
        <4>2. recorded[EventId(r, m)] \in Nat /\ recorded[EventId(r, m)] <= head
          BY <1>0, <4>1 DEF SimLog
        <4> QED BY <1>0, <1>6, <4>1, <4>2
      <3> QED BY <1>7, <1>10, <2>1, <3>1, <3>2
    <2>2. CASE t # "run.completed"
      <3>1. finisher' = finisher /\ finisher # None
        BY <1>1, <1>13, <2>2
      <3>2. /\ snapshot # None /\ EventId(finisher, "run.completed") \in DOMAIN recorded
            /\ snapshot.status = "completed" /\ finisher.outcome = "success"
            /\ \A m \in finisher.metrics :
                  /\ EventId(finisher, m) \in DOMAIN recorded
                  /\ recorded[EventId(finisher, m)] < recorded[EventId(finisher, "run.completed")]
        BY <1>0, <3>1 DEF SimLog, SimulatedSound
      <3> QED BY <1>6, <1>7, <3>1, <3>2
    <2> QED BY <2>1, <2>2
  <1>14. ASSUME bound' # None
         PROVE  /\ bound'.auth \in DOMAIN auths' /\ auths'[bound'.auth].status = "authorized"
                /\ auths'[bound'.auth].plan = bound'.plan
                /\ auths'[bound'.auth].sequence < bound'.at
                /\ snapshot'.status = "completed" => bound'.plan = "success"
                /\ snapshot'.status = "failed" => bound'.plan = "failure"
                /\ snapshot'.status = "cancelled" => snapshot'.cancelRequested
    <2>1. CASE snapshot = None
      <3>1. bound'.plan = r.outcome /\ bound'.auth = r.auth /\ bound'.at = head + 1 /\ snapshot'.status = "queued"
        BY <1>1, <1>7, <2>1
      <3>2. r.auth \in DOMAIN auths /\ auths[r.auth].status = "authorized" /\ auths[r.auth].plan = r.outcome
        BY <1>2 DEF Consumed
      <3>3. auths[r.auth].sequence \in Nat /\ auths[r.auth].sequence <= head
        BY <1>0, <3>2 DEF SimLog
      <3> QED BY <1>0, <1>1, <3>1, <3>2, <3>3
    <2>2. CASE snapshot # None
      <3>1. bound' = bound /\ bound # None /\ t # "run.queued"
        BY <1>1, <1>7, <1>14, <2>2
      <3>2. load.run = None
        BY <1>0, <3>1 DEF SimLog
      <3>3. bound.plan = r.outcome
        BY <1>2, <1>3, <3>1, <3>2 DEF QueuesFirst
      <3>4. /\ bound.auth \in DOMAIN auths /\ auths[bound.auth].status = "authorized"
            /\ auths[bound.auth].plan = bound.plan /\ auths[bound.auth].sequence < bound.at
            /\ snapshot.status = "completed" => bound.plan = "success"
            /\ snapshot.status = "failed" => bound.plan = "failure"
        BY <1>0, <3>1 DEF SimulatedSound
      <3> QED BY <1>1, <1>7, <1>10, <1>11, <2>2, <3>1, <3>3, <3>4
    <2> QED BY <2>1, <2>2
  <1>15. SimulatedSound'
    BY <1>13, <1>14 DEF SimulatedSound, EventId
  <1>16. PICK v : v = Tail(todo)
    OBVIOUS
  <1>17. /\ Turn(x) /\ Kept(x, {"todo", "frozen", "expected"}) /\ job'[x].todo = v /\ job'[x].frozen = Unset
    BY <1>0, <1>1, <1>16, AppendedMoves
  <1>18. job'[x].req = r /\ job'[x].pc = "appending"
    BY <1>1, <1>17 DEF Kept, JobFields
  <1>19. SimJob(x)'
    <2>1. Had(r) \subseteq Had(r)' /\ Consumed(r)'
      BY <1>1, <1>2, <1>6, <1>18 DEF Had, Consumed, EventId
    <2>2. t \in r.metrics => t \in Had(r)'
      BY <1>6, <1>18 DEF Had, EventId, id
    <2>3. TodoOK(r, v, Had(r)')
      BY <1>2, <1>16, <2>1, <2>2, TailOK DEF t
    <2>4. load'.run = None => snapshot' # None /\ bound'.plan = r.outcome /\ bound'.auth = r.auth
      <3>1. CASE t = "run.queued"
        BY <1>1, <1>8, <3>1
      <3>2. CASE t # "run.queued"
        BY <1>1, <1>2, <1>3, <1>8, <3>2 DEF QueuesFirst
      <3> QED BY <3>1, <3>2
    <2> QED BY <1>2, <1>17, <1>18, <2>1, <2>3, <2>4 DEF SimJob, Frozen
  <1> QED BY <1>9, <1>12, <1>15, <1>17, <1>19, SimTurn

(* The processes outside the service.                                      *)
LEMMA OutsideSim ==
    ASSUME ModelInv, SimInv, job' = job, load' = load, SimGrow, SimLog', SimulatedSound'
    PROVE  SimInv'
  <1>1. \A y \in Callers : SimJob(y)'
    BY SimJobKept DEF SimInv
  <1> QED BY <1>1 DEF SimInv

LEMMA OtherSim ==
    ASSUME ModelInv, SimInv, OtherWriter
    PROVE  SimInv'
  <1>1. job' = job /\ load' = load /\ head' = head + 1 /\ head \in Nat /\ load \in Workloads
    BY DEF OtherWriter, RunFact, ModelInv, Shaped
  <1>2. CASE UNCHANGED simVars
    <2>1. SimLog' /\ SimulatedSound' /\ SimGrow
      BY <1>1, <1>2, QuietSim DEF SimInv
    <2> QED BY <1>1, <2>1, OutsideSim
  <1>3. CASE \E t \in load.others : RunFact(t)
    <2>1. PICK t \in load.others : RunFact(t)
      BY <1>3
    <2>2. bound # None => t \notin {"run.completed", "run.failed"}
      BY <1>1, SimulationsAssumption DEF SimInv, SimLog
    <2>3. SimLog' /\ SimulatedSound' /\ SimGrow
      BY <1>1, <2>1, <2>2, RunMoves DEF SimInv, RunFact
    <2> QED BY <1>1, <2>3, OutsideSim
  <1> QED BY <1>2, <1>3 DEF OtherWriter

LEMMA AuthorizationSim ==
    ASSUME ModelInv, SimInv, Authorization
    PROVE  SimInv'
  <1>1. /\ job' = job /\ load' = load /\ head' = head + 1 /\ head \in Nat /\ SimLog /\ SimulatedSound
        /\ UNCHANGED <<snapshot, bound, recorded, finisher>>
    BY DEF Authorization, RecordAuthorization, serviceVars, ModelInv, Shaped, SimInv
  <1>2. PICK a \in load.auths : RecordAuthorization(a)
    BY DEF Authorization
  <1>3. /\ DOMAIN auths' = DOMAIN auths \cup {a.event} /\ \A e \in DOMAIN auths : auths'[e] = auths[e]
        /\ auths'[a.event].sequence = head + 1
    BY <1>2 DEF RecordAuthorization
  <1>4. SimGrow
    BY <1>1, <1>3 DEF SimGrow
  <1>5. SimLog'
    BY <1>1, <1>3 DEF SimLog, EventId
  <1>6. SimulatedSound'
    BY <1>1, <1>3 DEF SimulatedSound, EventId
  <1> QED BY <1>1, <1>4, <1>5, <1>6, OutsideSim

LEMMA SimInductive ==
    ASSUME ModelInv, ServiceInv, SimInv, [Next]_vars
    PROVE  SimInv'
  <1>0. head \in Nat /\ SimLog /\ SimulatedSound
    BY DEF ModelInv, Shaped, SimInv
  <1>1. ASSUME NEW x \in Callers, ClientStep(x) \/ Crash(x) PROVE SimInv'
    <2>1. CASE SimulateStep(x)
      <3>1. load' = load /\ Simulate(x)
        BY <2>1 DEF SimulateStep, serviceVars
      <3> QED BY <3>1, PlanSim, FreezeSim, AppendSim, StopSim DEF Simulate
    <2>2. CASE ~SimulateStep(x)
      BY <1>1, <2>2, ElsewhereSim
    <2> QED BY <2>1, <2>2
  <1>2. ASSUME job' = job, head' \in {head, head + 1}, UNCHANGED <<simVars, load>> PROVE SimInv'
    BY <1>0, <1>2, QuietSim, OutsideSim
  <1>3. ASSUME NEW cap \in Limits, RecordLimit(cap), UNCHANGED <<simVars, serviceVars>> PROVE SimInv'
    BY <1>2, <1>3 DEF RecordLimit, serviceVars
  <1>4. CASE EditMaterial
    BY <1>2, <1>4 DEF EditMaterial
  <1>5. CASE UNCHANGED vars
    BY <1>2, <1>5 DEF vars, serviceVars
  <1> QED BY <1>1, <1>3, <1>4, <1>5, OtherSim, AuthorizationSim DEF Next

LEMMA SimStarts ==
    ASSUME Init
    PROVE  SimInv
  <1>1. /\ load \in Workloads /\ snapshot = load.run /\ bound = None /\ finisher = None
        /\ DOMAIN auths = {} /\ DOMAIN recorded = {} /\ \A x \in Callers : job[x] = Idle
    BY DEF Init
  <1>2. SimLog
    BY <1>1, SimulationsAssumption DEF SimLog
  <1>3. SimulatedSound
    BY <1>1 DEF SimulatedSound
  <1>4. \A x \in Callers : SimJob(x)
    BY <1>1, IdleShape DEF SimJob
  <1> QED BY <1>2, <1>3, <1>4 DEF SimInv

(* A run that simulations completed holds every metric of the request that *)
(* completed it, ended as its plan declares, and was queued after an       *)
(* authorization of that plan, although calls race, crash and continue     *)
(* from each other's appends.                                              *)
THEOREM SimulationsSound == Spec => []SimulatedSound
  <1>1. Init => ModelInv /\ ServiceInv /\ SimInv
    BY ModelStarts, ServiceStarts, SimStarts
  <1>2. ModelInv /\ ServiceInv /\ SimInv /\ [Next]_vars => ModelInv' /\ ServiceInv' /\ SimInv'
    BY ModelInductive, ServiceInductive, SimInductive
  <1>3. SimInv => SimulatedSound
    BY DEF SimInv
  <1> QED BY <1>1, <1>2, <1>3, PTL DEF Spec
=============================================================================
