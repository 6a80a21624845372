------------------------ MODULE MCApplicationService ------------------------
(* Model-checking instance of ApplicationService: two clients, workloads   *)
(* that race over one fact, one model call, one scope or one ledger.       *)
EXTENDS ApplicationService

(* A ledger with two proposals, a dissent against the first and a question. *)
Drafted ==
    LedgerApply(LedgerApply(LedgerApply(LedgerApply(EmptyLedger,
        ProposalDraft("p1", 1)), ProposalDraft("p2", 2)),
        DissentDraft("d1", "proposal", "p1")), AskDraft("q1", "p1"))

(* A workload bounds the disturbance it meets: facts of other processes,   *)
(* limit facts, crashes, and edits of the profile material.                         *)
Workload(l, cs, w, n, edits) ==
    [ledger |-> l, commands |-> cs, writes |-> w, limits |-> n, edits |-> edits,
     crashes |-> 1, head |-> 0, run |-> None, others |-> {}, auths |-> {}, cas |-> {}]

(* Clients race, none of them crashes. *)
Undisturbed(cs, n) == [Workload(EmptyLedger, cs, 0, n, FALSE) EXCEPT !.crashes = 0]

(* A run that has started its attempt, before the log of the workload.     *)
Running ==
    FoldLeft(LAMBDA s, t : Apply(s, SimDraft(t), IF s = None THEN 1 ELSE s.lastSequence + 1),
             None, <<"run.queued", "run.started", "attempt.queued", "attempt.started">>)

(* One simulated task per outcome; a workflow with a loop and an approval. *)
MCRegistry ==
    ("simulated.experiment" :> Manifest(<<>>, <<>>, {}, {"simulate"}))
    @@ ("load" :> Manifest(<<>>, [d |-> "table"], {}, {"read"}))
    @@ ("train" :> Manifest([d |-> "table"], [m |-> "model"], {"d"}, {"train"}))

Spec1(g) == [graphs |-> [root |-> g], paid |-> <<>>, paidNeedsApproval |-> TRUE]
SimSpec == Spec1([nodes |-> [t |-> Task("simulated.experiment", {})], edges |-> {}])

TrainSpec(wired) ==
    [graphs |-> [root |-> [nodes |-> [a |-> Approval, l |-> Loop("body", TRUE), z |-> Task("load", {})],
                           edges |-> {Edge("a", "l", NoPort, NoPort), Edge("z", "l", NoPort, NoPort)}],
                 body |-> [nodes |-> [u |-> Task("load", {}), v |-> Task("train", {"gpu"}), w |-> Approval],
                           edges |-> (IF wired THEN {Edge("u", "v", "d", "d")} ELSE {})
                                     \cup {Edge("v", "w", NoPort, NoPort)}]],
     paid |-> [gpu |-> TRUE], paidNeedsApproval |-> TRUE]

AllApproved(spec) ==
    Policy(DryRun(spec).capabilities, [r \in DryRun(spec).requirements |-> "approved"])

Authorized(event, plan) == [event |-> event, plan |-> plan, spec |-> SimSpec, policy |-> SimulatedPolicy]
Refused(event, plan) == [event |-> event, plan |-> plan, spec |-> SimSpec, policy |-> Policy({}, <<>>)]

Sim(ids, outcome, metrics) == SimRequest(ids, outcome, SimSpec, metrics, "z1", 1)
Metrics == {"training.step", "evaluation.metric"}

SimWorkload(cs, w, others, decisions) ==
    [Workload(EmptyLedger, cs, w, 0, FALSE) EXCEPT !.others = others, !.auths = decisions]

Remote(call, b) == Request(call, b, "remote", 2, 3, 0)
Local == Request("m2", "b2", "local", 0, 0, 0)
Mock == Request("m3", "b3", "mock", 0, 0, 0)

Decide(id, kind, target, outcome, over) ==
    Command(id, "record", id, DecisionDraft(id, kind, target, outcome, over))

MCWorkloads ==
    { \* two authors decide on one ledger
      Workload(Drafted, {Decide("c1", "proposal", "p1", "accept", {"d1"}),
                         Decide("c2", "proposal", "p2", "accept", {"d1"}),
                         Decide("c3", "proposal", "p1", "reject", {})}, 0, 0, FALSE),
      Workload(Drafted, {Command("c1", "record", "e1", AnswerDraft("q1")),
                         Decide("c2", "question", "q1", "accept", {}),
                         Command("c3", "record", "e3", DissentDraft("d2", "decision", "c2"))}, 0, 0, FALSE),
      \* one identity, two contents; one event, two identities
      Workload(EmptyLedger, {Command("c1", "record", "e1", ProposalDraft("p1", 1)),
                             Command("c1", "record", "e1", ProposalDraft("p2", 1)),
                             Command("c2", "record", "e1", ProposalDraft("p1", 1))}, 0, 0, FALSE),
      \* the other facts, against a run and a grant that move on
      Workload(EmptyLedger, {Command("c1", "evidence", "e1", [type |-> "evidence.imported", id |-> "s1"]),
                             Command("c2", "cancel", "e2", [type |-> "run.cancel.requested", id |-> "r1"])},
               1, 0, FALSE),
      [Workload(EmptyLedger, {Command("c2", "cancel", "e2", [type |-> "run.cancel.requested", id |-> "r1"])},
                2, 0, FALSE) EXCEPT !.head = 4, !.run = Running, !.others = {"attempt.succeeded", "run.completed"}],
      Workload(EmptyLedger, {Command("c1", "evidence", "e1", [type |-> "evidence.imported", id |-> "s1"]),
                             Command("c2", "submit", "e2", Cited("p1", 1, {"s1"}))}, 0, 0, FALSE),
      Workload(EmptyLedger, {Command("c3", "revoke", "e3", [type |-> "worker.grant.revoked", id |-> "g1"]),
                             Command("c4", "read", NoOne, NoOne)}, 1, 0, FALSE),
      \* one call through the service and the command line, two calls on one cap
      Workload(EmptyLedger, {Command("c1", "model", NoOne, Remote("m1", "b1")),
                             Command("c2", "cli", NoOne, Remote("m1", "b1"))}, 0, 1, FALSE),
      Undisturbed({Command("c1", "model", NoOne, Remote("m1", "b1")),
                   Command("c2", "cli", NoOne, Remote("m4", "b4"))}, 2),
      Undisturbed({Command("c1", "cli", NoOne, Remote("m1", "b1")),
                   Command("c2", "cli", NoOne, Remote("m1", "b4"))}, 1),
      Workload(EmptyLedger, {Command("c1", "model", NoOne, Local),
                             Command("c2", "observe", NoOne, Local)}, 0, 0, FALSE),
      Workload(EmptyLedger, {Command("c2", "model", NoOne, Mock)}, 0, 0, FALSE),
      \* one native run or restore, submitted twice while its material changes
      Workload(EmptyLedger, {Command("c1", "dispatch", NoOne, "run1"),
                             Command("c2", "dispatch", NoOne, "run1")}, 0, 0, TRUE),
      \* one simulated run, through the service and twice from the command line
      SimWorkload({Command("c1", "simulate", NoOne, Sim("i1", "success", Metrics)),
                   Command("c2", "clisim", NoOne, Sim("i1", "success", Metrics))}, 0, {},
                  {Authorized("z1", "success")}),
      [SimWorkload({Command("c1", "clisim", NoOne, Sim("i1", "success", {"training.step"})),
                    Command("c2", "clisim", NoOne, Sim("i2", "success", {"evaluation.metric"}))}, 0, {},
                   {Authorized("z1", "success")}) EXCEPT !.crashes = 0],
      SimWorkload({Command("c1", "clisim", NoOne, Sim("i1", "success", {"training.step"}))}, 1,
                  {"run.cancel.requested", "attempt.cancel.requested"}, {Authorized("z1", "success")}),
      SimWorkload({Command("c1", "clisim", NoOne, Sim("i1", "failure", {})),
                   Command("c2", "clisim", NoOne, Sim("i2", "success", {}))}, 0, {},
                  {Authorized("z1", "failure"), Refused("z2", "success")}),
      SimWorkload({Command("c1", "clisim", NoOne, Sim("i1", "unknown", {}))}, 1, {"run.cancel.requested"},
                  {Authorized("z1", "unknown")}),
      \* a plan is compiled; a pair is collected, reported on and read back
      Workload(EmptyLedger, {Command("c1", "plan", NoOne, [spec |-> TrainSpec(TRUE), policy |-> AllApproved(TrainSpec(TRUE))]),
                             Command("c2", "plan", NoOne, [spec |-> TrainSpec(FALSE), policy |-> Policy({}, <<>>)])},
               0, 0, FALSE),
      [Workload(EmptyLedger, {Command("c1", "collect", NoOne, [output |-> "o1", pair |-> {"b1", "k1"}]),
                              Command("c2", "publish", NoOne, [report |-> "r1", pair |-> {"b1", "k1"},
                                          previewed |-> {"b1", "k1"}, verdict |-> "supported", supported |-> TRUE]),
                              Command("c3", "inspect", NoOne, [report |-> "r1"])}, 0, 0, FALSE) EXCEPT !.cas = {"o1"}] }

ASSUME \A w \in MCWorkloads : \A c \in w.commands : c.op = "plan" => SpecValid(c.input.spec)
=============================================================================
