------------------------------ MODULE Planner -------------------------------
(***************************************************************************)
(* The static planner and the plan authorization: the validation of a      *)
(* workflow graph (spec/models.py), its compilation into stages and policy *)
(* requirements (execution/planner.py, execution/kernel.py), and the       *)
(* decision of a policy on the compiled plan (execution/authorization.py). *)
(* Pure operators: a spec in, a report or a decision out.                  *)
(*                                                                         *)
(* A spec maps graph names to graphs; a loop node names the graph of its   *)
(* body, so nesting is the depth at which a graph is reached from "root".  *)
(* Versions, digests, prompts and JSON paths are left out; a node path is  *)
(* the pair of its graph and its id.                                       *)
(***************************************************************************)
EXTENDS Integers, FiniteSets, FiniteSetsExt

CONSTANTS
    Registry,         \* [block type -> manifest] the sealed registry
    MaxNodes,         \* HARD_MAX_NODES, 1024 in the code
    MaxLoopDepth      \* HARD_MAX_LOOP_DEPTH, 16 in the code

ASSUME PlannerLimitsAssumption == MaxNodes \in Nat \ {0} /\ MaxLoopDepth \in Nat

AnyType == "researchos.any"

(* A manifest: typed ports, the required inputs, what the block may do.    *)
Manifest(ins, outs, required, capabilities) ==
    [inputs |-> ins, outputs |-> outs, required |-> required, capabilities |-> capabilities]

(* A node is a task, a human approval or a loop over another graph.        *)
Task(block, resources) ==
    [kind |-> "task", block |-> block, resources |-> resources, configOK |-> TRUE]
Approval == [kind |-> "approval"]
Loop(body, cost) == [kind |-> "loop", body |-> body, cost |-> cost]

(* A control edge has no ports; a data edge joins an output to an input.   *)
NoPort == "-"
Edge(from, to, out, in) == [from |-> from, to |-> to, out |-> out, in |-> in]
IsData(e) == e.out # NoPort

-----------------------------------------------------------------------------
(* WorkflowGraph.validate_graph                                            *)

Preds(g, n) == {e.from : e \in {x \in g.edges : x.to = n}}

(* The nodes that become ready in round k of Kahn's algorithm: those whose *)
(* last open predecessor was in round k - 1.                               *)
Placed(g) ==
    LET upTo[k \in 0 .. Cardinality(DOMAIN g.nodes)] ==
            IF k = 0 THEN {}
            ELSE {n \in DOMAIN g.nodes : Preds(g, n) \subseteq upTo[k - 1]}
    IN  upTo

Stage(g, k) == Placed(g)[k] \ Placed(g)[k - 1]

GraphValid(g) ==
    /\ DOMAIN g.nodes # {}
    /\ \A e \in g.edges : {e.from, e.to} \subseteq DOMAIN g.nodes /\ e.from # e.to
    /\ \A e \in g.edges : (e.out = NoPort) = (e.in = NoPort)
    /\ Placed(g)[Cardinality(DOMAIN g.nodes)] = DOMAIN g.nodes

Tasks(g) == {n \in DOMAIN g.nodes : g.nodes[n].kind = "task"}
Loops(g) == {n \in DOMAIN g.nodes : g.nodes[n].kind = "loop"}
Approvals(g) == {n \in DOMAIN g.nodes : g.nodes[n].kind = "approval"}

(* The graphs of a spec at each nesting depth below the root.              *)
AtDepth(spec) ==
    LET level[d \in Nat] ==
            IF d = 0 THEN {"root"}
            ELSE UNION {{spec.graphs[g].nodes[n].body : n \in Loops(spec.graphs[g])}
                            : g \in level[d - 1]}
    IN  level

GraphsOf(spec) == UNION {AtDepth(spec)[d] : d \in 0 .. MaxLoopDepth}

(* ResearchSpec: references resolve, and a loop that may spend is bounded. *)
SpecValid(spec) ==
    /\ \A g \in DOMAIN spec.graphs : GraphValid(spec.graphs[g])
    /\ \A g \in DOMAIN spec.graphs : \A n \in Tasks(spec.graphs[g]) :
           spec.graphs[g].nodes[n].resources \subseteq DOMAIN spec.paid

-----------------------------------------------------------------------------
(* _plan_graph and _validate_data_edges                                    *)

BlocksResolve(g) ==
    \A n \in Tasks(g) : g.nodes[n].block \in DOMAIN Registry /\ g.nodes[n].configOK

Block(g, n) == Registry[g.nodes[n].block]

TypesAgree(s, t) == s = t \/ s = AnyType \/ t = AnyType

DataEdgeOK(g, e) ==
    /\ {e.from, e.to} \subseteq Tasks(g)
    /\ e.out \in DOMAIN Block(g, e.from).outputs
    /\ e.in \in DOMAIN Block(g, e.to).inputs
    /\ TypesAgree(Block(g, e.from).outputs[e.out], Block(g, e.to).inputs[e.in])

Bound(g, n, port) == {e \in g.edges : IsData(e) /\ e.to = n /\ e.in = port}

DataEdgesOK(g) ==
    /\ \A e \in g.edges : IsData(e) => DataEdgeOK(g, e)
    /\ \A n \in Tasks(g) : \A p \in DOMAIN Block(g, n).inputs :
           /\ Cardinality(Bound(g, n, p)) <= 1
           /\ p \in Block(g, n).required => Bound(g, n, p) # {}

NodeCount(spec) ==
    MapThenSumSet(LAMBDA g : Cardinality(DOMAIN spec.graphs[g].nodes), GraphsOf(spec))

WithinLimits(spec) ==
    /\ AtDepth(spec)[MaxLoopDepth + 1] = {}
    /\ NodeCount(spec) <= MaxNodes

Plannable(spec) ==
    /\ WithinLimits(spec)
    /\ \A g \in GraphsOf(spec) : BlocksResolve(spec.graphs[g]) /\ DataEdgesOK(spec.graphs[g])

-----------------------------------------------------------------------------
(* compile_plan and TrustedKernel.dry_run                                  *)

UsedResources(spec) ==
    UNION {UNION {spec.graphs[g].nodes[n].resources : n \in Tasks(spec.graphs[g])} : g \in GraphsOf(spec)}

(* What somebody must approve before the plan may run: every approval      *)
(* node, every loop that may cost and every paid resource in use.          *)
Requirements(spec) ==
    (UNION {{<<"approval", g, n>> : n \in Approvals(spec.graphs[g])} : g \in GraphsOf(spec)})
    \cup (IF spec.paidNeedsApproval
          THEN (UNION {{<<"paid-loop", g, n>> : n \in {m \in Loops(spec.graphs[g]) : spec.graphs[g].nodes[m].cost}}
                           : g \in GraphsOf(spec)})
               \cup {<<"paid-resource", "root", r>> : r \in {u \in UsedResources(spec) : spec.paid[u]}}
          ELSE {})

(* _declared_access: what the blocks of every nested graph may do. *)
DeclaredCapabilities(spec) ==
    UNION {UNION {Block(spec.graphs[g], n).capabilities : n \in Tasks(spec.graphs[g])} : g \in GraphsOf(spec)}

Stages(g) == [k \in {i \in 1 .. Cardinality(DOMAIN g.nodes) : Stage(g, i) # {}} |-> Stage(g, k)]

DryRun(spec) ==
    IF Plannable(spec)
    THEN [status |-> "ready", requirements |-> Requirements(spec),
          capabilities |-> DeclaredCapabilities(spec),
          stages |-> [g \in GraphsOf(spec) |-> Stages(spec.graphs[g])]]
    ELSE [status |-> "blocked", requirements |-> {}, capabilities |-> {}, stages |-> <<>>]

-----------------------------------------------------------------------------
(* authorize_plan: a policy grants capabilities and decides requirements.  *)

Policy(capabilities, decisions) == [capabilities |-> capabilities, decisions |-> decisions]

(* A policy that names anything the plan does not need is refused whole.   *)
PolicyFits(report, policy) ==
    /\ report.status = "ready"
    /\ policy.capabilities \subseteq report.capabilities
    /\ DOMAIN policy.decisions \subseteq report.requirements

Authorize(report, policy) ==
    CASE \/ report.capabilities \ policy.capabilities # {}
         \/ \E r \in DOMAIN policy.decisions : policy.decisions[r] = "denied" -> "denied"
      [] OTHER -> IF DOMAIN policy.decisions = report.requirements THEN "authorized" ELSE "pending"

-----------------------------------------------------------------------------
(* A ready report places every node of every reachable graph in exactly    *)
(* one stage, after everything it depends on.                              *)
StagesSound(spec, report) ==
    \A g \in DOMAIN report.stages :
        LET st == report.stages[g] IN
        /\ \A n \in DOMAIN spec.graphs[g].nodes :
               Cardinality({k \in DOMAIN st : n \in st[k]}) = 1
        /\ \A e \in spec.graphs[g].edges : \A j, k \in DOMAIN st :
               e.from \in st[j] /\ e.to \in st[k] => j < k

(* An authorized plan leaves nothing of any nested body undecided.         *)
AuthorizationSound(spec, report, policy) ==
    Authorize(report, policy) = "authorized" =>
        \A g \in DOMAIN report.stages : \A n \in DOMAIN spec.graphs[g].nodes :
            LET node == spec.graphs[g].nodes[n] IN
            /\ node.kind = "approval" => policy.decisions[<<"approval", g, n>>] = "approved"
            /\ node.kind = "task" =>
                   /\ Registry[node.block].capabilities \subseteq policy.capabilities
                   /\ \A r \in node.resources : spec.paid[r] /\ spec.paidNeedsApproval =>
                          policy.decisions[<<"paid-resource", "root", r>>] = "approved"
=============================================================================
