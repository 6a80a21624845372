------------------------- MODULE ApplicationService -------------------------
(***************************************************************************)
(* The application service (application/service.py) with its command       *)
(* receipts and effect intents (application/receipts.py).  Clients execute *)
(* commands: freeze the inputs, look the receipt up, check the expected    *)
(* head, perform the operation and append the receipt, each against a      *)
(* database other processes also write.  A client may crash at any point   *)
(* and retry the same command; a command never holds a lock across steps.  *)
(* A fact command records one event (a research decision, an evidence      *)
(* import, a cancellation or a revocation); a model command runs           *)
(* ModelCalls' generate; a dispatch command starts a native run or         *)
(* restores a backup; a simulate command runs SimulatedRuntime's path; the *)
(* evaluation commands collect a trained pair, publish a report on it and  *)
(* read it back; a plan command compiles a spec.                           *)
(***************************************************************************)
EXTENDS ModelCalls, ResearchLedger, SimulatedRuntime

CONSTANTS Workloads,   \* what clients submit together, from which state, amid what
          Materials    \* versions of the workspace's profile material

VARIABLES load,        \* the workload of this behaviour
          ledger,      \* fold of the research facts
          grant,       \* the worker grant that a revocation acts on
          facts,       \* [event id -> the committed draft and its sequence]
          cas,         \* artifacts in the content-addressed store
          receipts,    \* [command id -> the receipt]
          intents,     \* [scope -> digest] reserved effects
          done,        \* [scope -> how often a dispatch happened]
          issued,      \* [command -> the head it was issued against]
          material,    \* the current version of the profile material
          crashes

serviceVars == <<load, ledger, grant, facts, cas, receipts, intents, done, issued, material, crashes>>
vars == <<head, job, callVars, simVars, serviceVars>>

(* A command: its identity, operation, and the operation's one input.      *)
(* Commands with one identity and different inputs are different contents. *)
Command(id, op, event, input) == [id |-> id, op |-> op, event |-> event, input |-> input]

FactOps == {"record", "submit", "evidence", "cancel", "revoke"}
EffectOps == {"model", "dispatch"}
EvaluationOps == {"collect", "publish", "inspect"}
CommandLine == {"cli", "clisim"}
Idle == [pc |-> "idle", cmd |-> None, frozen |-> Unset, expected |-> Unset, req |-> None,
         todo |-> <<>>, digest |-> None, outcome |-> None]

Commands == UNION {w.commands : w \in Workloads}
work == load.commands
Scope(c) == IF c.op = "model" THEN c.input.call ELSE c.input
Scopes == {Scope(c) : c \in {k \in Commands : k.op \in EffectOps}}
Requests == {c.input : c \in {k \in Commands : k.op \in {"model", "cli", "observe"}}}

(* The calls that only remote requests name: a local request of the same   *)
(* name costs nothing.                                                     *)
Paid == {r.call : r \in Requests} \ {r.call : r \in {q \in Requests : q.kind # "remote"}}

(* A workload starts on a head and a ledger that a log can fold to.  The   *)
(* evidence command, and no other, imports evidence; a planned spec names  *)
(* only graphs of its own, each finite, and its policy approves or denies; *)
(* requests reserve and consume what RequestOK allows.                     *)
ASSUME WorkloadsAssumption ==
    /\ \A w \in Workloads : w.head \in Nat /\ LedgerWellFormed(w.ledger)
    /\ \A c \in Commands :
          /\ c.op \in FactOps => /\ c.op = "evidence" <=> c.input.type = "evidence.imported"
                                 /\ c.input.type = "proposal.submitted" => c.input.base \in Nat
          /\ c.op = "plan" =>
                /\ GraphsOf(c.input.spec) \subseteq DOMAIN c.input.spec.graphs
                /\ \A g \in DOMAIN c.input.spec.graphs : IsFiniteSet(DOMAIN c.input.spec.graphs[g].nodes)
                /\ \A r \in DOMAIN c.input.policy.decisions :
                       c.input.policy.decisions[r] \in {"approved", "denied"}
    /\ \A r \in Requests : {r.amount, r.cap, r.consume} \subseteq Nat /\ RequestOK(r)
    /\ Limits \subseteq Nat

(* A workload starts on a run that some log folds to.  A run that a        *)
(* simulation may queue is the simulations' own: other processes ask to    *)
(* cancel it and no more.  A cancellation carries a cancellation request,  *)
(* and a simulation names metrics of the catalog.                          *)
ASSUME SimulationsAssumption ==
    /\ \A w \in Workloads :
          /\ w.run \in Snapshot \cup {None}
          /\ w.run = None => w.others \subseteq {"run.cancel.requested", "attempt.cancel.requested"}
    /\ \A c \in Commands :
          /\ c.op = "cancel" => c.input.type = "run.cancel.requested"
          /\ c.op \in {"simulate", "clisim"} => c.input.metrics \subseteq MetricTypes

(* The request digest covers the whole command and the frozen inputs. *)
Digest(c) == [cmd |-> c, material |-> IF c.op \in EffectOps THEN material ELSE Unset]

Init ==
    /\ load \in Workloads
    /\ ledger = load.ledger
    /\ head = load.head /\ writes = 0 /\ limits = 0 /\ peak = 0 /\ crashes = 0
    /\ budget = EmptyBudget /\ calls = EmptyCalls
    /\ sent = [c \in {r.call : r \in Requests} |-> 0]
    /\ snapshot = load.run /\ bound = None /\ auths = <<>> /\ recorded = <<>> /\ finisher = None
    /\ grant = "live"
    /\ facts = <<>> /\ cas = load.cas /\ receipts = <<>> /\ intents = <<>>
    /\ done = [s \in Scopes |-> 0]
    /\ issued = [c \in work |-> Unset]
    /\ material = CHOOSE m \in Materials : TRUE
    /\ job = [x \in Callers |-> Idle]

-----------------------------------------------------------------------------
(* Fail with an ApplicationError: no receipt, the caller may retry. *)
Refuse(x) == job' = [job EXCEPT ![x] = Idle]

Step(x, pc) == job' = [job EXCEPT ![x].pc = pc]

(* Freeze the inputs and compute the digest.  A command carries the head   *)
(* its author had seen; every retry carries the same one.                  *)
Issue(x, c) ==
    /\ job[x].pc = "idle"
    /\ c \in work
    /\ c.op \notin CommandLine
    /\ LET seen == IF issued[c] = Unset THEN head ELSE issued[c] IN
       /\ issued' = [issued EXCEPT ![c] = seen]
       /\ job' = [job EXCEPT ![x] = [Idle EXCEPT !.pc = "lookup", !.cmd = c, !.expected = seen,
                                                 !.digest = Digest(c)]]
    /\ UNCHANGED <<head, callVars, simVars,
                   load, ledger, grant, facts, cas, receipts, intents, done, material, crashes>>

(* A stored receipt is replayed, or refuses other content under its name. *)
Lookup(x) ==
    LET c == job[x].cmd IN
    /\ job[x].pc = "lookup"
    /\ IF c.id \in DOMAIN receipts THEN Refuse(x) ELSE Step(x, "head")
    /\ UNCHANGED <<head, callVars, simVars, serviceVars>>

(* Mutant: an event id is taken for the fact. *)
SameEvent(c) == c.event \in DOMAIN facts

(* The command's own fact is already in the log, content included. *)
SameFact(c) == c.event \in DOMAIN facts /\ facts[c.event].draft = c.input

(* Mutant: a retry is not recognised by the fact it left. *)
NeverIdentical(c) == FALSE

IdenticalCommitted(c) == c.op \in FactOps /\ SameFact(c)

CheckHead(x) ==
    LET c == job[x].cmd IN
    /\ job[x].pc = "head"
    /\ IF IdenticalCommitted(c) \/ job[x].expected = head
       THEN job' = [job EXCEPT ![x].pc = (CASE c.op \in FactOps -> "fact" [] c.op \in EffectOps -> "intent"
                      [] c.op = "simulate" -> "simulate" [] c.op \in EvaluationOps -> "evaluate"
                      [] c.op \in {"plan", "observe"} -> c.op [] OTHER -> "receipt"),
                               ![x].req = IF c.op = "simulate" THEN c.input ELSE @]
       ELSE Refuse(x)
    /\ UNCHANGED <<head, callVars, simVars, serviceVars>>

-----------------------------------------------------------------------------
(* Fact commands *)

Imported == {facts[e].draft.id : e \in {f \in DOMAIN facts : facts[f].draft.type = "evidence.imported"}}

(* A proposal submitted through the service binds two spec artifacts and   *)
(* cites only evidence that is imported.                                   *)
Cited(id, base, refs) == ProposalDraft(id, base) @@ [refs |-> refs]

Previewed(c) == c.op = "submit" => c.input.refs \subseteq Imported

(* The artifact written before the fact: evidence bytes, a validated draft. *)
StoredFirst(c) ==
    IF c.op \in {"evidence", "submit"} THEN {c.input.id} ELSE {}

(* An evidence identity is imported once. *)
EvidenceFresh(d) == d.id \notin Imported

(* What the owning control validates the draft against. *)
FactOK(d) ==
    CASE d.type = "evidence.imported" -> EvidenceFresh(d)
      [] d.type = "run.cancel.requested" -> snapshot # None /\ Folds(d.type) # Rejected
      [] d.type = "worker.grant.revoked" -> grant = "live"
      [] OTHER -> LedgerOK(ledger, d)

(* Refuse an unresolved citation and store what the fact will name; then   *)
(* recover an identical fact, refuse another fact under the same identity, *)
(* a moved head or an invalid draft.                                       *)
PrepareFact(x) ==
    LET c == job[x].cmd IN
    /\ job[x].pc = "fact"
    /\ \/ ~Previewed(c) /\ Refuse(x) /\ UNCHANGED cas
       \/ /\ Previewed(c) /\ c.event \in DOMAIN facts
          /\ cas' = IF c.op = "submit" THEN cas \cup StoredFirst(c) ELSE cas
          /\ IF SameFact(c) THEN Step(x, "receipt") ELSE Refuse(x)
       \/ /\ Previewed(c) /\ c.event \notin DOMAIN facts
          /\ cas' = cas \cup StoredFirst(c)
          /\ IF job[x].expected = head /\ FactOK(c.input) THEN Step(x, "append") ELSE Refuse(x)
    /\ UNCHANGED <<head, callVars, simVars,
                   load, ledger, grant, facts, receipts, intents, done, issued, material, crashes>>

(* Mutant: the append is preconditioned on a rebuilt head. *)
FactHeadRebuilt(x) == TRUE

(* The caller's head, not a rebuilt one, is the append's precondition. *)
FactHead(x) == job[x].expected = head

AppendFact(x) ==
    LET c == job[x].cmd IN
    /\ job[x].pc = "append"
    /\ c.event \notin DOMAIN facts /\ FactHead(x)
    /\ head' = head + 1
    /\ facts' = With(facts, c.event, [draft |-> c.input, seq |-> head + 1])
    /\ ledger' = LedgerApply(ledger, c.input)
    /\ grant' = IF c.op = "revoke" THEN "revoked" ELSE grant
    /\ snapshot' = IF c.op = "cancel" THEN Folds(c.input.type) ELSE snapshot
    /\ Step(x, "receipt")
    /\ UNCHANGED <<callVars, bound, auths, recorded, finisher,
                   load, cas, receipts, intents, done, issued, material, crashes>>

(* A duplicate decision identity is recovered when its content is the      *)
(* same; every other conflict refuses the command.                         *)
AppendRefused(x) ==
    LET c == job[x].cmd IN
    /\ job[x].pc = "append"
    /\ c.event \in DOMAIN facts \/ ~FactHead(x)
    /\ IF c.op \in {"record", "submit"} /\ SameFact(c) THEN Step(x, "receipt") ELSE Refuse(x)
    /\ UNCHANGED <<head, callVars, simVars, serviceVars>>

-----------------------------------------------------------------------------
(* Effect commands *)

(* Mutant: a reserved scope is handed out again. *)
MayReserveAgain(s) == TRUE

(* The material must be what the command's author inspected, and the scope *)
(* is reserved in the receipt database before anything leaves the process. *)
(* A scope already reserved with this digest makes the outcome unknown;    *)
(* another digest refuses.  No failure and no crash releases an intent.    *)
MayReserve(s) == s \notin DOMAIN intents

ReserveEffect(x) ==
    LET c == job[x].cmd
        s == Scope(c)
        inspected == job[x].digest.material = (CHOOSE m \in Materials : TRUE) IN
    /\ job[x].pc = "intent"
    /\ \/ ~inspected /\ Refuse(x) /\ UNCHANGED intents
       \/ /\ inspected /\ MayReserve(s)
          /\ intents' = With(intents, s, job[x].digest.material)
          /\ job' = [job EXCEPT ![x].pc = IF c.op = "model" THEN FirstPoint(c.input) ELSE "dispatch",
                                ![x].req = IF c.op = "model" THEN c.input ELSE None]
       \/ /\ inspected /\ ~MayReserve(s)
          /\ IF intents[s] = job[x].digest.material
             THEN job' = [job EXCEPT ![x].pc = "receipt", ![x].outcome = "unknown"]
             ELSE Refuse(x)
          /\ UNCHANGED intents
    /\ UNCHANGED <<head, callVars, simVars,
                   load, ledger, grant, facts, cas, receipts, done, issued, material, crashes>>

(* Start the native run or restore the backup; its facts go to the log.    *)
Dispatch(x) ==
    /\ job[x].pc = "dispatch"
    /\ done' = [done EXCEPT ![Scope(job[x].cmd)] = @ + 1]
    /\ head' = head + 1
    /\ job' = [job EXCEPT ![x].pc = "receipt", ![x].outcome = "dispatched"]
    /\ UNCHANGED <<callVars, simVars,
                   load, ledger, grant, facts, cas, receipts, intents, issued, material, crashes>>

DispatchFails(x) ==
    /\ job[x].pc = "dispatch"
    /\ Refuse(x)
    /\ UNCHANGED <<head, callVars, simVars, serviceVars>>

(* The text of a completed call is a proposal that previews cleanly, and   *)
(* becomes a draft artifact, or it is not, and the call stays completed.   *)
GeneratedDraft(x) ==
    LET c == job[x].cmd IN
    \/ /\ job' = [job EXCEPT ![x].pc = "receipt", ![x].frozen = Unset, ![x].outcome = "draft"]
       /\ cas' = cas \cup {c.input.call}
    \/ /\ job' = [job EXCEPT ![x].pc = "receipt", ![x].frozen = Unset, ![x].outcome = "invalid-draft"]
       /\ UNCHANGED cas

(* ModelCalls' generate returned or raised; either is an outcome.  A caller *)
(* on the command line gets no receipt.                                    *)
GenerateEnds(x) ==
    /\ \/ job[x].pc = "returned" /\ job[x].cmd.op = "model" /\ GeneratedDraft(x)
       \/ /\ job[x].pc \in {"returned", "raised"} /\ job[x].cmd.op = "cli"
          /\ Refuse(x) /\ UNCHANGED cas
       \/ /\ job[x].pc = "raised" /\ job[x].cmd.op = "model"
          /\ job' = [job EXCEPT ![x].pc = "receipt", ![x].frozen = Unset, ![x].outcome = "uncertain"]
          /\ UNCHANGED cas
    /\ UNCHANGED <<head, callVars, simVars,
                   load, ledger, grant, facts, receipts, intents, done, issued, material, crashes>>

(* model.observe: what the log says of a call, without dispatching it.     *)
ObserveModel(x) ==
    LET r == job[x].cmd.input IN
    /\ job[x].pc = "observe"
    /\ \/ r.call \in calls.closed \ calls.failed /\ GeneratedDraft(x)
       \/ /\ r.call \notin calls.closed \ calls.failed
          /\ job' = [job EXCEPT ![x].pc = "receipt",
                                ![x].outcome = IF r.call \in calls.failed THEN "failed" ELSE "unknown"]
          /\ UNCHANGED cas
    /\ UNCHANGED <<head, callVars, simVars,
                   load, ledger, grant, facts, receipts, intents, done, issued, material, crashes>>

(* researchos models generate and runs simulate: the same calls without    *)
(* service, receipt, intent or expected head.                              *)
CliCall(x, c) ==
    /\ job[x].pc = "idle"
    /\ c \in work /\ c.op \in CommandLine
    /\ job' = [job EXCEPT ![x] = [Idle EXCEPT !.cmd = c, !.req = c.input,
                                              !.pc = IF c.op = "cli" THEN FirstPoint(c.input) ELSE "simulate"]]
    /\ UNCHANGED <<head, callVars, simVars, serviceVars>>

ModelStep(x) == Generate(x) /\ UNCHANGED <<simVars, serviceVars>>

SimulateStep(x) == Simulate(x) /\ UNCHANGED <<callVars, serviceVars>>

(* The simulation returned, or it raised and the command is refused.       *)
SimulateEnds(x) ==
    /\ job[x].pc \in {"simulated", "refused"}
    /\ IF job[x].pc = "refused" \/ job[x].cmd.op = "clisim" THEN Refuse(x)
       ELSE job' = [job EXCEPT ![x].pc = "receipt", ![x].outcome = snapshot.status]
    /\ UNCHANGED <<head, callVars, simVars, serviceVars>>

-----------------------------------------------------------------------------
(* Evaluation commands work on artifacts and receipts, not on the log.     *)

Published == {receipts[i].digest.cmd.input.report :
                  i \in {k \in DOMAIN receipts : receipts[k].digest.cmd.op = "publish"}}

(* Collect computes a baseline and a candidate from a run's output and     *)
(* stores both; a report binds the pair it was previewed on and may claim  *)
(* only what the comparison supports; inspection finds published reports.  *)
EvaluationOK(c) ==
    CASE c.op = "collect" -> c.input.output \in cas
      [] c.op = "publish" -> /\ c.input.pair \subseteq cas
                             /\ c.input.previewed = c.input.pair
                             /\ c.input.verdict = "insufficient-evidence" \/ c.input.supported
      [] c.op = "inspect" -> c.input.report \in Published \cap cas

Stored(c) ==
    CASE c.op = "collect" -> c.input.pair [] c.op = "publish" -> {c.input.report} [] OTHER -> {}

Evaluate(x) ==
    LET c == job[x].cmd IN
    /\ job[x].pc = "evaluate"
    /\ IF EvaluationOK(c) THEN Step(x, "receipt") /\ cas' = cas \cup Stored(c)
       ELSE Refuse(x) /\ UNCHANGED cas
    /\ UNCHANGED <<head, callVars, simVars,
                   load, ledger, grant, facts, receipts, intents, done, issued, material, crashes>>

(* plan.dry-run and plan.preflight report the compiled plan.               *)
PlanStep(x) ==
    LET c == job[x].cmd IN
    /\ job[x].pc = "plan"
    /\ IF SpecValid(c.input.spec)
       THEN job' = [job EXCEPT ![x].pc = "receipt", ![x].outcome = DryRun(c.input.spec)]
       ELSE Refuse(x)
    /\ UNCHANGED <<head, callVars, simVars, serviceVars>>

-----------------------------------------------------------------------------
(* The receipt is unique per command identity; the loser of a race gets a  *)
(* conflict although its effect is in place.                               *)
AppendReceipt(x) ==
    LET c == job[x].cmd IN
    /\ job[x].pc = "receipt"
    /\ receipts' = IF c.id \in DOMAIN receipts THEN receipts
                   ELSE With(receipts, c.id, [digest |-> job[x].digest, outcome |-> job[x].outcome])
    /\ Refuse(x)
    /\ UNCHANGED <<head, callVars, simVars,
                   load, ledger, grant, facts, cas, intents, done, issued, material, crashes>>

Crash(x) ==
    /\ job[x].pc # "idle" /\ crashes < load.crashes
    /\ crashes' = crashes + 1
    /\ Refuse(x)
    /\ UNCHANGED <<head, callVars, simVars,
                   load, ledger, grant, facts, cas, receipts, intents, done, issued, material>>

(* The rest of the system: another process appends its facts, uses the     *)
(* grant, or moves the run.                                                *)
OtherWriter ==
    /\ writes < load.writes
    /\ writes' = writes + 1
    /\ \/ /\ head' = head + 1
          /\ grant' \in {grant} \cup (IF grant = "live" THEN {"consumed"} ELSE {})
          /\ UNCHANGED simVars
       \/ /\ \E t \in load.others : RunFact(t)
          /\ UNCHANGED grant
    /\ UNCHANGED <<budget, calls, sent, peak, limits, job,
                   load, ledger, facts, cas, receipts, intents, done, issued, material, crashes>>

Authorization ==
    /\ \E a \in load.auths : RecordAuthorization(a)
    /\ UNCHANGED <<job, callVars, serviceVars>>

(* The operator edits the profile, request or fixture files. *)
EditMaterial ==
    /\ load.edits
    /\ material' \in Materials
    /\ UNCHANGED <<head, job, callVars, simVars,
                   load, ledger, grant, facts, cas, receipts, intents, done, issued, crashes>>

(* The steps of a fact command, and of the other operations. *)
FactStep(x) ==
    \/ Lookup(x) \/ CheckHead(x)
    \/ PrepareFact(x) \/ AppendFact(x) \/ AppendRefused(x)
    \/ AppendReceipt(x)

OperationStep(x) ==
    \/ ReserveEffect(x) \/ Dispatch(x) \/ DispatchFails(x) \/ ModelStep(x) \/ GenerateEnds(x) \/ ObserveModel(x)
    \/ SimulateStep(x) \/ SimulateEnds(x) \/ Evaluate(x) \/ PlanStep(x)

ClientStep(x) == FactStep(x) \/ OperationStep(x) \/ \E c \in work : Issue(x, c) \/ CliCall(x, c)

Next ==
    \/ \E x \in Callers : ClientStep(x) \/ Crash(x)
    \/ \E cap \in Limits : limits < load.limits /\ RecordLimit(cap) /\ UNCHANGED <<simVars, serviceVars>>
    \/ OtherWriter
    \/ Authorization
    \/ EditMaterial

Spec == Init /\ [][Next]_vars

(* A client that has begun a fact command runs it to its end unless it     *)
(* crashes, and the author of a fact without a receipt submits it again.   *)
ReceiptLost(c) == c.op \in FactOps /\ SameFact(c) /\ c.id \notin DOMAIN receipts

Resubmit == \E x \in Callers, c \in work : ReceiptLost(c) /\ Issue(x, c)

Fairness == SF_vars(Resubmit) /\ \A x \in Callers : WF_vars(FactStep(x))

LiveSpec == Spec /\ Fairness

-----------------------------------------------------------------------------
(* No effect happens twice: a native run is started, a backup restored and *)
(* a model request sent at most once per scope, whatever clients race,     *)
(* crash, retry or bypass the service from the command line.               *)
EffectAtMostOnce ==
    /\ \A s \in Scopes : done[s] <= 1
    /\ \A c \in DOMAIN sent : sent[c] <= 1

(* A remote request that may have left keeps its reservation open: no      *)
(* refusal, conflict or crash gives its money back.                        *)
UncertainStaysReserved == SentStaysReserved(Paid)

(* A receipt never claims what the log and the stores do not hold.         *)
Backed(c, outcome) ==
    /\ c.op \in FactOps => c.event \in DOMAIN facts /\ facts[c.event].draft = c.input
    /\ c.op \in FactOps => StoredFirst(c) \subseteq cas /\ Previewed(c)
    /\ c.op \in EffectOps => Scope(c) \in DOMAIN intents
    /\ c.op \in EvaluationOps => Stored(c) \subseteq cas
    /\ c.op = "inspect" => c.input.report \in Published
    /\ c.op = "plan" => /\ StagesSound(c.input.spec, outcome)
                        /\ AuthorizationSound(c.input.spec, outcome, c.input.policy)
    /\ c.op \in {"model", "observe"} =>
           /\ outcome \in {"draft", "invalid-draft"} => c.input.call \in calls.closed \ calls.failed
           /\ outcome = "draft" => c.input.call \in cas
    /\ c.op = "dispatch" /\ outcome = "dispatched" => done[Scope(c)] = 1

ReceiptBacked == \A i \in DOMAIN receipts : Backed(receipts[i].digest.cmd, receipts[i].outcome)

(* The ledger of the committed research facts is consistent: supersession  *)
(* lineage, overridden dissents and grounded decisions.                    *)
LedgerConsistent == LineageSound(ledger) /\ OverridesAgree(ledger) /\ DecisionsGrounded(ledger)

(* A fact whose receipt was lost in a crash gets its receipt: a retry is   *)
(* never shut out by the head that the fact itself moved.                  *)
LostReceiptRecovered == []<>(\A c \in work : ~ReceiptLost(c))
=============================================================================
