--------------------------- MODULE ResearchLedger ---------------------------
(***************************************************************************)
(* The research ledger: the fold of a project's proposals, dissents,       *)
(* decisions and questions (research/ledger.py), as operators.  A draft is *)
(* validated by applying it to the ledger of a frozen head                 *)
(* (research/control.py); LedgerOK is that validation and LedgerApply its  *)
(* result.  Texts, digests, answers' options and evidence references are   *)
(* abstracted away; identities, targets, outcomes and base revisions stay. *)
(***************************************************************************)
EXTENDS Integers, FiniteSets, Functions, TLC

NoOne == "-"
MaxDecisionList == 32

(* f with v under k.                                                       *)
With(f, k, v) == [x \in DOMAIN f \cup {k} |-> IF x = k THEN v ELSE f[x]]

(* A ledger maps the identities recorded so far to their entries. *)
EmptyLedger ==
    [proposals |-> <<>>, dissents |-> <<>>, decisions |-> <<>>, questions |-> <<>>,
     runs |-> {}]

(* The five decision facts, with the fields the fold reads. *)
ProposalDraft(id, base) == [type |-> "proposal.submitted", id |-> id, actor |-> "ai", base |-> base]
DissentDraft(id, kind, target) ==
    [type |-> "dissent.recorded", id |-> id, actor |-> "ai", kind |-> kind, target |-> target]
DecisionDraft(id, kind, target, outcome, over) ==
    [type |-> "decision.recorded", id |-> id, actor |-> "human", kind |-> kind, target |-> target,
     outcome |-> outcome, over |-> over]
AskDraft(id, related) == [type |-> "question.asked", id |-> id, actor |-> "ai", related |-> related]
AnswerDraft(id) == [type |-> "question.answered", id |-> id, actor |-> "human"]
RunDraft(id) == [type |-> "run.queued", id |-> id, actor |-> "system"]

(* Which kind of actor may record which fact. *)
ActorKinds(type) ==
    CASE type \in {"proposal.submitted", "dissent.recorded"} -> {"ai", "human"}
      [] type = "decision.recorded" -> {"human", "policy"}
      [] type = "question.asked" -> {"ai", "system"}
      [] type = "question.answered" -> {"human"}
      [] OTHER -> {"ai", "human", "policy", "system"}

ActorOK(d) == d.actor \in ActorKinds(d.type)

ProposalOK(l, d) == d.id \notin DOMAIN l.proposals

DissentTargetResolves(l, d) ==
    \/ d.kind = "proposal" /\ d.target \in DOMAIN l.proposals
    \/ d.kind = "decision" /\ d.target \in DOMAIN l.decisions

DissentOK(l, d) == d.id \notin DOMAIN l.dissents /\ DissentTargetResolves(l, d)

DecisionTargetResolves(l, d) ==
    \/ d.kind = "proposal" /\ d.target \in DOMAIN l.proposals
    \/ d.kind = "dissent" /\ d.target \in DOMAIN l.dissents
    \/ d.kind = "run" /\ d.target \in l.runs
    \/ d.kind = "question" /\ d.target \in DOMAIN l.questions

(* The ledger entries a proposal and a decision leave. *)
ProposalEntry(d) ==
    [base |-> d.base, state |-> "proposed", acceptedBy |-> NoOne, supersededBy |-> NoOne]
DecisionEntry(d) ==
    [kind |-> d.kind, target |-> d.target, outcome |-> d.outcome, over |-> d.over]

(* Accepting or rejecting closes a proposal; deferring leaves it open. *)
Closes(d) == d.kind = "proposal" /\ d.outcome \in {"accept", "reject"}

OpenForOutcome(l, d) == Closes(d) => l.proposals[d.target].state = "proposed"

DecisionOK(l, d) ==
    /\ d.id \notin DOMAIN l.decisions
    /\ DecisionTargetResolves(l, d)
    /\ d.kind = "question" /\ l.questions[d.target] = "open" => d.outcome = "defer"
    /\ d.over \subseteq DOMAIN l.dissents
    /\ \A e \in d.over : Cardinality(l.dissents[e]) < MaxDecisionList
    /\ OpenForOutcome(l, d)

AskOK(l, d) ==
    /\ d.id \notin DOMAIN l.questions
    /\ d.related \in {NoOne} \cup DOMAIN l.proposals

AnswerOK(l, d) == d.id \in DOMAIN l.questions /\ l.questions[d.id] = "open"

(* What appending the draft to a log with ledger l would be refused for. *)
LedgerOK(l, d) ==
    /\ ActorOK(d)
    /\ CASE d.type = "proposal.submitted" -> ProposalOK(l, d)
         [] d.type = "dissent.recorded" -> DissentOK(l, d)
         [] d.type = "decision.recorded" -> DecisionOK(l, d)
         [] d.type = "question.asked" -> AskOK(l, d)
         [] d.type = "question.answered" -> AnswerOK(l, d)
         [] OTHER -> TRUE

(* Accepting a proposal supersedes the accepted ones of a lower base. *)
Superseded(l, d) ==
    IF d.kind = "proposal" /\ d.outcome = "accept"
    THEN {p \in DOMAIN l.proposals : /\ l.proposals[p].state = "accepted"
                                     /\ l.proposals[p].base < l.proposals[d.target].base}
    ELSE {}

DecidedProposals(l, d) ==
    [p \in DOMAIN l.proposals |->
        CASE Closes(d) /\ p = d.target ->
                [l.proposals[p] EXCEPT !.state = IF d.outcome = "accept" THEN "accepted" ELSE "rejected",
                                       !.acceptedBy = IF d.outcome = "accept" THEN d.id ELSE l.proposals[p].acceptedBy]
          [] p \in Superseded(l, d) ->
                [l.proposals[p] EXCEPT !.state = "superseded", !.supersededBy = d.target]
          [] OTHER -> l.proposals[p]]

(* A dissent lists the decisions that overrode it. *)
OverriddenDissents(l, d) ==
    [e \in DOMAIN l.dissents |-> IF e \in d.over THEN l.dissents[e] \cup {d.id} ELSE l.dissents[e]]

Decided(l, d) ==
    [l EXCEPT !.proposals = DecidedProposals(l, d),
              !.dissents = OverriddenDissents(l, d),
              !.decisions = With(l.decisions, d.id, DecisionEntry(d))]

LedgerApply(l, d) ==
    CASE d.type = "proposal.submitted" ->
            [l EXCEPT !.proposals = With(l.proposals, d.id, ProposalEntry(d))]
      [] d.type = "dissent.recorded" -> [l EXCEPT !.dissents = With(l.dissents, d.id, {})]
      [] d.type = "decision.recorded" -> Decided(l, d)
      [] d.type = "question.asked" -> [l EXCEPT !.questions = With(l.questions, d.id, "open")]
      [] d.type = "question.answered" -> [l EXCEPT !.questions = With(l.questions, d.id, "answered")]
      [] d.type = "run.queued" -> [l EXCEPT !.runs = @ \cup {d.id}]
      [] OTHER -> l

-----------------------------------------------------------------------------
(* A superseded proposal names a proposal of a higher base revision that   *)
(* was accepted, and an accepted one names the accepting decision.         *)
LineageSound(l) ==
    \A p \in DOMAIN l.proposals :
        LET e == l.proposals[p] IN
        /\ e.state = "superseded" =>
              /\ e.supersededBy \in DOMAIN l.proposals
              /\ l.proposals[e.supersededBy].base > e.base
              /\ l.proposals[e.supersededBy].state \in {"accepted", "superseded"}
        /\ e.state \in {"accepted", "superseded"} =>
              /\ e.acceptedBy \in DOMAIN l.decisions
              /\ l.decisions[e.acceptedBy].target = p
              /\ l.decisions[e.acceptedBy].outcome = "accept"

(* The links between a dissent and the decisions that overrode it agree in *)
(* both directions.                                                        *)
OverridesAgree(l) ==
    \A e \in DOMAIN l.dissents :
        l.dissents[e] = {d \in DOMAIN l.decisions : e \in l.decisions[d].over}

(* Nobody accepted or rejected on an unanswered question, and a closed     *)
(* proposal was closed by exactly one decision.                            *)
QuestionsAnswered(l) ==
    \A d \in DOMAIN l.decisions :
        l.decisions[d].kind = "question" /\ l.decisions[d].outcome # "defer"
            => l.questions[l.decisions[d].target] = "answered"

Deciders(l, p) ==
    {d \in DOMAIN l.decisions : /\ l.decisions[d].kind = "proposal" /\ l.decisions[d].target = p
                               /\ l.decisions[d].outcome \in {"accept", "reject"}}

DecisionsGrounded(l) ==
    /\ QuestionsAnswered(l)
    /\ \A p \in DOMAIN l.proposals :
          Cardinality(Deciders(l, p)) = (IF l.proposals[p].state = "proposed" THEN 0 ELSE 1)

(* A ledger that a log can fold to: entries of the right shape whose       *)
(* targets are recorded, and the three rules above.                        *)
LedgerWellFormed(l) ==
    /\ DOMAIN l = {"proposals", "dissents", "decisions", "questions", "runs"}
    /\ \A p \in DOMAIN l.proposals :
          /\ DOMAIN l.proposals[p] = {"base", "state", "acceptedBy", "supersededBy"}
          /\ l.proposals[p].base \in Nat
          /\ IF l.proposals[p].state = "proposed" THEN Deciders(l, p) = {}
             ELSE \E d \in DOMAIN l.decisions : Deciders(l, p) = {d}
    /\ \A d \in DOMAIN l.decisions :
          /\ l.decisions[d].kind = "proposal" => l.decisions[d].target \in DOMAIN l.proposals
          /\ l.decisions[d].kind = "question" => l.decisions[d].target \in DOMAIN l.questions
          /\ l.decisions[d].over \subseteq DOMAIN l.dissents
    /\ \A q \in DOMAIN l.questions : l.questions[q] \in {"open", "answered"}
    /\ LineageSound(l) /\ OverridesAgree(l) /\ QuestionsAnswered(l)
=============================================================================
