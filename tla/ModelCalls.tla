----------------------------- MODULE ModelCalls -----------------------------
(***************************************************************************)
(* Paid and local model calls over the event log: the budget fold and its  *)
(* control (budget/control.py), the ai.call fold and its control           *)
(* (providers/control.py), and the HTTP generate path that reserves money, *)
(* records the start, sends the request, and settles (providers/compat.py).*)
(* Every append validates a draft against the fold of a frozen head        *)
(* (Freeze) and then appends it under that head (Commit); a head that      *)
(* moved in between is a conflict the code never retries.                  *)
(***************************************************************************)
EXTENDS EventLog, FiniteSets, FiniteSetsExt, Functions

CONSTANT Limits       \* caps a researcher may record

VARIABLES budget,     \* fold of the budget facts: open, closed, consumed, cap
          calls,      \* the ai.call facts: open, closed, and which of those failed
          sent,       \* [call -> how often its request left the process]
          peak,       \* the highest cap a researcher has recorded so far
          writes,     \* facts appended by the rest of the system
          limits      \* limit facts recorded

callVars == <<budget, calls, sent, peak, writes, limits>>

NoCap == -1

EmptyBudget == [open |-> {}, closed |-> {}, consumed |-> 0, cap |-> NoCap]
EmptyCalls == [open |-> {}, closed |-> {}, failed |-> {}]

(* A generate request.  Loopback endpoints are free and their cost known;  *)
(* remote ones reserve a positive amount and their cost stays unknown; the *)
(* mock provider touches neither network nor budget.                       *)
Request(call, budgetId, kind, amount, cap, consume) ==
    [call |-> call, budget |-> budgetId, kind |-> kind, amount |-> amount, cap |-> cap,
     consume |-> consume]

RequestOK(r) ==
    /\ r.kind = "local" => r.cap = 0 /\ r.amount = 0 /\ r.consume = 0
    /\ r.kind = "remote" => r.cap > 0 /\ r.amount > 0
    /\ r.amount <= r.cap
    /\ r.consume <= r.amount

-----------------------------------------------------------------------------
(* The budget fold *)
Reservation(r) == [budget |-> r.budget, call |-> r.call, amount |-> r.amount, cap |-> r.cap]

Outstanding(b) == MapThenSumSet(LAMBDA o : o.amount, b.open)

KnownIds(b) == {o.budget : o \in b.open} \cup b.closed

WithinApprovedLimit(b, amount, cap) ==
    \/ cap = 0 /\ amount = 0
    \/ b.cap # NoCap /\ cap = b.cap

(* Mutant: open reservations of other callers are not counted. *)
WouldExceedConsumedOnly(b, amount, cap) == b.consumed + amount > cap

WouldExceed(b, amount, cap) == b.consumed + Outstanding(b) + amount > cap

CanReserve(b, r) ==
    /\ r.budget \notin KnownIds(b)
    /\ WithinApprovedLimit(b, r.amount, r.cap)
    /\ ~WouldExceed(b, r.amount, r.cap)

CanExceed(b, r) == r.budget \notin KnownIds(b) /\ WithinApprovedLimit(b, r.amount, r.cap)

(* A consume or release names an open reservation and repeats its call and *)
(* cap; it consumes at most, and releases exactly, what was reserved.      *)
CanClose(b, r, amount, consumes) ==
    \E o \in b.open : /\ o.budget = r.budget /\ o.call = r.call /\ o.cap = r.cap
                      /\ IF consumes THEN amount <= o.amount ELSE amount = o.amount

Reserved(b, r) == [b EXCEPT !.open = @ \cup {Reservation(r)}]
Closed(b, r, spent) ==
    [b EXCEPT !.open = {o \in @ : o.budget # r.budget}, !.closed = @ \cup {r.budget},
              !.consumed = @ + spent]
Exceeded(b, r) == [b EXCEPT !.closed = @ \cup {r.budget}]
Limited(b, cap) == [b EXCEPT !.cap = cap]

(* The ai.call fold *)
CanStart(c, r) == r.call \notin c.open \cup c.closed
CanEnd(c, r) == r.call \in c.open
Started(c, r) == [c EXCEPT !.open = @ \cup {r.call}]
Ended(c, r) == [c EXCEPT !.open = @ \ {r.call}, !.closed = @ \cup {r.call}]
Failed(c, r) == [Ended(c, r) EXCEPT !.failed = @ \cup {r.call}]

-----------------------------------------------------------------------------
(* A caller's appends, by the program point they are made at.              *)
AppendPoints ==
    {"reserve", "exceed", "start", "undo", "release", "fail", "consume", "complete", "mock"}

(* An append that is refused or conflicts: a refused start releases the    *)
(* reservation first, every other error leaves the handler.                *)
OnError(x) == Go(x, IF job[x].pc = "start" THEN "undo" ELSE "raised")

(* Whether the draft of x's program point applies to the current folds.    *)
DraftOK(x) ==
    LET r == job[x].req IN
    CASE job[x].pc = "reserve" -> CanReserve(budget, r)
      [] job[x].pc = "exceed" -> CanExceed(budget, r)
      [] job[x].pc \in {"start", "mock"} -> CanStart(calls, r)
      [] job[x].pc \in {"undo", "release"} -> CanClose(budget, r, r.amount, FALSE)
      [] job[x].pc = "consume" -> CanClose(budget, r, r.consume, TRUE)
      [] job[x].pc \in {"fail", "complete"} -> CanEnd(calls, r)

(* The first fact of a call is preconditioned on the caller's own head. *)
FirstHeadExpected(x) == job[x].pc \in {"reserve", "mock"} => HeadExpected(x)

(* Rebuild the folds at the current head and validate the draft there.  A  *)
(* reservation over the cap is turned into a budget.exceeded fact at the   *)
(* same head.                                                              *)
Freeze(x) ==
    LET r == job[x].req
        over == /\ job[x].pc = "reserve" /\ CanExceed(budget, r)
                /\ WouldExceed(budget, r.amount, r.cap) IN
    /\ job[x].pc \in AppendPoints /\ ~Frozen(x)
    /\ \/ /\ FirstHeadExpected(x) /\ (DraftOK(x) \/ over)
          /\ job' = [job EXCEPT ![x].frozen = head, ![x].pc = IF over THEN "exceed" ELSE @]
       \/ /\ ~(FirstHeadExpected(x) /\ (DraftOK(x) \/ over))
          /\ OnError(x)
    /\ UNCHANGED <<head, callVars>>

NextBudget(x) ==
    LET r == job[x].req IN
    CASE job[x].pc = "reserve" -> Reserved(budget, r)
      [] job[x].pc = "exceed" -> Exceeded(budget, r)
      [] job[x].pc \in {"undo", "release"} -> Closed(budget, r, 0)
      [] job[x].pc = "consume" -> Closed(budget, r, r.consume)
      [] OTHER -> budget

NextCalls(x) ==
    CASE job[x].pc \in {"start", "mock"} -> Started(calls, job[x].req)
      [] job[x].pc = "complete" -> Ended(calls, job[x].req)
      [] job[x].pc = "fail" -> Failed(calls, job[x].req)
      [] OTHER -> calls

(* Where the handler goes after a committed append. *)
After(x) ==
    CASE job[x].pc = "reserve" -> "start"
      [] job[x].pc = "start" -> "http"
      [] job[x].pc = "release" -> "fail"
      [] job[x].pc \in {"consume", "mock"} -> "complete"
      [] job[x].pc = "complete" -> "returned"
      [] OTHER -> "raised"

Commit(x) ==
    /\ job[x].pc \in AppendPoints
    /\ AppendHead(x)
    /\ head' = head + 1
    /\ budget' = NextBudget(x)
    /\ calls' = NextCalls(x)
    /\ Go(x, After(x))
    /\ UNCHANGED <<sent, peak, writes, limits>>

Conflict(x) ==
    /\ job[x].pc \in AppendPoints
    /\ Frozen(x) /\ ~AppendHead(x)
    /\ OnError(x)
    /\ UNCHANGED <<head, callVars>>

Sends(x) == sent' = [sent EXCEPT ![job[x].req.call] = @ + 1]

(* The request is answered and its output stored. *)
HttpAnswered(x) ==
    /\ job[x].pc = "http"
    /\ Sends(x)
    /\ Go(x, IF job[x].req.kind = "local" THEN "consume" ELSE "complete")
    /\ UNCHANGED <<head, budget, calls, peak, writes, limits>>

(* It provably never left the process: the endpoint was refused or unresolved. *)
HttpUnsent(x) ==
    /\ job[x].pc = "http"
    /\ Go(x, "release")
    /\ UNCHANGED <<head, callVars>>

(* Mutant: a timeout is taken for a request that never left. *)
HttpUncertainReleased(x) ==
    /\ job[x].pc = "http"
    /\ Sends(x)
    /\ Go(x, "release")
    /\ UNCHANGED <<head, budget, calls, peak, writes, limits>>

(* It may have left: timeout, oversized or malformed answer. *)
HttpUncertain(x) ==
    /\ job[x].pc = "http"
    /\ Sends(x)
    /\ Go(x, "fail")
    /\ UNCHANGED <<head, budget, calls, peak, writes, limits>>

(* It was answered, but its digests do not match or storing it failed. *)
HttpUnusable(x) ==
    /\ job[x].pc = "http"
    /\ Sends(x)
    /\ Go(x, "raised")
    /\ UNCHANGED <<head, budget, calls, peak, writes, limits>>

(* Start recording a generate request: HTTP reserves first, the mock       *)
(* computes its output before it records anything.                         *)
FirstPoint(r) == IF r.kind = "mock" THEN "mock" ELSE "reserve"

Generate(x) ==
    \/ Freeze(x) \/ Commit(x) \/ Conflict(x)
    \/ HttpAnswered(x) \/ HttpUnsent(x) \/ HttpUncertain(x) \/ HttpUnusable(x)

(* A researcher records the project's cap; it may be lower than before. *)
RecordLimit(cap) ==
    /\ limits' = limits + 1
    /\ head' = head + 1
    /\ budget' = Limited(budget, cap)
    /\ peak' = IF cap > peak THEN cap ELSE peak
    /\ UNCHANGED <<calls, sent, writes, job>>

-----------------------------------------------------------------------------
(* What was spent and what may still be spent never exceeds the highest    *)
(* cap a researcher recorded, whatever callers and limit changes race.     *)
SpendWithinApproval == budget.consumed + Outstanding(budget) <= peak

(* Money of a request that may have reached a remote provider stays        *)
(* reserved: no failure path, conflict or crash releases it.               *)
SentStaysReserved(paid) ==
    \A c \in paid : sent[c] > 0 => \E o \in budget.open : o.call = c
=============================================================================
