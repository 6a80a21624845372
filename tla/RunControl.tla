----------------------------- MODULE RunControl -----------------------------
(***************************************************************************)
(* RunControl (runs/control.py) over the EventStore (storage/store.py).    *)
(* Several processes hold a RunControl for the same Run on one SQLite      *)
(* file.  rebuild freezes a verified high-water mark, drops an implausible *)
(* cache row, folds the frozen prefix and writes the row back; append does *)
(* the same, preflights its draft and appends it with the head as a        *)
(* compare-and-swap token.  Each SQL statement or transaction is one step, *)
(* so the steps of several processes, of other writers of the log and of   *)
(* crashes interleave.                                                     *)
(*                                                                         *)
(* The log is append-only, so a fingerprint (high water, digest of the     *)
(* last event) is modelled by the high water alone.  views[n + 1] is the   *)
(* fold of the first n events: what replay_events and the reducer compute  *)
(* from log, kept as a variable so that the fold needs no recursion.       *)
(***************************************************************************)
EXTENDS RunReducer

CONSTANTS
    Controls,       \* processes that call RunControl
    CommandTypes    \* lifecycle types the callers submit

ASSUME ControlAssumption ==
    /\ CommandTypes \subseteq LifecycleTypes
    /\ None \notin Drafts
    /\ None \notin Nat

VARIABLES
    log,         \* the events; None is an event of another aggregate
    views,       \* views[n + 1]: fold of the first n events
    checkpoint,  \* integrity_checkpoint.high_water, None when missing
    cache,       \* the run_projections row [last, snap], None when absent
    pc,          \* per process: the statement it runs next
    call         \* per process: arguments and locals of the running call

vars == <<log, views, checkpoint, cache, pc, call>>

LogHead == Len(log)

Row == [last : Nat, snap : Snapshot \union {None}]

Call ==
    [began : Nat,                      \* the head when the call started
     high : Nat,                       \* live head, then frozen head, then commit
     snap : Snapshot \union {None}]    \* the folded snapshot

NoCall == [began |-> 0, high |-> 0, snap |-> None]

Steps == {"idle", "live", "checkpoint", "verify", "remember", "discard", "drop",
          "fold", "persist", "commit", "publish"}

\* What a replay knows after one more event; a fold that raised stays raised.
View(v, event, q) ==
    IF event = None \/ v = Rejected THEN v ELSE Apply(v, event, q)

-----------------------------------------------------------------------------
Init ==
    /\ log = << >> /\ views = <<None>>
    /\ checkpoint = None /\ cache = None
    /\ pc = [c \in Controls |-> "idle"]
    /\ call = [c \in Controls |-> NoCall]

\* Mutant: the store ignores the expected head.
CanInsertAnywhere(fresh, expected) == fresh /\ LogHead < SequenceMax

\* The body of EventStore.append: one BEGIN IMMEDIATE transaction that refuses a
\* known id, a moved head and an exhausted sequence, then inserts the event and
\* moves the checkpoint with it.  Of an event id the store only asks whether the
\* log holds it already (a command that is sent again): fresh is the answer.
CanInsert(fresh, expected) ==
    fresh /\ expected \in {None, LogHead} /\ LogHead < SequenceMax

Insert(event) ==
    /\ log' = Append(log, event)
    /\ views' = Append(views, View(views[LogHead + 1], event, LogHead + 1))
    /\ checkpoint' = LogHead + 1

Goto(c, step) == pc' = [pc EXCEPT ![c] = step]

\* The call ends, with its result or with an exception; its locals are gone.
Return(c) == Goto(c, "idle") /\ call' = [call EXCEPT ![c] = NoCall]

\* RunControl.append or RunControl.rebuild is called.  The call's arguments are
\* first looked at in Commit and are chosen there.
Begin(c) ==
    /\ pc[c] = "idle"
    /\ call' = [call EXCEPT ![c].began = LogHead]
    /\ Goto(c, "live")
    /\ UNCHANGED <<log, views, checkpoint, cache>>

\* freeze_high_water: read MAX(sequence) and its digest, ...
ReadLive(c) ==
    /\ pc[c] = "live"
    /\ call' = [call EXCEPT ![c].high = LogHead]
    /\ Goto(c, "checkpoint")
    /\ UNCHANGED <<log, views, checkpoint, cache>>

\* ... then the remembered checkpoint, trusted only if it equals the live one.
CheckpointTrusted(c) == checkpoint # None /\ checkpoint = call[c].high

\* Mutant: a remembered checkpoint is taken for the head without a look at the log.
ReadCheckpointBlindly(c) ==
    /\ pc[c] = "checkpoint"
    /\ IF checkpoint # None
       THEN Goto(c, "discard") /\ call' = [call EXCEPT ![c].high = checkpoint]
       ELSE Goto(c, "verify") /\ UNCHANGED call
    /\ UNCHANGED <<log, views, checkpoint, cache>>

ReadCheckpoint(c) ==
    /\ pc[c] = "checkpoint"
    /\ Goto(c, IF CheckpointTrusted(c) THEN "discard" ELSE "verify")
    /\ UNCHANGED <<log, views, checkpoint, cache, call>>

\* verify_integrity: one SELECT scans every event ...
Verify(c) ==
    /\ pc[c] = "verify"
    /\ call' = [call EXCEPT ![c].high = LogHead]
    /\ Goto(c, "remember")
    /\ UNCHANGED <<log, views, checkpoint, cache>>

\* ... and a later statement, outside any transaction, records what it counted.
Remember(c) ==
    /\ pc[c] = "remember"
    /\ checkpoint' = call[c].high
    /\ Goto(c, "discard")
    /\ UNCHANGED <<log, views, cache, call>>

\* _discard_untrusted_cache reads the row, ...
Plausible(row, high) ==
    /\ row.last \in 1 .. high
    /\ row.snap # None => row.snap.lastSequence <= row.last

ReadCache(c) ==
    /\ pc[c] = "discard"
    /\ Goto(c, IF cache = None \/ Plausible(cache, call[c].high) THEN "fold" ELSE "drop")
    /\ UNCHANGED <<log, views, checkpoint, cache, call>>

\* ... and deletes it in another statement.
DropCache(c) ==
    /\ pc[c] = "drop"
    /\ cache' = None
    /\ Goto(c, "fold")
    /\ UNCHANGED <<log, views, checkpoint, call>>

\* replay_events up to the frozen mark; a fold that raises ends the call.
FoldPrefix(c) ==
    /\ pc[c] = "fold"
    /\ LET v == views[call[c].high + 1]
       IN  IF v = Rejected
           THEN Return(c)
           ELSE call' = [call EXCEPT ![c].snap = v] /\ Goto(c, "persist")
    /\ UNCHANGED <<log, views, checkpoint, cache>>

\* Mutant: the row is labelled with the head at the time of the write.
PersistedRowAtHead(c) ==
    IF LogHead = 0 THEN None ELSE [last |-> LogHead, snap |-> call[c].snap]

\* _persist_projection writes the row, or drops it when the store fails.  (That
\* the deletion fails as well is the case of a crash before this statement.)
PersistedRow(c) ==
    IF call[c].high = 0 THEN None ELSE [last |-> call[c].high, snap |-> call[c].snap]

Persist(c) ==
    /\ pc[c] = "persist"
    /\ cache' \in {PersistedRow(c), None}
    /\ \/ Goto(c, "commit") /\ UNCHANGED call   \* append goes on
       \/ Return(c)                             \* rebuild is done
    /\ UNCHANGED <<log, views, checkpoint>>

\* An empty log knows no id.
IdIsFresh == IF log = << >> THEN {TRUE} ELSE BOOLEAN

Commands == {e \in Drafts : e.type \in CommandTypes}

\* A caller passes no token, or the head it saw before the call.
Tokens(c) == {None, call[c].began}

\* The compare-and-swap token of an append.
CasHead(c, token) == IF token = None THEN call[c].high ELSE token

\* Mutant: the draft is not folded before it is appended.
PreflightTokenOnly(c, draft, token) ==
    token \in {None, call[c].high} /\ CasHead(c, token) < SequenceMax

PreflightOK(c, draft, token) ==
    /\ token \in {None, call[c].high}
    /\ CasHead(c, token) < SequenceMax
    /\ Apply(call[c].snap, draft, CasHead(c, token) + 1) \in Snapshot

AppendOK(c, draft, fresh, token) ==
    PreflightOK(c, draft, token) /\ CanInsert(fresh, CasHead(c, token))

\* Preflight (local to the process) and EventStore.append.
Commit(c) ==
    /\ pc[c] = "commit"
    /\ \E draft \in Commands, fresh \in IdIsFresh, token \in Tokens(c) :
           /\ AppendOK(c, draft, fresh, token)
           /\ Insert(draft)
           /\ call' = [call EXCEPT ![c].high = LogHead + 1,
                                   ![c].snap = Apply(@, draft, LogHead + 1)]
    /\ Goto(c, "publish")
    /\ UNCHANGED cache

\* A refused draft, a stale token, a moved head or a known id ends the call.
Refuse(c) ==
    /\ pc[c] = "commit"
    /\ \E draft \in Commands, fresh \in IdIsFresh, token \in Tokens(c) :
           ~AppendOK(c, draft, fresh, token)
    /\ Return(c)
    /\ UNCHANGED <<log, views, checkpoint, cache>>

\* The committed snapshot is cached and returned.
Publish(c) ==
    /\ pc[c] = "publish"
    /\ cache' \in {PersistedRow(c), None}
    /\ Return(c)
    /\ UNCHANGED <<log, views, checkpoint>>

\* The process dies between two statements and is restarted.
Crash(c) ==
    /\ pc[c] # "idle"
    /\ Return(c)
    /\ UNCHANGED <<log, views, checkpoint, cache>>

\* Another component appends to the same store without a token: an event of
\* another aggregate, or a fact of this run outside the lifecycle catalog.  The
\* protocol obliges it to keep the run's experimentRevision; the store does not
\* look, and a fact that drifted would be refused by every later fold.
WriterEvents ==
    {e \in Drafts : /\ e.type = "other"
                    /\ e.attemptId = None
                    /\ LET v == views[LogHead + 1]
                       IN  v \in Snapshot => e.revision = v.revision}

OtherWriter ==
    \E event \in WriterEvents \union {None} :
        /\ CanInsert(TRUE, None)
        /\ Insert(event)
        /\ UNCHANGED <<cache, pc, call>>

\* The checkpoint row is lost or malformed; _read_checkpoint returns None.
ForgetCheckpoint ==
    /\ checkpoint' = None
    /\ UNCHANGED <<log, views, cache, pc, call>>

ControlStep(c) ==
    \/ Begin(c) \/ ReadLive(c) \/ ReadCheckpoint(c) \/ Verify(c) \/ Remember(c)
    \/ ReadCache(c) \/ DropCache(c) \/ FoldPrefix(c) \/ Persist(c)
    \/ Commit(c) \/ Refuse(c) \/ Publish(c) \/ Crash(c)

Next == (\E c \in Controls : ControlStep(c)) \/ OtherWriter \/ ForgetCheckpoint

Spec == Init /\ [][Next]_vars

-----------------------------------------------------------------------------
(* Properties.                                                             *)

TypeOK ==
    /\ log \in Seq(Drafts \union {None})
    /\ views \in Seq(Snapshot \union {None, Rejected})
    /\ Len(views) = Len(log) + 1
    /\ checkpoint \in Nat \union {None}
    /\ cache \in Row \union {None}
    /\ pc \in [Controls -> Steps]
    /\ call \in [Controls -> Call]

\* Every prefix of the log replays: no interleaving of controls, writers and
\* crashes commits an event that the reducer would refuse on the next rebuild.
\* (rebuild folds from sequence 0 each time, so one refused event is for ever.)
LogReplays == \A n \in 1 .. LogHead + 1 : views[n] # Rejected

\* A remembered checkpoint may fall behind the log (verify_integrity writes it
\* after its scan, outside a transaction) yet a frozen head is never older than
\* the head at the time the call began, nor ahead of the log.
Frozen == {"remember", "discard", "drop", "fold", "persist", "commit"}

FrozenHeadFresh ==
    \A c \in Controls :
        pc[c] \in Frozen => call[c].began <= call[c].high /\ call[c].high <= LogHead

\* The cached row is at all times the fold of the prefix it names, although rows
\* are written blindly and by processes that froze different heads.
CacheRowHonest ==
    cache # None =>
        cache.last \in 1 .. LogHead /\ cache.snap = views[cache.last + 1]

\* The snapshot append returns is the fold of the log up to the committed event:
\* nothing slipped in between the preflight and the insert.
AppendResultHonest ==
    \A c \in Controls :
        pc[c] = "publish" =>
            /\ call[c].high \in 1 .. LogHead
            /\ call[c].snap = views[call[c].high + 1]

-----------------------------------------------------------------------------
\* The log, folded, behaves as the aggregate of RunState.
Aggregate == INSTANCE RunState WITH snapshot <- views[LogHead + 1], head <- LogHead

\* Concurrent controls over one store implement the sequential aggregate.
ImplementsAggregate == Aggregate!RunSpec

=============================================================================
