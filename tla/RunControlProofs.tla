-------------------------- MODULE RunControlProofs --------------------------
(***************************************************************************)
(* Proofs about RunControl for any set of processes, any command types and *)
(* any limits.                                                             *)
(***************************************************************************)
EXTENDS RunControl, RunReducerProofs

-----------------------------------------------------------------------------
(* Types.                                                                  *)

\* A view after one more event is a view.
LEMMA ViewType ==
    ASSUME NEW v \in Snapshot \union {None, Rejected}, NEW event \in Drafts \union {None},
           NEW q \in Nat
    PROVE  View(v, event, q) \in Snapshot \union {None, Rejected}
  <1>1. CASE event = None \/ v = Rejected
    BY <1>1 DEF View
  <1>2. CASE event # None /\ v # Rejected
    <2>1. event \in Event
      BY <1>2 DEF Drafts
    <2>2. Apply(v, event, q) \in Snapshot \union {None, Rejected}
      BY <1>2, <2>1, ApplyType
    <2> QED BY <1>2, <2>2 DEF View
  <1> QED BY <1>1, <1>2

\* The body of EventStore.append extends the log by one event and keeps the folds
\* of the earlier prefixes.
LEMMA InsertFacts ==
    ASSUME TypeOK, NEW event \in Drafts \union {None}, Insert(event)
    PROVE  /\ LogHead \in Nat /\ LogHead' = LogHead + 1 /\ LogHead' \in Nat
           /\ log' \in Seq(Drafts \union {None})
           /\ views' \in Seq(Snapshot \union {None, Rejected})
           /\ Len(views') = Len(log') + 1
           /\ \A k \in 1 .. LogHead + 1 : views'[k] = views[k]
           /\ views'[LogHead' + 1] = View(views[LogHead + 1], event, LogHead + 1)
           /\ checkpoint' \in Nat
  <1>1. /\ log \in Seq(Drafts \union {None}) /\ views \in Seq(Snapshot \union {None, Rejected})
        /\ Len(views) = Len(log) + 1 /\ Len(log) \in Nat
    BY DEF TypeOK
  <1>2. views[Len(log) + 1] \in Snapshot \union {None, Rejected}
    BY <1>1
  <1> DEFINE v == View(views[Len(log) + 1], event, Len(log) + 1)
  <1>3. v \in Snapshot \union {None, Rejected}
    <2>1. Len(log) + 1 \in Nat
      BY <1>1
    <2> QED BY <1>2, <2>1, ViewType
  <1>4. log' = Append(log, event) /\ views' = Append(views, v) /\ checkpoint' = Len(log) + 1
    BY DEF Insert, LogHead
  <1> HIDE DEF v
  <1>5. /\ log' \in Seq(Drafts \union {None}) /\ Len(log') = Len(log) + 1
        /\ views' \in Seq(Snapshot \union {None, Rejected}) /\ Len(views') = Len(views) + 1
        /\ \A k \in 1 .. Len(views) : views'[k] = views[k]
        /\ views'[Len(views) + 1] = v
    BY <1>1, <1>3, <1>4
  <1> QED BY <1>1, <1>4, <1>5 DEF LogHead, v

\* What a committed append has shown of its draft: the process had folded the
\* whole log, and its preflight accepted the draft.
LEMMA CommitFacts ==
    ASSUME TypeOK, NEW c \in Controls, NEW draft \in Commands, NEW fresh,
           NEW token \in Tokens(c), AppendOK(c, draft, fresh, token)
    PROVE  /\ call[c].high = LogHead /\ LogHead < SequenceMax
           /\ draft \in Drafts /\ draft # None /\ draft.type \in LifecycleTypes
           /\ Apply(call[c].snap, draft, LogHead + 1) \in Snapshot
  <1>1. call[c] \in Call /\ LogHead \in Nat
    BY DEF TypeOK, LogHead
  <1>2. token \in Nat \union {None} /\ call[c].high \in Nat
    BY <1>1 DEF Tokens, Call
  <1>3. token \in {None, call[c].high} /\ CasHead(c, token) \in {None, LogHead}
        /\ LogHead < SequenceMax
    BY DEF AppendOK, PreflightOK, CanInsert
  <1>4. CasHead(c, token) = call[c].high
    BY <1>3 DEF CasHead
  <1>5. call[c].high = LogHead
    BY <1>2, <1>3, <1>4, ControlAssumption
  <1>6. Apply(call[c].snap, draft, LogHead + 1) \in Snapshot
    BY <1>4, <1>5 DEF AppendOK, PreflightOK
  <1>7. draft \in Drafts /\ draft # None /\ draft.type \in LifecycleTypes
    BY ControlAssumption DEF Commands
  <1> QED BY <1>3, <1>5, <1>6, <1>7

\* The row _persist_projection writes is a row.
LEMMA PersistedRowType ==
    ASSUME TypeOK, NEW c \in Controls
    PROVE  PersistedRow(c) \in Row \union {None}
  <1>1. call[c] \in Call
    BY DEF TypeOK
  <1> QED BY <1>1 DEF PersistedRow, Call, Row

\* Ending a call and moving to another statement keep the types.
LEMMA ReturnType ==
    ASSUME TypeOK, NEW c \in Controls, Return(c)
    PROVE  pc' \in [Controls -> Steps] /\ call' \in [Controls -> Call]
  <1>1. NoCall \in Call /\ "idle" \in Steps
    BY DEF NoCall, Call, Steps
  <1> QED BY <1>1 DEF TypeOK, Return, Goto

\* Moving a process to another statement keeps pc typed.
LEMMA GotoType ==
    ASSUME TypeOK, NEW c \in Controls, NEW step \in Steps, Goto(c, step)
    PROVE  pc' \in [Controls -> Steps]
  BY DEF TypeOK, Goto

\* So does changing its locals keep call typed.
LEMMA CallType ==
    ASSUME TypeOK, NEW c \in Controls, NEW n \in Nat, NEW v \in Snapshot \union {None}
    PROVE  /\ [call EXCEPT ![c].began = n] \in [Controls -> Call]
           /\ [call EXCEPT ![c].high = n] \in [Controls -> Call]
           /\ [call EXCEPT ![c].snap = v] \in [Controls -> Call]
           /\ [call EXCEPT ![c].high = n, ![c].snap = v] \in [Controls -> Call]
  BY DEF TypeOK, Call

\* What a running call has seen of the log is a prefix of it, no shorter than the
\* log was when the call began.
Heads ==
    \A c \in Controls :
        /\ pc[c] # "idle" => call[c].began <= LogHead
        /\ pc[c] \in Frozen \union {"checkpoint"} =>
               call[c].began <= call[c].high /\ call[c].high <= LogHead

\* Every action keeps the type invariant.
LEMMA TypeStep == TypeOK /\ Heads /\ [Next]_vars => TypeOK'
  <1> SUFFICES ASSUME TypeOK, Heads, [Next]_vars PROVE TypeOK'
    OBVIOUS
  <1>1. LogHead \in Nat /\ None \in Snapshot \union {None}
    BY DEF TypeOK, LogHead
  <1>2. ASSUME NEW c \in Controls, ControlStep(c) PROVE TypeOK'
    <2>1. CASE Begin(c)
      BY <1>1, <2>1, GotoType, CallType DEF Begin, TypeOK, Steps
    <2>2. CASE ReadLive(c)
      BY <1>1, <2>2, GotoType, CallType DEF ReadLive, TypeOK, Steps
    <2>3. CASE ReadCheckpoint(c)
      BY <2>3, GotoType DEF ReadCheckpoint, TypeOK, Steps
    <2>4. CASE Verify(c)
      BY <1>1, <2>4, GotoType, CallType DEF Verify, TypeOK, Steps
    <2>5. CASE Remember(c)
      <3>1. call[c].high \in Nat
        BY DEF TypeOK, Call
      <3> QED BY <2>5, <3>1, GotoType DEF Remember, TypeOK, Steps
    <2>6. CASE ReadCache(c)
      BY <2>6, GotoType DEF ReadCache, TypeOK, Steps
    <2>7. CASE DropCache(c)
      BY <2>7, GotoType DEF DropCache, TypeOK, Steps
    <2>8. CASE FoldPrefix(c)
      <3> DEFINE v == views[call[c].high + 1]
      <3>1. v \in Snapshot \union {None, Rejected}
        <4>1. call[c].high \in Nat /\ call[c].high <= LogHead
          BY <2>8 DEF TypeOK, Call, Heads, Frozen, FoldPrefix
        <4>2. call[c].high + 1 \in 1 .. Len(views)
          BY <1>1, <4>1 DEF TypeOK, LogHead
        <4> QED BY <4>2 DEF TypeOK
      <3> HIDE DEF v
      <3>2. \/ Return(c)
            \/ v # Rejected /\ call' = [call EXCEPT ![c].snap = v] /\ Goto(c, "persist")
        BY <2>8 DEF FoldPrefix, v
      <3>3. pc' \in [Controls -> Steps] /\ call' \in [Controls -> Call]
        <4>1. CASE Return(c)
          BY <4>1, ReturnType
        <4>2. CASE v # Rejected /\ call' = [call EXCEPT ![c].snap = v] /\ Goto(c, "persist")
          <5>1. v \in Snapshot \union {None}
            BY <3>1, <4>2
          <5>2. call' \in [Controls -> Call]
            BY <1>1, <4>2, <5>1, CallType
          <5> QED BY <4>2, <5>2, GotoType DEF Steps
        <4> QED BY <3>2, <4>1, <4>2
      <3> QED BY <2>8, <3>3 DEF FoldPrefix, TypeOK
    <2>9. CASE Persist(c)
      BY <2>9, GotoType, ReturnType, PersistedRowType DEF Persist, TypeOK, Steps
    <2>10. CASE Commit(c)
      <3>1. PICK draft \in Commands, fresh \in IdIsFresh, token \in Tokens(c) :
                /\ AppendOK(c, draft, fresh, token)
                /\ Insert(draft)
                /\ call' = [call EXCEPT ![c].high = LogHead + 1,
                                        ![c].snap = Apply(@, draft, LogHead + 1)]
        BY <2>10 DEF Commit
      <3>2. /\ draft \in Drafts \union {None}
            /\ Apply(call[c].snap, draft, LogHead + 1) \in Snapshot \union {None}
        BY <3>1, CommitFacts
      <3> DEFINE v == Apply(call[c].snap, draft, LogHead + 1)
      <3>3. pc' \in [Controls -> Steps] /\ call' \in [Controls -> Call]
        <4>1. call' = [call EXCEPT ![c].high = LogHead + 1, ![c].snap = v]
          BY <3>1 DEF TypeOK, Call
        <4>2. LogHead + 1 \in Nat /\ v \in Snapshot \union {None}
          BY <1>1, <3>2
        <4> HIDE DEF v
        <4>3. call' \in [Controls -> Call]
          BY <4>1, <4>2, CallType
        <4> QED BY <2>10, <4>3, GotoType DEF Commit, Steps
      <3>4. cache' = cache
        BY <2>10 DEF Commit
      <3> QED BY <3>1, <3>2, <3>3, <3>4, InsertFacts DEF TypeOK
    <2>11. CASE Refuse(c)
      BY <2>11, ReturnType DEF Refuse, TypeOK
    <2>12. CASE Publish(c)
      BY <2>12, ReturnType, PersistedRowType DEF Publish, TypeOK
    <2>13. CASE Crash(c)
      BY <2>13, ReturnType DEF Crash, TypeOK
    <2> QED BY <1>2, <2>1, <2>2, <2>3, <2>4, <2>5, <2>6, <2>7, <2>8, <2>9, <2>10, <2>11,
               <2>12, <2>13 DEF ControlStep
  <1>3. CASE OtherWriter
    <2>1. PICK event \in Drafts \union {None} : Insert(event) /\ UNCHANGED <<cache, pc, call>>
      BY <1>3 DEF OtherWriter, WriterEvents
    <2> QED BY <2>1, InsertFacts DEF TypeOK
  <1>4. CASE ForgetCheckpoint
    BY <1>4 DEF ForgetCheckpoint, TypeOK
  <1>5. CASE UNCHANGED vars
    BY <1>5 DEF vars, TypeOK
  <1> QED BY <1>2, <1>3, <1>4, <1>5 DEF Next

-----------------------------------------------------------------------------
(* Frozen heads.                                                           *)

\* The step of one process does not touch the locals of another.
LEMMA OthersKeep ==
    ASSUME TypeOK, NEW c \in Controls, ControlStep(c), NEW d \in Controls, d # c
    PROVE  pc'[d] = pc[d] /\ call'[d] = call[d]
  BY DEF TypeOK, ControlStep, Begin, ReadLive, ReadCheckpoint, Verify, Remember, ReadCache,
         DropCache, FoldPrefix, Persist, Commit, Refuse, Publish, Crash, Goto, Return

\* The log only grows.
LEMMA LogGrows ==
    ASSUME TypeOK, [Next]_vars
    PROVE  /\ LogHead \in Nat /\ LogHead' \in Nat /\ LogHead <= LogHead'
           /\ \A k \in 1 .. LogHead + 1 : views'[k] = views[k]
  <1>1. LogHead \in Nat
    BY DEF TypeOK, LogHead
  <1>2. CASE UNCHANGED <<log, views>>
    BY <1>1, <1>2 DEF LogHead
  <1>3. CASE \E event \in Drafts \union {None} : Insert(event)
    <2>1. PICK event \in Drafts \union {None} : Insert(event)
      BY <1>3
    <2>2. LogHead' = LogHead + 1 /\ \A k \in 1 .. LogHead + 1 : views'[k] = views[k]
      BY <2>1, InsertFacts
    <2> QED BY <1>1, <2>2
  <1>4. UNCHANGED <<log, views>> \/ \E event \in Drafts \union {None} : Insert(event)
    <2>1. ASSUME NEW c \in Controls, ControlStep(c)
          PROVE  UNCHANGED <<log, views>> \/ \E event \in Drafts \union {None} : Insert(event)
      <3>1. CASE Commit(c)
        BY <3>1 DEF Commit, Commands
      <3>2. CASE ~Commit(c)
        BY <2>1, <3>2 DEF ControlStep, Begin, ReadLive, ReadCheckpoint, Verify, Remember,
           ReadCache, DropCache, FoldPrefix, Persist, Refuse, Publish, Crash
      <3> QED BY <3>1, <3>2
    <2>2. CASE OtherWriter
      BY <2>2 DEF OtherWriter, WriterEvents
    <2>3. CASE ForgetCheckpoint \/ UNCHANGED vars
      BY <2>3 DEF ForgetCheckpoint, vars
    <2> QED BY <2>1, <2>2, <2>3 DEF Next
  <1> QED BY <1>2, <1>3, <1>4

\* The process that moves keeps its own head between the log it began with and
\* the present log.
LEMMA HeadsStep == TypeOK /\ Heads /\ [Next]_vars => Heads'
  <1> SUFFICES ASSUME TypeOK, Heads, [Next]_vars, NEW d \in Controls
               PROVE  /\ pc'[d] # "idle" => call'[d].began <= LogHead'
                      /\ pc'[d] \in Frozen \union {"checkpoint"} =>
                             call'[d].began <= call'[d].high /\ call'[d].high <= LogHead'
    BY DEF Heads
  <1>1. LogHead \in Nat /\ LogHead' \in Nat /\ LogHead <= LogHead'
    BY LogGrows
  <1>2. call[d] \in Call /\ call[d].began \in Nat /\ call[d].high \in Nat
    BY DEF TypeOK, Call
  <1>3. /\ pc[d] # "idle" => call[d].began <= LogHead
        /\ pc[d] \in Frozen \union {"checkpoint"} =>
               call[d].began <= call[d].high /\ call[d].high <= LogHead
    BY DEF Heads
  <1>4. CASE pc'[d] = pc[d] /\ call'[d] = call[d]
    BY <1>1, <1>2, <1>3, <1>4
  <1>5. ASSUME ControlStep(d)
        PROVE  /\ pc'[d] # "idle" => call'[d].began <= LogHead'
               /\ pc'[d] \in Frozen \union {"checkpoint"} =>
                      call'[d].began <= call'[d].high /\ call'[d].high <= LogHead'
    <2> USE DEF Goto, Frozen
    <2>1. CASE Begin(d)
      <3>1. pc'[d] = "live" /\ call'[d].began = LogHead
        BY <1>2, <2>1 DEF Begin, TypeOK, Call
      <3> QED BY <1>1, <3>1
    <2>2. CASE ReadLive(d)
      <3>1. /\ pc[d] = "live" /\ pc'[d] = "checkpoint"
            /\ call'[d].began = call[d].began /\ call'[d].high = LogHead
        BY <1>2, <2>2 DEF ReadLive, TypeOK, Call
      <3> QED BY <1>1, <1>2, <1>3, <3>1
    <2>3. CASE ReadCheckpoint(d)
      <3>1. pc[d] = "checkpoint" /\ call'[d] = call[d]
        BY <2>3 DEF ReadCheckpoint
      <3> QED BY <1>1, <1>2, <1>3, <3>1
    <2>4. CASE Verify(d)
      <3>1. /\ pc[d] = "verify" /\ pc'[d] = "remember"
            /\ call'[d].began = call[d].began /\ call'[d].high = LogHead
        BY <1>2, <2>4 DEF Verify, TypeOK, Call
      <3> QED BY <1>1, <1>2, <1>3, <3>1
    <2>5. CASE Remember(d) \/ ReadCache(d) \/ DropCache(d)
      <3>1. pc[d] \in Frozen /\ call'[d] = call[d]
        BY <2>5 DEF Remember, ReadCache, DropCache
      <3> QED BY <1>1, <1>2, <1>3, <3>1
    <2>6. CASE pc'[d] = "idle"
      BY <2>6
    <2>7. CASE FoldPrefix(d) /\ pc'[d] # "idle"
      <3>1. /\ pc[d] = "fold"
            /\ call'[d].began = call[d].began /\ call'[d].high = call[d].high
        BY <1>2, <2>7 DEF FoldPrefix, Return, TypeOK, Call
      <3> QED BY <1>1, <1>2, <1>3, <3>1
    <2>8. CASE Persist(d) /\ pc'[d] # "idle"
      <3>1. pc[d] = "persist" /\ call'[d] = call[d]
        BY <2>8 DEF Persist, Return, TypeOK
      <3> QED BY <1>1, <1>2, <1>3, <3>1
    <2>9. CASE Commit(d)
      <3>1. /\ pc[d] = "commit" /\ pc'[d] = "publish" /\ call'[d].began = call[d].began
        BY <1>2, <2>9 DEF Commit, TypeOK, Call
      <3> QED BY <1>1, <1>2, <1>3, <3>1
    <2>10. CASE Refuse(d) \/ Publish(d) \/ Crash(d)
      <3>1. pc'[d] = "idle"
        BY <2>10 DEF Refuse, Publish, Crash, Return, TypeOK
      <3> QED BY <3>1
    <2> QED BY <1>5, <2>1, <2>2, <2>3, <2>4, <2>5, <2>6, <2>7, <2>8, <2>9, <2>10
            DEF ControlStep
  <1>6. (pc'[d] = pc[d] /\ call'[d] = call[d]) \/ ControlStep(d)
    BY OthersKeep DEF Next, OtherWriter, ForgetCheckpoint, vars
  <1> QED BY <1>4, <1>5, <1>6

\* Both hold in the initial state.
LEMMA InitTypes == Init => TypeOK /\ Heads
  <1> SUFFICES ASSUME Init PROVE TypeOK /\ Heads
    OBVIOUS
  <1>1. NoCall \in Call /\ "idle" \in Steps
    BY DEF NoCall, Call, Steps
  <1>2. << >> \in Seq(Drafts \union {None}) /\ Len(<< >>) = 0
    OBVIOUS
  <1>3. <<None>> \in Seq(Snapshot \union {None, Rejected}) /\ Len(<<None>>) = 1
    OBVIOUS
  <1>4. TypeOK
    BY <1>1, <1>2, <1>3 DEF Init, TypeOK
  <1>5. Heads
    BY DEF Init, Heads, Frozen
  <1> QED BY <1>4, <1>5

\* The types and the frozen heads, together, are invariant.
LEMMA HeadsInvariant == Spec => [](TypeOK /\ Heads)
  BY InitTypes, TypeStep, HeadsStep, PTL DEF Spec

\* The state of the store and of the running calls is well formed.
THEOREM TypeCorrect == Spec => []TypeOK
  BY HeadsInvariant, PTL

\* freeze_high_water never returns a stale head: see FrozenHeadFresh.
THEOREM FrozenHeadIsFresh == Spec => []FrozenHeadFresh
  <1>1. Heads => FrozenHeadFresh
    BY DEF Heads, FrozenHeadFresh
  <1> QED BY <1>1, HeadsInvariant, PTL

-----------------------------------------------------------------------------
(* The log replays, and what is folded, cached and returned is its fold.   *)

\* Every prefix of the log folds to a snapshot that obeys the rules and whose
\* cursor lies within the prefix.
SoundView(v, n) ==
    v # Rejected /\ (v # None => SnapshotOK(v) /\ v.lastSequence <= n)

ViewsSound == \A k \in 1 .. LogHead + 1 : SoundView(views[k], k - 1)

\* What a running call has folded is the fold of the prefix it names.
CallsHonest ==
    \A c \in Controls :
        pc[c] \in {"persist", "commit"} => call[c].snap = views[call[c].high + 1]

IInv == TypeOK /\ Heads /\ ViewsSound /\ CallsHonest /\ AppendResultHonest /\ CacheRowHonest

\* One more event keeps a view sound unless the fold refuses it.
LEMMA ViewStaysSound ==
    ASSUME NEW v \in Snapshot \union {None, Rejected}, NEW event \in Drafts \union {None},
           NEW n \in Nat, SoundView(v, n), View(v, event, n + 1) # Rejected
    PROVE  SoundView(View(v, event, n + 1), n + 1)
  <1>1. CASE event = None
    <2>1. v # None => v.lastSequence \in Nat
      BY DEF SoundView, Snapshot
    <2> QED BY <1>1, <2>1 DEF View, SoundView
  <1>2. CASE event # None
    <2>1. v # Rejected /\ v \in Snapshot \union {None} /\ event \in Event /\ n + 1 \in Nat
      BY <1>2 DEF SoundView, Drafts
    <2>2. View(v, event, n + 1) = Apply(v, event, n + 1)
      BY <1>2, <2>1 DEF View
    <2>3. CASE v = None /\ Apply(v, event, n + 1) = None
      BY <2>2, <2>3 DEF SoundView
    <2>4. CASE v = None /\ Apply(v, event, n + 1) = FirstSnapshot(event, n + 1)
      <3>1. SnapshotOK(FirstSnapshot(event, n + 1))
        BY <2>1, FirstSnapshotOK
      <3>2. FirstSnapshot(event, n + 1).lastSequence = n + 1
        BY DEF FirstSnapshot
      <3> QED BY <2>2, <2>4, <3>1, <3>2 DEF SoundView
    <2>5. CASE /\ v # None /\ v \in Snapshot
               /\ Apply(v, event, n + 1) = Result(v, event, n + 1)
               /\ Guard(v, event, n + 1) /\ SnapshotOK(Result(v, event, n + 1))
      <3>1. Result(v, event, n + 1).lastSequence = n + 1
        BY <2>1, <2>5, ResultType DEF Guard
      <3> QED BY <2>2, <2>5, <3>1 DEF SoundView
    <2> QED BY <2>1, <2>2, <2>3, <2>4, <2>5, ApplyCases
  <1> QED BY <1>1, <1>2

\* A writer that keeps the run's revision is never refused: the guards of an
\* unrelated fact hold, and the guards suffice.
LEMMA WriterAccepted ==
    ASSUME TypeOK, ViewsSound, NEW event \in WriterEvents \union {None}
    PROVE  View(views[LogHead + 1], event, LogHead + 1) # Rejected
  <1> DEFINE v == views[LogHead + 1]
  <1>1. LogHead \in Nat /\ LogHead + 1 \in 1 .. LogHead + 1 /\ LogHead + 1 \in Nat
    BY DEF TypeOK, LogHead
  <1>2. v \in Snapshot \union {None, Rejected} /\ SoundView(v, LogHead)
    BY <1>1 DEF TypeOK, ViewsSound, LogHead
  <1>3. CASE event = None
    BY <1>2, <1>3 DEF View, SoundView
  <1>4. CASE event # None
    <2>1. /\ event \in Event /\ event.type = "other"
          /\ v \in Snapshot => event.revision = v.revision
      BY <1>4 DEF WriterEvents, Drafts
    <2>2. CASE v = None
      BY <1>4, <2>1, <2>2, SentinelAssumption DEF View, Apply
    <2>3. CASE v # None
      <3>1. v \in Snapshot /\ SnapshotOK(v) /\ v.lastSequence <= LogHead /\ v # Rejected
        BY <1>2, <2>3 DEF SoundView
      <3>2. v.lastSequence \in Nat
        BY <3>1 DEF Snapshot
      <3>3. Guard(v, event, LogHead + 1)
        BY <1>1, <2>1, <3>1, <3>2
           DEF Guard, CursorAndBindingOK, EnvelopeOK, LifecycleTypes, RunTypes, AttemptTypes
      <3>4. SnapshotOK(Result(v, event, LogHead + 1))
        BY <1>1, <2>1, <3>1, <3>3, GuardsSuffice
      <3>5. Result(v, event, LogHead + 1) \in Snapshot
        BY <1>1, <2>1, <3>1, <3>3, ResultType DEF Guard
      <3> HIDE DEF v
      <3> QED BY <1>4, <2>3, <3>1, <3>3, <3>4, <3>5, SentinelAssumption DEF View, Apply, v
    <2> QED BY <2>2, <2>3
  <1> QED BY <1>3, <1>4

\* The event a step inserts, if any, is one the fold accepts.
LEMMA InsertedAccepted ==
    ASSUME IInv, [Next]_vars, ~UNCHANGED <<log, views>>
    PROVE  \E event \in Drafts \union {None} :
               /\ Insert(event)
               /\ View(views[LogHead + 1], event, LogHead + 1) # Rejected
  <1> USE DEF IInv
  <1>1. CASE OtherWriter
    <2>1. PICK event \in WriterEvents \union {None} : Insert(event)
      BY <1>1 DEF OtherWriter
    <2>2. event \in Drafts \union {None}
      BY DEF WriterEvents
    <2> QED BY <2>1, <2>2, WriterAccepted
  <1>2. ASSUME NEW c \in Controls, Commit(c)
        PROVE  \E event \in Drafts \union {None} :
                   /\ Insert(event)
                   /\ View(views[LogHead + 1], event, LogHead + 1) # Rejected
    <2>1. PICK draft \in Commands, fresh \in IdIsFresh, token \in Tokens(c) :
              AppendOK(c, draft, fresh, token) /\ Insert(draft)
      BY <1>2 DEF Commit
    <2>2. /\ call[c].high = LogHead /\ draft \in Drafts /\ draft # None
          /\ Apply(call[c].snap, draft, LogHead + 1) \in Snapshot
      BY <2>1, CommitFacts
    <2>3. call[c].snap = views[LogHead + 1]
      BY <1>2, <2>2 DEF Commit, CallsHonest
    <2>4. views[LogHead + 1] # Rejected
      <3>1. LogHead + 1 \in 1 .. LogHead + 1
        BY DEF TypeOK, LogHead
      <3> QED BY <3>1 DEF ViewsSound, SoundView
    <2>5. View(views[LogHead + 1], draft, LogHead + 1) \in Snapshot
      BY <2>2, <2>3, <2>4 DEF View
    <2> QED BY <2>1, <2>2, <2>5, SentinelAssumption
  <1>3. OtherWriter \/ \E c \in Controls : Commit(c)
    BY DEF Next, ControlStep, Begin, ReadLive, ReadCheckpoint, Verify, Remember, ReadCache,
       DropCache, FoldPrefix, Persist, Refuse, Publish, Crash, ForgetCheckpoint, vars
  <1> QED BY <1>1, <1>2, <1>3

\* Every step keeps the views sound.
LEMMA ViewsStep == IInv /\ [Next]_vars => ViewsSound'
  <1> SUFFICES ASSUME IInv, [Next]_vars PROVE ViewsSound'
    OBVIOUS
  <1>1. CASE UNCHANGED <<log, views>>
    BY <1>1 DEF IInv, ViewsSound, LogHead
  <1>2. CASE ~UNCHANGED <<log, views>>
    <2>1. PICK event \in Drafts \union {None} :
              Insert(event) /\ View(views[LogHead + 1], event, LogHead + 1) # Rejected
      BY <1>2, InsertedAccepted
    <2>2. /\ LogHead \in Nat /\ LogHead' = LogHead + 1
          /\ \A k \in 1 .. LogHead + 1 : views'[k] = views[k]
          /\ views'[LogHead' + 1] = View(views[LogHead + 1], event, LogHead + 1)
      BY <2>1, InsertFacts DEF IInv
    <2>3. /\ views[LogHead + 1] \in Snapshot \union {None, Rejected}
          /\ SoundView(views[LogHead + 1], LogHead)
      BY <2>2 DEF IInv, TypeOK, ViewsSound, LogHead
    <2>4. SoundView(views'[LogHead' + 1], LogHead')
      BY <2>1, <2>2, <2>3, ViewStaysSound
    <2>5. \A k \in 1 .. LogHead + 1 : SoundView(views'[k], k - 1)
      BY <2>2 DEF IInv, ViewsSound
    <2>6. \A k \in 1 .. LogHead' + 1 : k \in 1 .. LogHead + 1 \/ k = LogHead' + 1
      BY <2>2
    <2>7. (LogHead' + 1) - 1 = LogHead'
      BY <2>2
    <2>8. \A k \in 1 .. LogHead' + 1 : SoundView(views'[k], k - 1)
      BY <2>4, <2>5, <2>6, <2>7
    <2> QED BY <2>8 DEF ViewsSound
  <1> QED BY <1>1, <1>2

\* A committed append returns the fold of the log that ends with its event.
LEMMA CommitHonest ==
    ASSUME IInv, NEW c \in Controls, Commit(c)
    PROVE  call'[c].high \in 1 .. LogHead' /\ call'[c].snap = views'[call'[c].high + 1]
  <1> USE DEF IInv
  <1>1. PICK draft \in Commands, fresh \in IdIsFresh, token \in Tokens(c) :
            /\ AppendOK(c, draft, fresh, token)
            /\ Insert(draft)
            /\ call' = [call EXCEPT ![c].high = LogHead + 1,
                                    ![c].snap = Apply(@, draft, LogHead + 1)]
    BY DEF Commit
  <1>2. call[c].high = LogHead /\ draft \in Drafts /\ draft # None
    BY <1>1, CommitFacts
  <1>3. call[c].snap = views[LogHead + 1]
    BY <1>2 DEF Commit, CallsHonest
  <1>4. /\ LogHead \in Nat /\ LogHead' = LogHead + 1
        /\ views'[LogHead' + 1] = View(views[LogHead + 1], draft, LogHead + 1)
    BY <1>1, <1>2, InsertFacts
  <1>5. /\ call'[c].high = LogHead + 1
        /\ call'[c].snap = Apply(call[c].snap, draft, LogHead + 1)
    BY <1>1 DEF TypeOK, Call
  <1>6. views[LogHead + 1] # Rejected
    BY <1>4 DEF ViewsSound, SoundView
  <1> QED BY <1>2, <1>3, <1>4, <1>5, <1>6 DEF View

\* Every step keeps what the calls hold honest.
LEMMA CallsStep == IInv /\ [Next]_vars => CallsHonest' /\ AppendResultHonest'
  <1> SUFFICES ASSUME IInv, [Next]_vars, NEW d \in Controls
               PROVE  /\ pc'[d] \in {"persist", "commit"} =>
                             call'[d].snap = views'[call'[d].high + 1]
                      /\ pc'[d] = "publish" =>
                             /\ call'[d].high \in 1 .. LogHead'
                             /\ call'[d].snap = views'[call'[d].high + 1]
    BY DEF CallsHonest, AppendResultHonest
  <1> USE DEF IInv
  <1>1. /\ LogHead \in Nat /\ LogHead' \in Nat /\ LogHead <= LogHead'
        /\ \A k \in 1 .. LogHead + 1 : views'[k] = views[k]
    BY LogGrows
  <1>2. call[d] \in Call /\ call[d].high \in Nat
    BY DEF TypeOK, Call
  <1>3. pc[d] \in {"fold", "persist", "commit", "publish"} =>
            /\ call[d].high <= LogHead
            /\ views'[call[d].high + 1] = views[call[d].high + 1]
    <2>1. pc[d] \in {"fold", "persist", "commit"} => call[d].high <= LogHead
      BY DEF Heads, Frozen
    <2>2. pc[d] = "publish" => call[d].high <= LogHead
      BY <1>1, <1>2 DEF AppendResultHonest
    <2>3. call[d].high <= LogHead => call[d].high + 1 \in 1 .. LogHead + 1
      BY <1>1, <1>2
    <2> QED BY <1>1, <2>1, <2>2, <2>3
  <1>4. CASE pc'[d] = pc[d] /\ call'[d] = call[d]
    <2>1. CASE pc[d] \in {"persist", "commit"}
      BY <1>3, <1>4, <2>1 DEF CallsHonest
    <2>2. CASE pc[d] = "publish"
      <3>1. call[d].high \in 1 .. LogHead /\ call[d].snap = views[call[d].high + 1]
        BY <2>2 DEF AppendResultHonest
      <3>2. call[d].high \in 1 .. LogHead'
        BY <1>1, <3>1
      <3> QED BY <1>3, <1>4, <2>2, <3>1, <3>2
    <2> QED BY <1>4, <2>1, <2>2
  <1>5. ASSUME ControlStep(d), pc'[d] \in {"persist", "commit"}
        PROVE  call'[d].snap = views'[call'[d].high + 1]
    <2>1. FoldPrefix(d) \/ Persist(d)
      BY <1>5 DEF TypeOK, ControlStep, Begin, ReadLive, ReadCheckpoint, Verify, Remember,
         ReadCache, DropCache, Commit, Refuse, Publish, Crash, Goto, Return
    <2>2. CASE FoldPrefix(d)
      <3>1. /\ pc[d] = "fold"
            /\ call' = [call EXCEPT ![d].snap = views[call[d].high + 1]]
        BY <1>5, <2>2 DEF FoldPrefix, Return, Goto, TypeOK
      <3>2. call'[d].snap = views[call[d].high + 1] /\ call'[d].high = call[d].high
        BY <1>2, <3>1 DEF TypeOK, Call
      <3> QED BY <1>3, <3>1, <3>2
    <2>3. CASE Persist(d)
      <3>1. pc[d] = "persist" /\ call'[d] = call[d]
        BY <1>5, <2>3 DEF Persist, Return, Goto, TypeOK
      <3> QED BY <1>3, <3>1 DEF CallsHonest
    <2> QED BY <2>1, <2>2, <2>3
  <1>6. ASSUME ControlStep(d), pc'[d] = "publish"
        PROVE  call'[d].high \in 1 .. LogHead' /\ call'[d].snap = views'[call'[d].high + 1]
    <2>1. Commit(d)
      BY <1>6 DEF TypeOK, ControlStep, Begin, ReadLive, ReadCheckpoint, Verify, Remember,
         ReadCache, DropCache, FoldPrefix, Persist, Refuse, Publish, Crash, Goto, Return
    <2> QED BY <2>1, CommitHonest
  <1>7. (pc'[d] = pc[d] /\ call'[d] = call[d]) \/ ControlStep(d)
    BY OthersKeep DEF Next, OtherWriter, ForgetCheckpoint, vars
  <1> QED BY <1>4, <1>5, <1>6, <1>7

\* Every step keeps the cached row honest.
LEMMA CacheStep == IInv /\ [Next]_vars => CacheRowHonest'
  <1> SUFFICES ASSUME IInv, [Next]_vars PROVE CacheRowHonest'
    OBVIOUS
  <1> USE DEF IInv
  <1>1. /\ LogHead \in Nat /\ LogHead' \in Nat /\ LogHead <= LogHead'
        /\ \A k \in 1 .. LogHead + 1 : views'[k] = views[k]
    BY LogGrows
  <1>2. CASE cache' = cache
    <2>1. CASE cache = None
      BY <1>2, <2>1 DEF CacheRowHonest
    <2>2. CASE cache # None
      <3>1. cache.last \in 1 .. LogHead /\ cache.snap = views[cache.last + 1]
        BY <2>2 DEF CacheRowHonest
      <3>2. cache.last \in 1 .. LogHead' /\ cache.last + 1 \in 1 .. LogHead + 1
        BY <1>1, <3>1
      <3> QED BY <1>1, <1>2, <3>1, <3>2 DEF CacheRowHonest
    <2> QED BY <2>1, <2>2
  <1>3. CASE cache' = None
    BY <1>3 DEF CacheRowHonest
  <1>4. ASSUME NEW c \in Controls, Persist(c) \/ Publish(c), cache' = PersistedRow(c)
        PROVE  CacheRowHonest'
    <2>1. call[c].high \in Nat
      BY DEF TypeOK, Call
    <2>2. call[c].high <= LogHead /\ call[c].snap = views[call[c].high + 1]
      <3>1. CASE Persist(c)
        BY <3>1 DEF Persist, Heads, Frozen, CallsHonest
      <3>2. CASE Publish(c)
        BY <1>1, <2>1, <3>2 DEF Publish, AppendResultHonest
      <3> QED BY <1>4, <3>1, <3>2
    <2>3. UNCHANGED <<log, views>>
      BY <1>4 DEF Persist, Publish
    <2>4. CASE call[c].high = 0
      BY <1>4, <2>4 DEF PersistedRow, CacheRowHonest
    <2>5. CASE call[c].high # 0
      <3>1. cache' = [last |-> call[c].high, snap |-> call[c].snap]
        BY <1>4, <2>5 DEF PersistedRow
      <3>2. cache'.last = call[c].high /\ cache'.snap = call[c].snap
        BY <3>1
      <3> QED BY <1>1, <2>1, <2>2, <2>3, <2>5, <3>2 DEF CacheRowHonest, LogHead
    <2> QED BY <2>4, <2>5
  <1>5. \/ cache' = cache \/ cache' = None
        \/ \E c \in Controls : (Persist(c) \/ Publish(c)) /\ cache' = PersistedRow(c)
    BY DEF Next, ControlStep, Begin, ReadLive, ReadCheckpoint, Verify, Remember, ReadCache,
       DropCache, FoldPrefix, Persist, Commit, Refuse, Publish, Crash, OtherWriter,
       ForgetCheckpoint, vars
  <1> QED BY <1>2, <1>3, <1>4, <1>5

\* IInv is inductive.
THEOREM Invariance == Spec => []IInv
  <1>1. Init => ViewsSound /\ CallsHonest /\ AppendResultHonest /\ CacheRowHonest
    <2> SUFFICES ASSUME Init
                 PROVE  ViewsSound /\ CallsHonest /\ AppendResultHonest /\ CacheRowHonest
      OBVIOUS
    <2>1. LogHead = 0 /\ views[1] = None
      BY DEF Init, LogHead
    <2>2. ViewsSound
      BY <2>1, SentinelAssumption DEF ViewsSound, SoundView
    <2> QED BY <2>2 DEF Init, CallsHonest, AppendResultHonest, CacheRowHonest
  <1>2. IInv /\ [Next]_vars => IInv'
    BY TypeStep, HeadsStep, ViewsStep, CallsStep, CacheStep DEF IInv
  <1>3. Init => TypeOK /\ Heads
    BY InitTypes
  <1>4. Init => IInv
    BY <1>1, <1>3 DEF IInv
  <1> QED BY <1>2, <1>4, PTL DEF Spec

\* No interleaving of processes, writers and crashes commits an event that a
\* later rebuild would refuse.
THEOREM LogAlwaysReplays == Spec => []LogReplays
  <1>1. IInv => LogReplays
    BY DEF IInv, ViewsSound, SoundView, LogReplays
  <1> QED BY <1>1, Invariance, PTL

\* The cached row is the fold of the prefix it names.
THEOREM CacheIsHonest == Spec => []CacheRowHonest
  BY Invariance, PTL DEF IInv

\* append returns the fold of the log up to the event it committed.
THEOREM AppendIsHonest == Spec => []AppendResultHonest
  BY Invariance, PTL DEF IInv

-----------------------------------------------------------------------------
(* Refinement: the log, folded, is the aggregate of RunState.  RunState is *)
(* instantiated, so its copy of the fold has to be identified with ours.   *)

LEMMA SameRules == \A s : Aggregate!SnapshotOK(s) <=> SnapshotOK(s)
  BY SMT
     DEF SnapshotOK, CursorsIncrease, RetryChain, StatusMatchesAttempts, WithinMaxAttempts,
         ReviewedOnlyTerminal, ActiveMatches, AtMostOneUnresolved, IdsUnique,
         OrdinalsContiguous, ActiveIs, LatestIs, Latest, Unresolved, TerminalRun,
         UnresolvedAttempt, Aggregate!SnapshotOK, Aggregate!CursorsIncrease,
         Aggregate!RetryChain, Aggregate!StatusMatchesAttempts,
         Aggregate!WithinMaxAttempts, Aggregate!ReviewedOnlyTerminal,
         Aggregate!ActiveMatches, Aggregate!AtMostOneUnresolved, Aggregate!IdsUnique,
         Aggregate!OrdinalsContiguous, Aggregate!ActiveIs, Aggregate!LatestIs,
         Aggregate!Latest, Aggregate!Unresolved, Aggregate!TerminalRun,
         Aggregate!UnresolvedAttempt

\* Renaming: the guards of the instance are the reducer's.
LEMMA SameGuard == \A s, e, q : Aggregate!Guard(s, e, q) <=> Guard(s, e, q)
  BY SMT
     DEF Guard, AttemptEventOK, AttemptFrom, AttemptQueuedOK, RetryOK, FirstAttemptOK,
         RunEventOK, CursorAndBindingOK, EnvelopeOK, LatestIs, Latest, Unresolved,
         TerminalRun, UnresolvedAttempt, RunTypes, AttemptTypes, LifecycleTypes,
         Aggregate!Guard, Aggregate!AttemptEventOK, Aggregate!AttemptFrom,
         Aggregate!AttemptQueuedOK, Aggregate!RetryOK, Aggregate!FirstAttemptOK,
         Aggregate!RunEventOK, Aggregate!CursorAndBindingOK, Aggregate!EnvelopeOK,
         Aggregate!LatestIs, Aggregate!Latest, Aggregate!Unresolved, Aggregate!TerminalRun,
         Aggregate!UnresolvedAttempt, Aggregate!RunTypes, Aggregate!AttemptTypes,
         Aggregate!LifecycleTypes

\* Renaming: the results of the instance are the reducer's.
LEMMA SameResult == \A s, e, q : Aggregate!Result(s, e, q) = Result(s, e, q)
  BY SMT
     DEF Result, Stamped, Updated, AttemptEventResult, MovedAttempt, RunTo, AttemptTo,
         AttemptQueuedResult, NewAttempt, RunEventResult, TerminalAttempt, AttemptTypes,
         Aggregate!Result, Aggregate!Stamped, Aggregate!Updated,
         Aggregate!AttemptEventResult, Aggregate!MovedAttempt, Aggregate!RunTo,
         Aggregate!AttemptTo, Aggregate!AttemptQueuedResult, Aggregate!NewAttempt,
         Aggregate!RunEventResult, Aggregate!TerminalAttempt, Aggregate!AttemptTypes

\* Renaming: the fold of the instance is the reducer's.
LEMMA SameApply == \A s, e, q : Aggregate!Apply(s, e, q) = Apply(s, e, q)
  BY SMT, SameRules, SameGuard, SameResult
     DEF Apply, FirstSnapshot, EnvelopeOK, RunTypes, AttemptTypes, Aggregate!Apply,
         Aggregate!FirstSnapshot, Aggregate!EnvelopeOK, Aggregate!RunTypes,
         Aggregate!AttemptTypes

\* Renaming: the drafts of the instance are the reducer's.
LEMMA SameDrafts ==
    /\ Aggregate!Drafts = Drafts /\ Aggregate!RunTypes = RunTypes
    /\ Aggregate!AttemptTypes = AttemptTypes
  BY SMT
     DEF Drafts, PayloadFits, Event, EventTypes, LifecycleTypes, RunTypes, AttemptTypes,
         Ordinals, Aggregate!Drafts, Aggregate!PayloadFits, Aggregate!Event,
         Aggregate!EventTypes, Aggregate!LifecycleTypes, Aggregate!RunTypes,
         Aggregate!AttemptTypes, Aggregate!Ordinals

\* An inserted event is a step of the aggregate at its head.
LEMMA InsertImplements ==
    ASSUME IInv, [Next]_vars, ~UNCHANGED <<log, views>>
    PROVE  Aggregate!RunNext
  <1>1. PICK event \in Drafts \union {None} :
            Insert(event) /\ View(views[LogHead + 1], event, LogHead + 1) # Rejected
    BY InsertedAccepted
  <1>2. /\ LogHead \in Nat /\ LogHead' = LogHead + 1
        /\ views'[LogHead' + 1] = View(views[LogHead + 1], event, LogHead + 1)
    BY <1>1, InsertFacts DEF IInv
  <1>3. LogHead < SequenceMax
    <2>1. ASSUME NEW c \in Controls, Commit(c) PROVE LogHead < SequenceMax
      BY <2>1, CommitFacts DEF Commit, IInv
    <2>2. CASE OtherWriter
      BY <2>2 DEF OtherWriter, CanInsert
    <2>3. OtherWriter \/ \E c \in Controls : Commit(c)
      BY DEF Next, ControlStep, Begin, ReadLive, ReadCheckpoint, Verify, Remember, ReadCache,
         DropCache, FoldPrefix, Persist, Refuse, Publish, Crash, ForgetCheckpoint, vars
    <2> QED BY <2>1, <2>2, <2>3
  <1>4. CASE event = None
    <2>1. views'[LogHead' + 1] = views[LogHead + 1]
      BY <1>2, <1>4 DEF View
    <2>2. Aggregate!OtherAggregate
      BY <1>2, <1>3, <2>1 DEF Aggregate!OtherAggregate
    <2> QED BY <2>2 DEF Aggregate!RunNext
  <1>5. CASE event # None
    <2>1. views[LogHead + 1] # Rejected
      BY <1>2 DEF IInv, ViewsSound, SoundView
    <2>2. View(views[LogHead + 1], event, LogHead + 1)
              = Apply(views[LogHead + 1], event, LogHead + 1)
      BY <1>5, <2>1 DEF View
    <2>3. event \in Drafts /\ event.type \in RunTypes \union AttemptTypes \union {"other"}
      BY <1>5 DEF Drafts, Event, EventTypes, LifecycleTypes
    <2>4. /\ event \in Aggregate!Drafts
          /\ Aggregate!Apply(views[LogHead + 1], event, LogHead + 1) # Rejected
          /\ views'[LogHead' + 1] = Aggregate!Apply(views[LogHead + 1], event, LogHead + 1)
      BY <1>1, <1>2, <2>2, <2>3, SameApply, SameDrafts
    <2>5. ASSUME NEW types, event.type \in types PROVE Aggregate!Fold(types)
      BY <1>2, <1>3, <2>4, <2>5 DEF Aggregate!Fold
    <2>6. Aggregate!RunEvent \/ Aggregate!AttemptEvent \/ Aggregate!ObserveUnrelated
      BY <2>3, <2>5, SameDrafts
         DEF Aggregate!RunEvent, Aggregate!AttemptEvent, Aggregate!ObserveUnrelated
    <2> QED BY <2>6 DEF Aggregate!RunNext
  <1> QED BY <1>4, <1>5

\* Concurrent processes over one store implement the sequential aggregate.
THEOREM AggregateImplemented == Spec => ImplementsAggregate
  <1>1. Init => Aggregate!RunInit
    <2> SUFFICES ASSUME Init PROVE Aggregate!RunInit
      OBVIOUS
    <2>1. LogHead = 0 /\ views[LogHead + 1] = None
      BY DEF Init, LogHead
    <2> QED BY <2>1 DEF Aggregate!RunInit
  <1>2. IInv /\ [Next]_vars => [Aggregate!RunNext]_(Aggregate!runVars)
    <2> SUFFICES ASSUME IInv, [Next]_vars PROVE [Aggregate!RunNext]_(Aggregate!runVars)
      OBVIOUS
    <2>1. CASE UNCHANGED <<log, views>>
      BY <2>1 DEF Aggregate!runVars, LogHead
    <2>2. CASE ~UNCHANGED <<log, views>>
      BY <2>2, InsertImplements
    <2> QED BY <2>1, <2>2
  <1> QED BY <1>1, <1>2, Invariance, PTL DEF Spec, ImplementsAggregate, Aggregate!RunSpec

=============================================================================
