------------------------ MODULE ExecutionTraceProofs ------------------------
(***************************************************************************)
(* Results about ExecutionTrace for every checkpoint interval, every kind  *)
(* of data and every number of crashes and failing writes; about the       *)
(* compensations of a task, which Rollback models: for any number of them  *)
(* and of calls of rollback, in any order, one is run a second time only   *)
(* by a call that comes to it while another awaits it; and about the       *)
(* traces of the tool proxy, for any tasks, gateways, calls and restarts.  *)
(***************************************************************************)
EXTENDS AgentTask, TraceLogProofs

USE ExecutionTraceAssumption, SummaryAssumption

LEMMA VocabularyType ==
    /\ Plain \in Data /\ Sparse \in Data /\ Stripped \in Data
    /\ AppendTypes \subseteq EventTypes /\ Verdicts \subseteq EventTypes
    /\ \A d \in Data : Strip(d) \in Data
BY DEF EventTypes, Strip

-----------------------------------------------------------------------------
(* Events keep their type on their way to the file and back. *)
LEMMA SequenceType ==
    ASSUME NEW S, NEW n \in Nat, NEW f \in [1..n -> S]
    PROVE  f \in Seq(S)
BY SeqDef

LEMMA SerialisedType ==
    ASSUME NEW es \in Seq(Event)
    PROVE  Serialised(es) \in Seq(Event)
<1>1. Len(es) \in Nat
  BY LenProperties
<1>2. ASSUME NEW i \in 1..Len(es) PROVE RoundTrip(es[i]) \in Event
  <2>1. es[i] \in Event
    BY ElementOfSeq
  <2>2. Strip(es[i].data) \in Data
    BY <2>1, VocabularyType DEF Event
  <2>3. QED
    BY <2>1, <2>2 DEF RoundTrip, Event
<1>3. Serialised(es) \in [1..Len(es) -> Event]
  BY <1>2 DEF Serialised
<1>4. QED
  BY <1>1, <1>3, SequenceType

LEMMA SubSeqType ==
    ASSUME NEW es \in Seq(Event), NEW m \in 1..Len(es) + 1, NEW n \in 0..Len(es)
    PROVE  SubSeq(es, m, n) \in Seq(Event)
<1>1. Len(es) \in Nat
  BY LenProperties
<1>2. \A i \in m..n : es[i] \in Event
  BY <1>1, ElementOfSeq
<1>3. QED
  BY <1>1, <1>2, SubSeqProperties

LEMMA WithLinesType ==
    ASSUME NEW es \in Seq(Event), lines \in Seq(Event)
    PROVE  WithLines(es) \in Seq(Event)
BY SerialisedType, ConcatProperties DEF WithLines

(* A call leaves a trace that has more events. *)
LEMMA FromType ==
    ASSUME NEW t \in Trace, NEW n \in Nat, n <= Len(t.events)
    PROVE  From(t, n) \in Seq(Event)
<1>1. t.events \in Seq(Event) /\ Len(t.events) \in Nat
  BY LenProperties DEF Trace
<1>2. n + 1 \in 1..Len(t.events) + 1 /\ Len(t.events) \in 0..Len(t.events)
  BY <1>1
<1>3. QED
  BY <1>1, <1>2, SubSeqType DEF From

LEMMA FromLength ==
    ASSUME NEW t \in Trace, NEW n \in Nat, n <= Len(t.events)
    PROVE  Len(From(t, n)) = Len(t.events) - n
<1>1. t.events \in Seq(Event) /\ Len(t.events) \in Nat
  BY LenProperties DEF Trace
<1>2. \A i \in n + 1..Len(t.events) : t.events[i] \in Event
  BY <1>1, ElementOfSeq
<1>3. Len(From(t, n)) = IF n + 1 <= Len(t.events) THEN Len(t.events) - (n + 1) + 1 ELSE 0
  BY <1>1, <1>2, SubSeqProperties DEF From
<1>4. QED
  BY <1>1, <1>3

-----------------------------------------------------------------------------
(* What a call leaves behind, whole or broken off after its k-th event. *)
Longer(t, u) ==
    /\ u \in Trace
    /\ Len(t.events) \in Nat /\ Len(u.events) \in Nat /\ Len(u.events) > Len(t.events)
    /\ Verify(t.events) => Verify(u.events)

LEMMA PushLonger ==
    ASSUME NEW t \in Trace, NEW type \in EventTypes, NEW data \in Data
    PROVE  Longer(t, Push(t, type, data))
<1>1. Push(t, type, data) \in Trace
  BY PushType
<1>2. /\ Len(t.events) \in Nat
      /\ Len(Push(t, type, data).events) = Len(t.events) + 1
  BY PushEvents
<1>3. Verify(t.events) => Verify(Push(t, type, data).events)
  BY PushVerifies
<1>4. QED
  BY <1>1, <1>2, <1>3 DEF Longer

LEMMA WithCheckpointLonger ==
    ASSUME NEW t \in Trace
    PROVE  Longer(t, WithCheckpoint(t))
BY WithCheckpointType, WithCheckpointEvents, WithCheckpointVerifies DEF Longer

LEMMA AppendedLonger ==
    ASSUME NEW t \in Trace, NEW type \in EventTypes, NEW data \in Data
    PROVE  Longer(t, Appended(t, type, data))
BY AppendedType, AppendedEvents, AppendVerifies DEF Longer

LEMMA SealedLonger ==
    ASSUME NEW t \in Trace, NEW data \in Data
    PROVE  Longer(t, Finalized(t, data)) /\ Longer(t, Failed(t, data))
<1>1. "TASK_RESULT" \in EventTypes /\ "TASK_FAILED" \in EventTypes
  BY DEF EventTypes, Verdicts
<1>2. /\ Longer(t, Appended(t, "TASK_RESULT", data))
      /\ Longer(t, Appended(t, "TASK_FAILED", data))
  BY <1>1, AppendedLonger
<1>3. QED
  BY <1>2, SealedEvents, SealedType DEF Longer

LEMMA StagesLonger ==
    ASSUME NEW t \in Trace, NEW type \in EventTypes, NEW data \in Data,
           NEW k \in 1..Len(Stages(t, type, data))
    PROVE  Longer(t, Stages(t, type, data)[k])
<1> DEFINE p == Push(t, type, data)
<1>1. Longer(t, p)
  BY PushLonger
<1>2. Longer(p, WithCheckpoint(p))
  BY <1>1, WithCheckpointLonger DEF Longer
<1>3. Longer(t, WithCheckpoint(p))
  BY <1>1, <1>2 DEF Longer
<1> HIDE DEF p
<1>4. QED
  BY <1>1, <1>3 DEF Stages, p

LEMMA CallsLonger ==
    ASSUME TypeOK, NEW stages \in Calls, NEW k \in 1..Len(stages)
    PROVE  Longer(trace, stages[k])
<1>1. trace \in Trace
  BY DEF TypeOK
<1>2. ASSUME NEW type \in AppendTypes \cup Verdicts, NEW data \in {Plain, Sparse},
             stages = Stages(trace, type, data)
      PROVE  Longer(trace, stages[k])
  <2>1. type \in EventTypes /\ data \in Data
    BY VocabularyType
  <2>2. QED
    BY <1>1, <1>2, <2>1, StagesLonger
<1>3. ASSUME stages = <<WithCheckpoint(trace)>> PROVE Longer(trace, stages[k])
  BY <1>1, <1>3, WithCheckpointLonger
<1>4. QED
  BY <1>2, <1>3 DEF Calls

(* The k-th element of a call has k new events. *)
LEMMA CallsLength ==
    ASSUME TypeOK, NEW stages \in Calls, NEW k \in 1..Len(stages)
    PROVE  Len(stages[k].events) = Len(trace.events) + k /\ k \in Nat
<1>1. trace \in Trace
  BY DEF TypeOK
<1>2. ASSUME NEW type \in AppendTypes \cup Verdicts, NEW data \in {Plain, Sparse},
             stages = Stages(trace, type, data)
      PROVE  Len(stages[k].events) = Len(trace.events) + k /\ k \in Nat
  <2> DEFINE p == Push(trace, type, data)
  <2>1. type \in EventTypes /\ data \in Data
    BY VocabularyType
  <2>2. p \in Trace /\ Len(p.events) = Len(trace.events) + 1 /\ Len(trace.events) \in Nat
    BY <1>1, <2>1, PushType, PushEvents
  <2>3. Len(WithCheckpoint(p).events) = Len(p.events) + 1
    BY <2>2, WithCheckpointEvents
  <2> HIDE DEF p
  <2>4. stages = IF CheckpointDue(p, type) THEN <<p, WithCheckpoint(p)>> ELSE <<p>>
    BY <1>2 DEF Stages, p
  <2>5. QED
    BY <2>2, <2>3, <2>4
<1>3. ASSUME stages = <<WithCheckpoint(trace)>>
      PROVE  Len(stages[k].events) = Len(trace.events) + k /\ k \in Nat
  BY <1>1, <1>3, WithCheckpointEvents
<1>4. QED
  BY <1>2, <1>3 DEF Calls

(* Every call of AppendEvent, Checkpoint, Finalize and Fail commits one of *)
(* these.                                                                  *)
Outcome(t) ==
    \/ t = WithCheckpoint(trace)
    \/ \E type \in AppendTypes, data \in {Plain, Sparse} : t = Appended(trace, type, data)
    \/ \E data \in {Plain, Sparse} : t = Finalized(trace, data) \/ t = Failed(trace, data)

LEMMA OutcomeLonger ==
    ASSUME TypeOK, NEW t, Outcome(t)
    PROVE  Longer(trace, t)
<1>1. trace \in Trace
  BY DEF TypeOK
<1>2. QED
  BY <1>1, VocabularyType, WithCheckpointLonger, AppendedLonger, SealedLonger DEF Outcome

(* The steps that change the trace of a process that stays up. *)
LEMMA LiveStep ==
    ASSUME TypeOK, [Next]_vars, up, up'
    PROVE  \/ UNCHANGED trace
           \/ IsOpen(trace) /\ Longer(trace, trace')
<1>1. ASSUME NEW type \in AppendTypes, NEW data \in {Plain, Sparse}, AppendEvent(type, data)
      PROVE  IsOpen(trace) /\ Outcome(trace')
  BY <1>1 DEF AppendEvent, Commit, Outcome
<1>2. CASE Checkpoint
  BY <1>2, OutcomeLonger DEF Checkpoint, Commit, Outcome
<1>3. ASSUME NEW data \in {Plain, Sparse}, Finalize(data) \/ Fail(data)
      PROVE  IsOpen(trace) /\ Outcome(trace')
  BY <1>3 DEF Finalize, Fail, Commit, Outcome
<1>4. CASE WriteFails
  BY <1>4, CallsLonger DEF WriteFails
<1>5. CASE SaveToFile \/ SaveFails \/ UNCHANGED vars
  BY <1>5 DEF SaveToFile, SaveFails, vars
<1>6. CASE Crash \/ CrashInCall \/ Load \/ StartOver
  BY <1>6 DEF Crash, CrashInCall, Die, Load, StartOver
<1>7. QED
  BY <1>1, <1>2, <1>3, <1>4, <1>5, <1>6, OutcomeLonger DEF Next

-----------------------------------------------------------------------------
LEMMA CommitType ==
    ASSUME TypeOK, NEW t, Longer(trace, t), Commit(t)
    PROVE  TypeOK'
<1>1. From(t, Len(trace.events)) \in Seq(Event)
  BY FromType DEF Longer
<1>2. lines' \in Seq(Event)
  BY <1>1, WithLinesType DEF Commit, TypeOK
<1>3. QED
  BY <1>2 DEF Commit, TypeOK, Longer

(* What a broken call writes: some of the events it recorded. *)
LEMMA PartType ==
    ASSUME TypeOK, NEW stages \in Calls, NEW k \in 1..Len(stages), NEW w \in {k - 1, k}
    PROVE  WithLines(SubSeq(From(stages[k], Len(trace.events)), 1, w)) \in Seq(Event)
<1> DEFINE es == From(stages[k], Len(trace.events))
<1>1. es \in Seq(Event) /\ Len(es) = k /\ k \in Nat /\ k >= 1
  <2>1. Longer(trace, stages[k]) /\ Len(stages[k].events) = Len(trace.events) + k /\ k \in Nat
    BY CallsLonger, CallsLength
  <2>2. es \in Seq(Event)
    BY <2>1, FromType DEF Longer
  <2>3. Len(es) = k
    <3>1. /\ stages[k] \in Trace /\ Len(trace.events) \in Nat
          /\ Len(trace.events) <= Len(stages[k].events)
      BY <2>1 DEF Longer
    <3>2. Len(es) = Len(stages[k].events) - Len(trace.events)
      BY <3>1, FromLength
    <3>3. QED
      BY <2>1, <3>1, <3>2
  <2>4. QED
    BY <2>1, <2>2, <2>3
<1> HIDE DEF es
<1>2. SubSeq(es, 1, w) \in Seq(Event)
  BY <1>1, SubSeqType
<1>3. QED
  BY <1>2, WithLinesType DEF TypeOK, es

LEMMA LoadedType ==
    ASSUME TypeOK, Loadable
    PROVE  Loaded(lines) \in Trace
<1>1. lines \in Seq(Event) /\ lines # <<>>
  BY DEF TypeOK, Loadable
<1>2. lines[Len(lines)] \in Event
  BY <1>1, EmptySeq, ElementOfSeq
<1>3. lines[Len(lines)].seq + 1 \in Nat
  BY <1>2 DEF Event
<1>4. QED
  BY <1>1, <1>3 DEF Loaded, Trace

LEMMA NewTraceType == NewTrace(CheckpointInterval) \in Trace
BY EmptySeq DEF NewTrace, Trace

LEMMA TypeInit == Init => TypeOK
<1> SUFFICES ASSUME Init PROVE TypeOK
  OBVIOUS
<1>1. trace \in Trace /\ lines \in Seq(Event)
  BY NewTraceType, EmptySeq DEF Init
<1>2. up \in BOOLEAN /\ autoSave \in BOOLEAN /\ torn \in BOOLEAN /\ shared \in BOOLEAN
  BY DEF Init
<1>3. faults \in 0..MaxFaults /\ restarts \in 0..MaxRestarts
  BY DEF Init
<1>4. QED
  BY <1>1, <1>2, <1>3 DEF TypeOK

LEMMA DieType ==
    ASSUME TypeOK, Die
    PROVE  /\ up' \in BOOLEAN /\ restarts' \in 0..MaxRestarts
           /\ UNCHANGED <<autoSave, faults, shared>>
<1>1. restarts' \in 0..MaxRestarts
  BY DEF Die, TypeOK
<1>2. QED
  BY <1>1 DEF Die

LEMMA TypeStep == TypeOK /\ [Next]_vars => TypeOK'
<1> SUFFICES ASSUME TypeOK, [Next]_vars PROVE TypeOK'
  OBVIOUS
<1>0. trace \in Trace
  BY DEF TypeOK
<1>1. ASSUME NEW type \in AppendTypes, NEW data \in {Plain, Sparse}, AppendEvent(type, data)
      PROVE  TypeOK'
  <2>1. Outcome(Appended(trace, type, data))
    BY DEF Outcome
  <2>2. QED
    BY <1>0, <1>1, <2>1, OutcomeLonger, CommitType DEF AppendEvent
<1>2. CASE Checkpoint
  <2>1. Outcome(WithCheckpoint(trace))
    BY DEF Outcome
  <2>2. QED
    BY <1>0, <1>2, <2>1, OutcomeLonger, CommitType DEF Checkpoint
<1>3. ASSUME NEW data \in {Plain, Sparse}, Finalize(data) PROVE TypeOK'
  <2>1. Outcome(Finalized(trace, data))
    BY DEF Outcome
  <2>2. QED
    BY <1>0, <1>3, <2>1, OutcomeLonger, CommitType DEF Finalize
<1>4. ASSUME NEW data \in {Plain, Sparse}, Fail(data) PROVE TypeOK'
  <2>1. Outcome(Failed(trace, data))
    BY DEF Outcome
  <2>2. QED
    BY <1>0, <1>4, <2>1, OutcomeLonger, CommitType DEF Fail
<1>5. CASE WriteFails
  <2>0. PICK stages \in Calls : \E k \in 1..Len(stages) :
            /\ trace' = stages[k]
            /\ lines' = WithLines(SubSeq(From(stages[k], Len(trace.events)), 1, k - 1))
    BY <1>5 DEF WriteFails
  <2>1. PICK k \in 1..Len(stages) :
            /\ trace' = stages[k]
            /\ lines' = WithLines(SubSeq(From(stages[k], Len(trace.events)), 1, k - 1))
    BY <2>0
  <2>2. trace' \in Trace /\ lines' \in Seq(Event)
    BY <2>1, CallsLonger, PartType DEF Longer
  <2>3. faults' \in 0..MaxFaults
    BY <1>5 DEF WriteFails, TypeOK
  <2>4. torn' \in BOOLEAN
    BY <1>5 DEF WriteFails, TypeOK
  <2>5. UNCHANGED <<up, autoSave, shared, restarts>>
    BY <1>5 DEF WriteFails
  <2>6. QED
    BY <2>2, <2>3, <2>4, <2>5 DEF TypeOK
<1>6. CASE CrashInCall
  <2>0. PICK stages \in Calls : \E k \in 1..Len(stages) : \E w \in {k - 1, k} :
            /\ trace' = stages[k]
            /\ lines' = WithLines(SubSeq(From(stages[k], Len(trace.events)), 1, w))
            /\ torn' \in IF autoSave /\ w < k THEN {torn, TRUE} ELSE {torn}
    BY <1>6 DEF CrashInCall
  <2>1. PICK k \in 1..Len(stages) : \E w \in {k - 1, k} :
            /\ trace' = stages[k]
            /\ lines' = WithLines(SubSeq(From(stages[k], Len(trace.events)), 1, w))
            /\ torn' \in IF autoSave /\ w < k THEN {torn, TRUE} ELSE {torn}
    BY <2>0
  <2>2. trace' \in Trace /\ lines' \in Seq(Event)
    BY <2>1, CallsLonger, PartType DEF Longer
  <2>3. torn' \in BOOLEAN
    BY <2>1 DEF TypeOK
  <2>4. Die
    BY <1>6 DEF CrashInCall
  <2>5. QED
    BY <2>2, <2>3, <2>4, DieType DEF TypeOK
<1>7. CASE SaveToFile
  <2>1. lines' \in Seq(Event)
    BY <1>0, <1>7, SerialisedType DEF SaveToFile, Trace
  <2>2. QED
    BY <1>7, <2>1 DEF SaveToFile, TypeOK
<1>8. CASE SaveFails
  <2>1. trace.events \in Seq(Event) /\ Serialised(trace.events) \in Seq(Event)
    BY <1>0, SerialisedType DEF Trace
  <2>2. Len(Serialised(trace.events)) = Len(trace.events) /\ Len(trace.events) \in Nat
    BY <2>1, LenProperties DEF Serialised
  <2>3. lines' \in Seq(Event)
    BY <1>8, <2>1, <2>2, SubSeqType DEF SaveFails
  <2>4. QED
    BY <1>8, <2>3 DEF SaveFails, TypeOK
<1>9. CASE Crash
  BY <1>9, DieType DEF Crash, TypeOK
<1>10. CASE Load
  BY <1>10, LoadedType DEF Load, TypeOK
<1>11. CASE StartOver
  BY <1>11, NewTraceType DEF StartOver, TypeOK
<1>12. CASE UNCHANGED vars
  BY <1>12 DEF vars, TypeOK
<1>13. QED
  BY <1>1, <1>2, <1>3, <1>4, <1>5, <1>6, <1>7, <1>8, <1>9, <1>10, <1>11, <1>12 DEF Next

(* Every variable keeps its type. *)
THEOREM TypeCorrect == Spec => []TypeOK
BY TypeInit, TypeStep, PTL DEF Spec

(* The chain of a trace verifies as long as it did when its process        *)
(* started, whichever call or failing write comes.                         *)
THEOREM ChainKept == Spec => ChainExtends
<1>1. TypeOK /\ [Next]_vars =>
          [up /\ up' /\ Verify(trace.events) => Verify(trace'.events)]_vars
  BY LiveStep DEF Longer
<1>2. QED
  BY <1>1, TypeCorrect, PTL DEF Spec, ChainExtends

(* Nothing is added to a sealed trace. *)
THEOREM SealKept == Spec => SealHolds
<1>1. TypeOK /\ [Next]_vars => [up /\ up' /\ ~IsOpen(trace) => trace' = trace]_vars
  BY LiveStep
<1>2. QED
  BY <1>1, TypeCorrect, PTL DEF Spec, SealHolds

-----------------------------------------------------------------------------
(* Every event a call adds is linked to what precedes it. *)
Chained(t, u) ==
    /\ u \in Trace
    /\ Len(t.events) \in Nat /\ Len(u.events) \in Nat /\ Len(u.events) > Len(t.events)
    /\ \A i \in 1..Len(t.events) : u.events[i] = t.events[i]
    /\ \A i \in Len(t.events) + 1..Len(u.events) : LinkOK(u.events, i) /\ HashOK(u.events[i])

LEMMA PushChained ==
    ASSUME NEW t \in Trace, NEW type \in EventTypes, NEW data \in Data
    PROVE  Chained(t, Push(t, type, data))
<1> DEFINE es == t.events
           u  == Push(t, type, data)
           fs == u.events
           e  == MakeEvent(t, type, data)
<1>1. /\ Len(fs) = Len(es) + 1 /\ Len(es) \in Nat
      /\ \A i \in 1..Len(es) : fs[i] = es[i]
      /\ fs[Len(es) + 1] = e
  BY PushEvents
<1>2. HashOK(e)
  BY DEF HashOK, MakeEvent
<1>3. LinkOK(fs, Len(es) + 1)
  <2>1. e.prev = LastHash(es)
    BY DEF MakeEvent
  <2>2. es \in Seq(Event)
    BY DEF Trace
  <2>3. LastHash(es) = IF Len(es) + 1 = 1 THEN GenesisPrev ELSE fs[Len(es) + 1 - 1].hash
    BY <1>1, <2>2, EmptySeq DEF LastHash
  <2>4. QED
    BY <1>1, <2>1, <2>3 DEF LinkOK
<1>4. u \in Trace
  BY PushType
<1>5. \A i \in Len(es) + 1..Len(fs) : i = Len(es) + 1
  BY <1>1
<1> HIDE DEF u, e
<1>6. Chained(t, u)
  BY <1>1, <1>2, <1>3, <1>4, <1>5 DEF Chained
<1>7. QED
  BY <1>6 DEF u

LEMMA WithCheckpointChained ==
    ASSUME NEW t \in Trace
    PROVE  Chained(t, WithCheckpoint(t))
<1>1. "CHECKPOINT" \in EventTypes
  BY DEF EventTypes
<1>2. Chained(t, Push(t, "CHECKPOINT", Summary))
  BY <1>1, PushChained
<1>3. WithCheckpoint(t).events = Push(t, "CHECKPOINT", Summary).events
  BY <1>2 DEF WithCheckpoint, Chained, Trace
<1>4. QED
  BY <1>2, <1>3, WithCheckpointType DEF Chained

LEMMA ChainedTwice ==
    ASSUME NEW t, NEW u, NEW v, Chained(t, u), Chained(u, v)
    PROVE  Chained(t, v)
<1> DEFINE n == Len(t.events)  m == Len(u.events)  k == Len(v.events)
<1>1. n \in Nat /\ m \in Nat /\ k \in Nat /\ n < m /\ m < k /\ v \in Trace
  BY DEF Chained
<1>2. \A i \in 1..n : v.events[i] = t.events[i]
  BY <1>1 DEF Chained
<1>3. ASSUME NEW i \in n + 1..k PROVE LinkOK(v.events, i) /\ HashOK(v.events[i])
  <2>1. CASE i \in m + 1..k
    BY <2>1 DEF Chained
  <2>2. CASE i \in n + 1..m
    <3>1. LinkOK(u.events, i) /\ HashOK(u.events[i])
      BY <2>2 DEF Chained
    <3>2. v.events[i] = u.events[i] /\ (i # 1 => v.events[i - 1] = u.events[i - 1])
      BY <1>1, <2>2 DEF Chained
    <3>3. QED
      BY <3>1, <3>2 DEF LinkOK
  <2>3. QED
    BY <1>1, <2>1, <2>2
<1>4. QED
  BY <1>1, <1>2, <1>3 DEF Chained

LEMMA AppendedChained ==
    ASSUME NEW t \in Trace, NEW type \in EventTypes, NEW data \in Data
    PROVE  Chained(t, Appended(t, type, data))
<1>1. Chained(t, Push(t, type, data))
  BY PushChained
<1>2. Chained(Push(t, type, data), WithCheckpoint(Push(t, type, data)))
  BY PushType, WithCheckpointChained
<1>3. QED
  BY <1>1, <1>2, ChainedTwice DEF Appended

LEMMA OutcomeChained ==
    ASSUME TypeOK, NEW t, Outcome(t)
    PROVE  Chained(trace, t)
<1>1. trace \in Trace /\ "TASK_RESULT" \in EventTypes /\ "TASK_FAILED" \in EventTypes
  BY DEF TypeOK, EventTypes, Verdicts
<1>2. ASSUME NEW data \in {Plain, Sparse}, t = Finalized(trace, data) \/ t = Failed(trace, data)
      PROVE  Chained(trace, t)
  <2>1. data \in Data
    BY VocabularyType
  <2>2. /\ Chained(trace, Appended(trace, "TASK_RESULT", data))
        /\ Chained(trace, Appended(trace, "TASK_FAILED", data))
    BY <1>1, <2>1, AppendedChained
  <2>3. Finalized(trace, data) \in Trace /\ Failed(trace, data) \in Trace
    BY <1>1, <2>1, SealedType
  <2>4. QED
    BY <1>1, <1>2, <2>1, <2>2, <2>3, SealedEvents DEF Chained
<1>3. ASSUME NEW type \in AppendTypes, NEW data \in {Plain, Sparse}, t = Appended(trace, type, data)
      PROVE  Chained(trace, t)
  BY <1>1, <1>3, VocabularyType, AppendedChained
<1>4. QED
  BY <1>1, <1>2, <1>3, WithCheckpointChained DEF Outcome

(* Broken off, a call leaves an open trace open. *)
LEMMA CallsChained ==
    ASSUME TypeOK, NEW stages \in Calls, NEW k \in 1..Len(stages)
    PROVE  Chained(trace, stages[k]) /\ (IsOpen(trace) => IsOpen(stages[k]))
<1>1. trace \in Trace
  BY DEF TypeOK
<1>2. ASSUME NEW type \in AppendTypes \cup Verdicts, NEW data \in {Plain, Sparse},
             stages = Stages(trace, type, data)
      PROVE  Chained(trace, stages[k]) /\ (IsOpen(trace) => IsOpen(stages[k]))
  <2> DEFINE p == Push(trace, type, data)
  <2>1. type \in EventTypes /\ data \in Data
    BY VocabularyType
  <2>2. /\ p \in Trace /\ Chained(trace, p)
        /\ p.finalized = trace.finalized /\ p.failed = trace.failed
    BY <1>1, <2>1, PushType, PushChained, PushFlags
  <2>3. /\ Chained(p, WithCheckpoint(p))
        /\ WithCheckpoint(p).finalized = p.finalized /\ WithCheckpoint(p).failed = p.failed
    BY <2>2, WithCheckpointChained, WithCheckpointEvents
  <2>4. Chained(trace, WithCheckpoint(p))
    BY <2>2, <2>3, ChainedTwice
  <2> HIDE DEF p
  <2>5. stages = IF CheckpointDue(p, type) THEN <<p, WithCheckpoint(p)>> ELSE <<p>>
    BY <1>2 DEF Stages, p
  <2>6. stages[k] = p \/ stages[k] = WithCheckpoint(p)
    BY <2>5
  <2>7. QED
    BY <2>2, <2>3, <2>4, <2>6 DEF IsOpen
<1>3. ASSUME stages = <<WithCheckpoint(trace)>>
      PROVE  Chained(trace, stages[k]) /\ (IsOpen(trace) => IsOpen(stages[k]))
  BY <1>1, <1>3, WithCheckpointChained, WithCheckpointEvents DEF IsOpen
<1>4. QED
  BY <1>2, <1>3 DEF Calls

-----------------------------------------------------------------------------
(* Up to the first event that JSON has changed, a chain verifies: the      *)
(* trace in memory and the file alike.                                     *)
Sound(es) ==
    \A i \in 1..Len(es) :
        (\A j \in 1..i : es[j].data # Stripped) => LinkOK(es, i) /\ HashOK(es[i])

(* While no write has failed, the file is the trace: CleanFileVerifies     *)
(* alone says nothing of what is appended to the file next.                *)
FileFollows ==
    Intact =>
        /\ Sound(trace.events) /\ Sound(lines)
        /\ up => ~torn
        /\ autoSave /\ (up \/ ~IsOpen(trace)) => lines = Serialised(trace.events)

(* A seal is more than a flag: the verdict is among the events.            *)
SealIsEvent == ~IsOpen(trace) => VerdictPositions(trace.events) # {}

LEMMA RoundTripFields ==
    ASSUME NEW e \in Event
    PROVE  /\ RoundTrip(e).seq = e.seq /\ RoundTrip(e).type = e.type
           /\ RoundTrip(e).prev = e.prev /\ RoundTrip(e).hash = e.hash
           /\ RoundTrip(e).data = Strip(e.data)
BY DEF RoundTrip, Event

LEMMA SerialisedEvents ==
    ASSUME NEW es \in Seq(Event)
    PROVE  /\ Len(Serialised(es)) = Len(es) /\ Len(es) \in Nat
           /\ \A i \in 1..Len(es) : Serialised(es)[i] = RoundTrip(es[i])
BY LenProperties DEF Serialised

LEMMA ChainedSound ==
    ASSUME NEW t, NEW u, Chained(t, u), Sound(t.events)
    PROVE  Sound(u.events)
<1> SUFFICES ASSUME NEW i \in 1..Len(u.events),
                    \A j \in 1..i : u.events[j].data # Stripped
             PROVE  LinkOK(u.events, i) /\ HashOK(u.events[i])
  BY DEF Sound
<1>1. CASE i \in Len(t.events) + 1..Len(u.events)
  BY <1>1 DEF Chained
<1>2. CASE i \in 1..Len(t.events)
  <2>1. \A j \in 1..i : u.events[j] = t.events[j]
    BY <1>2 DEF Chained
  <2>2. LinkOK(t.events, i) /\ HashOK(t.events[i])
    BY <1>2, <2>1 DEF Sound
  <2>3. u.events[i] = t.events[i] /\ (i # 1 => u.events[i - 1] = t.events[i - 1])
    BY <1>2, <2>1
  <2>4. QED
    BY <2>2, <2>3 DEF LinkOK
<1>3. QED
  BY <1>1, <1>2 DEF Chained

(* What JSON does not change verifies after the round trip as before.      *)
LEMMA SerialisedSound ==
    ASSUME NEW es \in Seq(Event), Sound(es)
    PROVE  Sound(Serialised(es))
<1> DEFINE fs == Serialised(es)
<1>1. /\ Len(fs) = Len(es) /\ Len(es) \in Nat
      /\ \A i \in 1..Len(es) : fs[i] = RoundTrip(es[i])
  BY SerialisedEvents
<1>2. \A i \in 1..Len(es) :
          /\ fs[i].seq = es[i].seq /\ fs[i].type = es[i].type
          /\ fs[i].prev = es[i].prev /\ fs[i].hash = es[i].hash
          /\ fs[i].data = Strip(es[i].data)
  BY <1>1, ElementOfSeq, RoundTripFields
<1> HIDE DEF fs
<1> SUFFICES ASSUME NEW i \in 1..Len(es), \A j \in 1..i : fs[j].data # Stripped
             PROVE  LinkOK(fs, i) /\ HashOK(fs[i])
  BY <1>1 DEF Sound, fs
<1>3. \A j \in 1..i : fs[j].data = es[j].data /\ es[j].data # Stripped
  BY <1>1, <1>2 DEF Strip
<1>4. LinkOK(es, i) /\ HashOK(es[i])
  BY <1>3 DEF Sound
<1>5. HashOK(fs[i])
  BY <1>2, <1>3, <1>4 DEF HashOK
<1>6. LinkOK(fs, i)
  <2>1. i # 1 => i - 1 \in 1..Len(es)
    BY <1>1
  <2>2. QED
    BY <1>2, <1>4, <2>1 DEF LinkOK
<1>7. QED
  BY <1>5, <1>6

LEMMA PrefixSound ==
    ASSUME NEW es \in Seq(Event), Sound(es), NEW n \in 0..Len(es)
    PROVE  SubSeq(es, 1, n) \in Seq(Event) /\ Sound(SubSeq(es, 1, n))
<1> DEFINE fs == SubSeq(es, 1, n)
<1>1. Len(es) \in Nat /\ \A i \in 1..n : es[i] \in Event
  BY LenProperties, ElementOfSeq
<1>2. fs \in Seq(Event) /\ Len(fs) = n /\ \A i \in 1..n : fs[i] = es[i]
  BY <1>1, SubSeqProperties
<1> HIDE DEF fs
<1>3. Sound(fs)
  <2> SUFFICES ASSUME NEW i \in 1..n, \A j \in 1..i : fs[j].data # Stripped
               PROVE  LinkOK(fs, i) /\ HashOK(fs[i])
    BY <1>2 DEF Sound
  <2>1. LinkOK(es, i) /\ HashOK(es[i])
    BY <1>1, <1>2 DEF Sound
  <2>2. fs[i] = es[i] /\ (i # 1 => fs[i - 1] = es[i - 1])
    BY <1>1, <1>2
  <2>3. QED
    BY <2>1, <2>2 DEF LinkOK
<1>4. QED
  BY <1>2, <1>3 DEF fs

LEMMA Slices ==
    ASSUME NEW es \in Seq(Event), NEW k \in Nat, k <= Len(es)
    PROVE  /\ SubSeq(es, 1, k) \in Seq(Event)
           /\ Len(SubSeq(es, 1, k)) = k
           /\ \A i \in 1..k : SubSeq(es, 1, k)[i] = es[i]
<1> DEFINE fs == SubSeq(es, 1, k)
<1>1. \A i \in 1..k : es[i] \in Event
  BY LenProperties, ElementOfSeq
<1>2. /\ fs \in Seq(Event)
      /\ Len(fs) = IF 1 <= k THEN k - 1 + 1 ELSE 0
      /\ \A i \in 1..k - 1 + 1 : fs[i] = es[1 + i - 1]
  BY <1>1, SubSeqProperties
<1> HIDE DEF fs
<1>3. Len(fs) = k /\ \A i \in 1..k : fs[i] = es[i]
  BY <1>2
<1>4. QED
  BY <1>2, <1>3 DEF fs

LEMMA FromElements ==
    ASSUME NEW t \in Trace, NEW n \in Nat, n <= Len(t.events)
    PROVE  \A i \in 1..Len(t.events) - n : From(t, n)[i] = t.events[n + i]
<1> DEFINE es == t.events  m == n + 1  fs == SubSeq(es, m, Len(es))
<1>1. Len(es) \in Nat /\ \A i \in m..Len(es) : es[i] \in Event
  BY LenProperties, ElementOfSeq DEF Trace
<1>2. m \in Int
  OBVIOUS
<1> HIDE DEF es, m
<1>3. \A i \in 1..Len(es) - m + 1 : fs[i] = es[m + i - 1]
  BY <1>1, <1>2, SubSeqProperties
<1> HIDE DEF fs
<1>4. ASSUME NEW i \in 1..Len(es) - n
      PROVE  fs[i] = es[n + i]
  <2>1. i \in 1..Len(es) - m + 1 /\ m + i - 1 = n + i
    BY <1>1, <1>4 DEF m
  <2>2. QED
    BY <1>3, <2>1
<1>5. QED
  BY <1>4 DEF From, fs, es, m

(* The file keeps up with a call, as far as the call has got.              *)
LEMMA LinesFollow ==
    ASSUME TypeOK, NEW u, Chained(trace, u), NEW w \in 0..Len(u.events) - Len(trace.events),
           autoSave, ~torn, lines = Serialised(trace.events)
    PROVE  WithLines(SubSeq(From(u, Len(trace.events)), 1, w))
               = Serialised(SubSeq(u.events, 1, Len(trace.events) + w))
<1> DEFINE es == trace.events  fs == u.events  n == Len(es)
           new == SubSeq(From(u, n), 1, w)
           all == SubSeq(fs, 1, n + w)
<1>1. /\ es \in Seq(Event) /\ fs \in Seq(Event)
      /\ n \in Nat /\ Len(fs) \in Nat /\ n < Len(fs)
      /\ \A i \in 1..n : fs[i] = es[i]
  BY DEF TypeOK, Trace, Chained
<1>2. w \in Nat /\ n + w <= Len(fs)
  BY <1>1
<1>3. /\ From(u, n) \in Seq(Event) /\ Len(From(u, n)) = Len(fs) - n
      /\ \A i \in 1..Len(fs) - n : From(u, n)[i] = fs[n + i]
  <2>1. u \in Trace /\ n \in Nat /\ n <= Len(u.events)
    BY <1>1 DEF Chained
  <2>2. From(u, n) \in Seq(Event) /\ Len(From(u, n)) = Len(u.events) - n
    BY <2>1, FromType, FromLength
  <2>3. \A i \in 1..Len(u.events) - n : From(u, n)[i] = u.events[n + i]
    BY <2>1, FromElements
  <2>4. QED
    BY <2>2, <2>3
<1> HIDE DEF fs, es, n
<1>4. new \in Seq(Event) /\ Len(new) = w /\ \A i \in 1..w : new[i] = fs[n + i]
  <2>1. w <= Len(From(u, n))
    BY <1>1, <1>2, <1>3
  <2>2. new \in Seq(Event) /\ Len(new) = w /\ \A i \in 1..w : new[i] = From(u, n)[i]
    BY <1>2, <1>3, <2>1, Slices
  <2> HIDE DEF new
  <2>3. ASSUME NEW i \in 1..w
        PROVE  new[i] = fs[n + i]
    <3>1. i \in 1..Len(fs) - n
      BY <1>1, <1>2, <2>3
    <3>2. From(u, n)[i] = fs[n + i]
      BY <1>3, <3>1
    <3>3. QED
      BY <2>2, <3>2
  <2>4. QED
    BY <2>2, <2>3
<1>5. all \in Seq(Event) /\ Len(all) = n + w /\ \A i \in 1..n + w : all[i] = fs[i]
  BY <1>1, <1>2, Slices
<1> HIDE DEF new, all
<1>6. WithLines(new) = Serialised(es) \o Serialised(new)
  BY DEF WithLines, es
<1>7. /\ Serialised(es) \in Seq(Event) /\ Serialised(new) \in Seq(Event)
      /\ Serialised(all) \in Seq(Event)
      /\ Len(Serialised(es)) = n /\ Len(Serialised(new)) = w /\ Len(Serialised(all)) = n + w
      /\ \A i \in 1..n : Serialised(es)[i] = RoundTrip(fs[i])
      /\ \A i \in 1..w : Serialised(new)[i] = RoundTrip(fs[n + i])
      /\ \A i \in 1..n + w : Serialised(all)[i] = RoundTrip(fs[i])
  <2>1. /\ Serialised(es) \in Seq(Event) /\ Serialised(new) \in Seq(Event)
        /\ Serialised(all) \in Seq(Event)
    BY <1>1, <1>4, <1>5, SerialisedType
  <2>2. Len(Serialised(es)) = n /\ \A i \in 1..n : Serialised(es)[i] = RoundTrip(es[i])
    BY <1>1, SerialisedEvents DEF n
  <2>3. Len(Serialised(new)) = w /\ \A i \in 1..w : Serialised(new)[i] = RoundTrip(new[i])
    BY <1>4, SerialisedEvents
  <2>4. /\ Len(Serialised(all)) = n + w
        /\ \A i \in 1..n + w : Serialised(all)[i] = RoundTrip(all[i])
    BY <1>5, SerialisedEvents
  <2>5. QED
    BY <1>1, <1>4, <1>5, <2>1, <2>2, <2>3, <2>4
<1>8. \A i \in 1..n + w : (Serialised(es) \o Serialised(new))[i] = Serialised(all)[i]
  <2> SUFFICES ASSUME NEW i \in 1..n + w
               PROVE  (Serialised(es) \o Serialised(new))[i] = Serialised(all)[i]
    OBVIOUS
  <2>1. (Serialised(es) \o Serialised(new))[i]
            = IF i <= n THEN Serialised(es)[i] ELSE Serialised(new)[i - n]
    BY <1>7, ConcatProperties
  <2>2. CASE i <= n
    BY <1>1, <1>2, <1>7, <2>1, <2>2
  <2>3. CASE ~(i <= n)
    <3>1. i - n \in 1..w /\ n + (i - n) = i
      BY <1>1, <1>2, <2>3
    <3>2. Serialised(new)[i - n] = RoundTrip(fs[i])
      BY <1>7, <3>1
    <3>3. QED
      BY <1>7, <2>1, <2>3, <3>2
  <2>4. QED
    BY <2>2, <2>3
<1>9. Serialised(es) \o Serialised(new) = Serialised(all)
  BY <1>7, <1>8, ConcatProperties, SeqEqual
<1>10. QED
  BY <1>6, <1>9 DEF new, all, es, fs, n

-----------------------------------------------------------------------------
LEMMA FollowsInit == Init => FileFollows /\ SealIsEvent
<1> SUFFICES ASSUME Init PROVE FileFollows /\ SealIsEvent
  OBVIOUS
<1>1. trace.events = <<>> /\ lines = <<>> /\ ~torn /\ IsOpen(trace)
  BY DEF Init, NewTrace, IsOpen
<1>2. Len(<<>>) = 0 /\ Sound(<<>>) /\ Serialised(<<>>) = <<>>
  BY DEF Sound, Serialised
<1>3. QED
  BY <1>1, <1>2 DEF FileFollows, SealIsEvent

(* What a call writes: with k of its events made, w of them are written. *)
LEMMA WrittenSound ==
    ASSUME TypeOK, NEW u, Chained(trace, u), NEW w \in 0..Len(u.events) - Len(trace.events),
           Sound(trace.events), Sound(lines), ~torn,
           autoSave => lines = Serialised(trace.events),
           lines' = WithLines(SubSeq(From(u, Len(trace.events)), 1, w))
    PROVE  Sound(lines')
<1>1. CASE ~autoSave
  BY <1>1 DEF WithLines
<1>2. CASE autoSave
  <2> DEFINE n == Len(trace.events) + w
  <2>1. lines' = Serialised(SubSeq(u.events, 1, n))
    BY <1>2, LinesFollow
  <2>2. u.events \in Seq(Event) /\ n \in 0..Len(u.events)
    BY DEF Chained, Trace
  <2>3. Sound(u.events)
    BY ChainedSound
  <2> HIDE DEF n
  <2>4. Sound(Serialised(SubSeq(u.events, 1, n)))
    BY <2>2, <2>3, PrefixSound, SerialisedSound
  <2>5. QED
    BY <2>1, <2>4
<1>3. QED
  BY <1>1, <1>2

LEMMA CommitFollows ==
    ASSUME TypeOK, FileFollows, NEW t, Chained(trace, t), Commit(t)
    PROVE  FileFollows'
<1> SUFFICES ASSUME Intact'
             PROVE  (/\ Sound(trace.events) /\ Sound(lines) /\ (up => ~torn)
                     /\ (autoSave /\ (up \/ ~IsOpen(trace)) => lines = Serialised(trace.events)))'
  BY DEF FileFollows
<1>1. up /\ up' /\ trace' = t /\ UNCHANGED <<autoSave, torn>> /\ Intact
  BY DEF Commit, Intact
<1>2. /\ Sound(trace.events) /\ Sound(lines) /\ ~torn
      /\ autoSave => lines = Serialised(trace.events)
  BY <1>1 DEF FileFollows
<1> DEFINE n == Len(trace.events)  w == Len(t.events) - n
<1>3. /\ t \in Trace /\ t.events \in Seq(Event) /\ n \in Nat /\ Len(t.events) \in Nat
      /\ w \in 0..w /\ n + w = Len(t.events) /\ n <= Len(t.events) /\ trace \in Trace
  BY DEF Chained, Trace, TypeOK
<1>4. From(t, n) \in Seq(Event) /\ Len(From(t, n)) = w
  BY <1>3, FromType, FromLength
<1>5. From(t, n) = SubSeq(From(t, n), 1, w)
  BY <1>4, SubSeqFull
<1>6. lines' = WithLines(SubSeq(From(t, n), 1, w))
  BY <1>5 DEF Commit
<1>7. Sound(lines')
  BY <1>2, <1>3, <1>6, WrittenSound
<1>8. Sound(t.events)
  BY <1>2, ChainedSound
<1>9. autoSave => lines' = Serialised(t.events)
  <2>1. autoSave => lines' = Serialised(SubSeq(t.events, 1, n + w))
    BY <1>2, <1>3, <1>6, LinesFollow
  <2>2. SubSeq(t.events, 1, n + w) = t.events
    BY <1>3, SubSeqFull
  <2>3. QED
    BY <2>1, <2>2
<1>10. QED
  BY <1>1, <1>2, <1>7, <1>8, <1>9

LEMMA OutcomeCommits ==
    ASSUME TypeOK, [Next]_vars
    PROVE  \/ \E t : Outcome(t) /\ Commit(t)
           \/ WriteFails \/ SaveToFile \/ SaveFails \/ Crash \/ CrashInCall \/ Load \/ StartOver
           \/ UNCHANGED vars
BY DEF Next, AppendEvent, Checkpoint, Finalize, Fail, Outcome

LEMMA CrashFollows ==
    ASSUME TypeOK, FileFollows, CrashInCall
    PROVE  FileFollows'
<1> SUFFICES ASSUME Intact'
             PROVE  (/\ Sound(trace.events) /\ Sound(lines) /\ (up => ~torn)
                     /\ (autoSave /\ (up \/ ~IsOpen(trace)) => lines = Serialised(trace.events)))'
  BY DEF FileFollows
<1>1. up /\ ~up' /\ UNCHANGED autoSave /\ Intact /\ IsOpen(trace)
  BY DEF CrashInCall, Die, Intact
<1>2. /\ Sound(trace.events) /\ Sound(lines) /\ ~torn
      /\ autoSave => lines = Serialised(trace.events)
  BY <1>1 DEF FileFollows
<1>3. PICK stages \in Calls : \E k \in 1..Len(stages) : \E w \in {k - 1, k} :
          /\ trace' = stages[k]
          /\ lines' = WithLines(SubSeq(From(stages[k], Len(trace.events)), 1, w))
  BY DEF CrashInCall
<1>4. PICK k \in 1..Len(stages) : \E w \in {k - 1, k} :
          /\ trace' = stages[k]
          /\ lines' = WithLines(SubSeq(From(stages[k], Len(trace.events)), 1, w))
  BY <1>3
<1>5. PICK w \in {k - 1, k} :
          /\ trace' = stages[k]
          /\ lines' = WithLines(SubSeq(From(stages[k], Len(trace.events)), 1, w))
  BY <1>4
<1>6. Chained(trace, trace') /\ IsOpen(trace')
  BY <1>1, <1>5, CallsChained
<1>7. w \in 0..Len(trace'.events) - Len(trace.events)
  <2>1. Len(trace'.events) = Len(trace.events) + k /\ k \in Nat /\ k >= 1
    BY <1>5, CallsLength
  <2>2. Len(trace.events) \in Nat
    BY <1>6 DEF Chained
  <2>3. Len(trace'.events) - Len(trace.events) = k
    BY <2>1, <2>2
  <2>4. QED
    BY <2>1, <2>3
<1>8. Sound(trace'.events)
  BY <1>2, <1>6, ChainedSound
<1>9. Sound(lines')
  BY <1>2, <1>5, <1>6, <1>7, WrittenSound
<1>10. QED
  BY <1>1, <1>6, <1>8, <1>9

LEMMA FollowsStep ==
    ASSUME TypeOK, FileFollows, [Next]_vars
    PROVE  FileFollows'
<1>1. ASSUME NEW t, Outcome(t), Commit(t) PROVE FileFollows'
  BY <1>1, OutcomeChained, CommitFollows
<1>2. CASE WriteFails \/ SaveFails
  <2>1. faults' = faults + 1
    BY <1>2, Zenon DEF WriteFails, SaveFails
  <2>2. faults \in 0..MaxFaults
    BY DEF TypeOK
  <2>3. faults' # 0
    BY <2>1, <2>2
  <2>4. QED
    BY <2>3 DEF FileFollows, Intact
<1>3. CASE SaveToFile
  <2>1. trace.events \in Seq(Event)
    BY DEF TypeOK, Trace
  <2>2. Sound(trace.events) => Sound(Serialised(trace.events))
    BY <2>1, SerialisedSound
  <2>3. QED
    BY <1>3, <2>2 DEF SaveToFile, FileFollows, Intact
<1>4. CASE Crash
  BY <1>4 DEF Crash, Die, FileFollows, Intact
<1>5. CASE CrashInCall
  BY <1>5, CrashFollows
<1>6. CASE Load
  <2>1. trace'.events = lines
    BY <1>6 DEF Load, Loaded
  <2>2. QED
    BY <1>6, <2>1 DEF Load, Loadable, FileFollows, Intact
<1>7. CASE StartOver
  <2>1. trace'.events = <<>> /\ UNCHANGED <<lines, torn>>
    BY <1>7 DEF StartOver, NewTrace
  <2>2. Len(<<>>) = 0 /\ Sound(<<>>) /\ Serialised(<<>>) = <<>>
    BY DEF Sound, Serialised
  <2>3. Intact' => Intact /\ lines = <<>> /\ ~torn
    BY <1>7 DEF StartOver, Intact
  <2>4. QED
    BY <2>1, <2>2, <2>3 DEF FileFollows
<1>8. CASE UNCHANGED vars
  BY <1>8 DEF vars, FileFollows, Intact
<1>9. QED
  BY <1>1, <1>2, <1>3, <1>4, <1>5, <1>6, <1>7, <1>8, OutcomeCommits

-----------------------------------------------------------------------------
(* The event of a verdict is there before the flag says so.                *)
LEMMA SealedHasVerdict ==
    ASSUME NEW t \in Trace, NEW data \in Data
    PROVE  /\ VerdictPositions(Finalized(t, data).events) # {}
           /\ VerdictPositions(Failed(t, data).events) # {}
<1>1. /\ "TASK_RESULT" \in EventTypes /\ "TASK_FAILED" \in EventTypes
      /\ "TASK_RESULT" \in Verdicts /\ "TASK_FAILED" \in Verdicts
  BY DEF EventTypes, Verdicts
<1>2. ASSUME NEW type \in EventTypes \cap Verdicts
      PROVE  VerdictPositions(Appended(t, type, data).events) # {}
  <2> DEFINE fs == Appended(t, type, data).events  n == Len(t.events) + 1
  <2>1. n \in 1..Len(fs) /\ fs[n].type = type
    BY AppendedEvents
  <2> HIDE DEF fs, n
  <2>2. n \in VerdictPositions(fs)
    BY <2>1 DEF VerdictPositions
  <2>3. QED
    BY <2>2 DEF fs
<1>3. QED
  BY <1>1, <1>2, SealedEvents

LEMMA SealStep ==
    ASSUME TypeOK, SealIsEvent, [Next]_vars
    PROVE  SealIsEvent'
<1>0. trace \in Trace
  BY DEF TypeOK
<1>1. ASSUME NEW t, Outcome(t), Commit(t) PROVE SealIsEvent'
  <2>1. trace' = t /\ IsOpen(trace)
    BY <1>1 DEF Commit
  <2>2. CASE t = WithCheckpoint(trace)
    BY <1>0, <2>1, <2>2, WithCheckpointEvents DEF SealIsEvent, IsOpen
  <2>3. ASSUME NEW type \in AppendTypes, NEW data \in {Plain, Sparse},
               t = Appended(trace, type, data)
        PROVE  SealIsEvent'
    <3>1. type \in EventTypes /\ data \in Data
      BY VocabularyType
    <3>2. t.finalized = trace.finalized /\ t.failed = trace.failed
      BY <1>0, <2>3, <3>1, AppendedEvents
    <3>3. QED
      BY <2>1, <3>2 DEF SealIsEvent, IsOpen
  <2>4. ASSUME NEW data \in {Plain, Sparse}, t = Finalized(trace, data) \/ t = Failed(trace, data)
        PROVE  SealIsEvent'
    <3>1. data \in Data
      BY VocabularyType
    <3>2. VerdictPositions(t.events) # {}
      BY <1>0, <2>4, <3>1, SealedHasVerdict
    <3>3. QED
      BY <2>1, <3>2 DEF SealIsEvent
  <2>5. QED
    BY <1>1, <2>2, <2>3, <2>4 DEF Outcome
<1>2. CASE WriteFails \/ CrashInCall
  <2>1. IsOpen(trace) /\ \E stages \in Calls : \E k \in 1..Len(stages) : trace' = stages[k]
    BY <1>2 DEF WriteFails, CrashInCall
  <2>2. IsOpen(trace')
    BY <2>1, CallsChained
  <2>3. QED
    BY <2>2 DEF SealIsEvent
<1>3. CASE SaveToFile \/ SaveFails \/ Crash \/ UNCHANGED vars
  <2>1. trace' = trace
    BY <1>3 DEF SaveToFile, SaveFails, Crash, vars
  <2>2. QED
    BY <2>1 DEF SealIsEvent
<1>4. CASE Load
  <2>1. /\ trace'.events = lines
        /\ trace'.finalized = (Positions(lines, "TASK_RESULT") # {})
        /\ trace'.failed = (Positions(lines, "TASK_FAILED") # {})
    BY <1>4 DEF Load, Loaded
  <2>2. /\ Positions(lines, "TASK_RESULT") \subseteq VerdictPositions(lines)
        /\ Positions(lines, "TASK_FAILED") \subseteq VerdictPositions(lines)
    BY DEF Positions, VerdictPositions, Verdicts
  <2>3. QED
    BY <2>1, <2>2 DEF SealIsEvent, IsOpen
<1>5. CASE StartOver
  BY <1>5 DEF StartOver, NewTrace, SealIsEvent, IsOpen
<1>6. QED
  BY <1>1, <1>2, <1>3, <1>4, <1>5, OutcomeCommits

LEMMA FollowsAlways == Spec => [](TypeOK /\ FileFollows /\ SealIsEvent)
<1>1. Init => TypeOK /\ FileFollows /\ SealIsEvent
  BY TypeInit, FollowsInit
<1>2. TypeOK /\ FileFollows /\ SealIsEvent /\ [Next]_vars
          => (TypeOK /\ FileFollows /\ SealIsEvent)'
  BY TypeStep, FollowsStep, SealStep
<1>3. QED
  BY <1>1, <1>2, PTL DEF Spec

(* An undamaged file of events that JSON carries verifies when it is read, *)
(* whatever was appended, saved, loaded and begun again before, and        *)
(* wherever the process died.                                              *)
THEOREM FileVerifies == Spec => []CleanFileVerifies
<1>1. FileFollows => CleanFileVerifies
  BY DEF FileFollows, CleanFileVerifies, Sound, Verify
<1>2. QED
  BY <1>1, FollowsAlways, PTL

(* A verdict given before a crash seals the trace that is loaded after it. *)
THEOREM SealReloaded == Spec => SealSurvivesRestart
<1>1. TypeOK /\ FileFollows /\ SealIsEvent /\ [Next]_vars =>
          [Load /\ Intact /\ autoSave /\ ~IsOpen(trace) => ~IsOpen(trace')]_vars
  <2> SUFFICES ASSUME TypeOK, FileFollows, SealIsEvent,
                      Load, Intact, autoSave, ~IsOpen(trace)
               PROVE  ~IsOpen(trace')
    OBVIOUS
  <2>1. trace.events \in Seq(Event) /\ lines = Serialised(trace.events)
    BY DEF FileFollows, TypeOK, Trace
  <2>2. PICK i \in 1..Len(trace.events) : trace.events[i].type \in Verdicts
    BY DEF SealIsEvent, VerdictPositions
  <2>3. i \in 1..Len(lines) /\ lines[i].type = trace.events[i].type
    BY <2>1, SerialisedEvents, ElementOfSeq, RoundTripFields
  <2>4. i \in Positions(lines, "TASK_RESULT") \/ i \in Positions(lines, "TASK_FAILED")
    BY <2>2, <2>3 DEF Positions, Verdicts
  <2>5. QED
    BY <2>4 DEF Load, Loaded, IsOpen
<1>2. QED
  BY <1>1, FollowsAlways, PTL DEF Spec, SealSurvivesRestart

-----------------------------------------------------------------------------
(* What has not ended is awaited by whoever has run it, and what was never *)
(* registered was not run: RunOnceUnlessShared alone is not inductive.     *)
OpenRunsAwaited ==
    \A a \in Undo!Compensations :
        /\ status[a] = "unknown" => runs[a] = {}
        /\ status[a] = "pending" => \A c \in runs[a] : Undo!Awaits(c, a)

RollbackInv == Undo!TypeOK /\ OpenRunsAwaited /\ Undo!RunOnceUnlessShared

LEMMA AwaitsOne ==
  ASSUME NEW c, NEW a, NEW b, Undo!Awaits(c, a), Undo!Awaits(c, b)
  PROVE  a = b
  BY DEF Undo!Awaits

LEMMA ReverseTyped ==
  ASSUME NEW S, NEW s \in Seq(S)
  PROVE  Undo!Reverse(s) \in Seq(S)
<1>1. \A i \in 1..Len(s) : s[(Len(s) - i) + 1] \in S
  OBVIOUS
<1> QED
  BY <1>1 DEF Undo!Reverse

-----------------------------------------------------------------------------
(* What a step of the loop does to the history: it calls nothing, or one   *)
(* pending compensation that it then awaits.                               *)
LEMMA StepOfLoop ==
  ASSUME Undo!TypeOK, NEW c \in RollbackCalls, NEW r \in Undo!Rollback, Undo!Proceed(c, r),
         begun' = begun \cup {c}
  PROVE  /\ rollbacks' \in [RollbackCalls -> Undo!Rollback]
         /\ \A d \in RollbackCalls \ {c} : rollbacks'[d] = rollbacks[d]
         /\ \/ UNCHANGED <<runs, overlapped>>
            \/ \E a \in Undo!Compensations : Undo!Run(c, a) /\ Undo!Awaits(c, a)'
<1>1. PICK j \in r.at..Len(r.reversed) + 1 :
         /\ rollbacks' = [rollbacks EXCEPT ![c] = [r EXCEPT !.at = j]]
         /\ \/ j <= Len(r.reversed) /\ Undo!Run(c, r.reversed[j])
            \/ UNCHANGED <<runs, overlapped>>
  BY DEF Undo!Proceed
<1>2. j \in Nat \ {0} /\ Len(r.reversed) \in Nat /\ r.reversed \in Seq(Undo!Compensations)
  BY <1>1 DEF Undo!Rollback
<1>3. [r EXCEPT !.at = j] \in Undo!Rollback
  BY <1>2 DEF Undo!Rollback
<1>4. /\ rollbacks' \in [RollbackCalls -> Undo!Rollback]
      /\ \A d \in RollbackCalls \ {c} : rollbacks'[d] = rollbacks[d]
      /\ rollbacks'[c] = [r EXCEPT !.at = j]
  BY <1>1, <1>3 DEF Undo!TypeOK
<1>5. CASE j <= Len(r.reversed) /\ Undo!Run(c, r.reversed[j])
  <2>1. j \in DOMAIN r.reversed /\ r.reversed[j] \in Undo!Compensations
    BY <1>2, <1>5
  <2>2. rollbacks'[c].reversed = r.reversed /\ rollbacks'[c].at = j
    BY <1>4 DEF Undo!Rollback
  <2>3. Undo!Awaits(c, r.reversed[j])'
    BY <1>3, <1>4, <2>1, <2>2 DEF Undo!Awaits
  <2> QED
    BY <1>4, <1>5, <2>1, <2>3
<1> QED
  BY <1>1, <1>4, <1>5

(* A step of the loop at its start, or when what the call awaited settled. *)
LEMMA LoopKeeps ==
  ASSUME RollbackInv, NEW c \in RollbackCalls, NEW r \in Undo!Rollback, Undo!Proceed(c, r),
         begun' = begun \cup {c}, actions' \in Seq(Undo!Compensations),
         status' \in [Undo!Compensations -> Undo!Statuses],
         \A a \in Undo!Compensations :
             \/ status'[a] = status[a] /\ ~Undo!Awaits(c, a)
             \/ status'[a] \in {"completed", "failed"}
  PROVE  RollbackInv'
<1> USE DEF RollbackInv
<1>1. /\ rollbacks' \in [RollbackCalls -> Undo!Rollback]
      /\ \A d \in RollbackCalls \ {c} : rollbacks'[d] = rollbacks[d]
  BY StepOfLoop
<1>2. \A d \in RollbackCalls \ {c}, a \in Undo!Compensations : Undo!Awaits(d, a) => Undo!Awaits(d, a)'
  BY <1>1 DEF Undo!Awaits
<1>3. \A a \in Undo!Compensations : status'[a] \in {"unknown", "pending"} =>
        status'[a] = status[a] /\ ~Undo!Awaits(c, a)
  OBVIOUS
<1>4. CASE UNCHANGED <<runs, overlapped>>
  <2>1. Undo!TypeOK'
    BY <1>1, <1>4 DEF Undo!TypeOK
  <2>2. OpenRunsAwaited'
    BY <1>2, <1>3, <1>4 DEF OpenRunsAwaited, Undo!TypeOK
  <2>3. Undo!RunOnceUnlessShared'
    BY <1>4 DEF Undo!RunOnceUnlessShared
  <2> QED
    BY <2>1, <2>2, <2>3
<1>5. ASSUME NEW b \in Undo!Compensations, Undo!Run(c, b), Undo!Awaits(c, b)'
      PROVE  RollbackInv'
  <2>1. /\ runs' = [runs EXCEPT ![b] = @ \cup {c}]
        /\ overlapped \subseteq overlapped' /\ overlapped' \subseteq overlapped \cup {b}
        /\ (\E d \in RollbackCalls \ {c} : Undo!Awaits(d, b)) => b \in overlapped'
    BY <1>5 DEF Undo!Run
  <2>2. status'[b] = "pending" /\ status[b] = "pending" /\ ~Undo!Awaits(c, b)
    BY <1>3, <1>5 DEF Undo!Run
  <2>3. runs'[b] = runs[b] \cup {c} /\ \A a \in Undo!Compensations \ {b} : runs'[a] = runs[a]
    BY <2>1 DEF Undo!TypeOK
  <2>4. Undo!TypeOK'
    BY <1>1, <2>1 DEF Undo!TypeOK
  <2>5. \A d \in runs[b] : d \in RollbackCalls \ {c} /\ Undo!Awaits(d, b)
    BY <2>2 DEF OpenRunsAwaited, Undo!TypeOK
  <2>6. OpenRunsAwaited'
    <3> SUFFICES ASSUME NEW a \in Undo!Compensations
                 PROVE  /\ status'[a] = "unknown" => runs'[a] = {}
                        /\ status'[a] = "pending" => \A d \in runs'[a] : Undo!Awaits(d, a)'
      BY DEF OpenRunsAwaited
    <3>1. CASE a = b
      BY <3>1, <1>2, <1>5, <2>2, <2>3, <2>5
    <3>2. CASE a # b
      BY <3>2, <1>2, <1>3, <2>3 DEF OpenRunsAwaited, Undo!TypeOK
    <3> QED
      BY <3>1, <3>2
  <2>7. Undo!RunOnceUnlessShared'
    <3> SUFFICES ASSUME NEW a \in Undo!Compensations, NEW d \in runs'[a], NEW e \in runs'[a],
                        d # e
                 PROVE  a \in overlapped'
      BY DEF Undo!RunOnceUnlessShared
    <3>1. CASE a = b
      BY <3>1, <2>1, <2>3, <2>5
    <3>2. CASE a # b
      BY <3>2, <2>1, <2>3 DEF Undo!RunOnceUnlessShared
    <3> QED
      BY <3>1, <3>2
  <2> QED
    BY <2>4, <2>6, <2>7
<1> QED
  BY <1>4, <1>5, StepOfLoop

-----------------------------------------------------------------------------
LEMMA RollbackInit == Undo!Init => RollbackInv
<1> SUFFICES ASSUME Undo!Init PROVE RollbackInv
  OBVIOUS
<1>1. Undo!TypeOK
  BY DEF Undo!Init, Undo!TypeOK, Undo!Statuses, Undo!Fresh, Undo!Rollback
<1>2. OpenRunsAwaited /\ Undo!RunOnceUnlessShared
  BY DEF Undo!Init, OpenRunsAwaited, Undo!RunOnceUnlessShared
<1> QED
  BY <1>1, <1>2 DEF RollbackInv

LEMMA RegisterKeeps ==
  ASSUME RollbackInv, NEW a \in Undo!Compensations, Undo!RegisterCompensation(a)
  PROVE  RollbackInv'
<1> USE DEF RollbackInv
<1>1. Undo!TypeOK'
  BY DEF Undo!TypeOK, Undo!RegisterCompensation, Undo!Statuses
<1>2. \A c, b : Undo!Awaits(c, b) => Undo!Awaits(c, b)'
  BY DEF Undo!RegisterCompensation, Undo!Awaits
<1>3. OpenRunsAwaited'
  BY <1>2 DEF OpenRunsAwaited, Undo!RegisterCompensation, Undo!TypeOK
<1>4. Undo!RunOnceUnlessShared'
  BY DEF Undo!RunOnceUnlessShared, Undo!RegisterCompensation
<1> QED
  BY <1>1, <1>3, <1>4

LEMMA BeginKeeps ==
  ASSUME RollbackInv, NEW c \in RollbackCalls, Undo!Begin(c)
  PROVE  RollbackInv'
<1> DEFINE r == Undo!Fresh(Undo!Reverse(actions))
<1>1. Undo!Reverse(actions) \in Seq(Undo!Compensations)
  BY ReverseTyped DEF RollbackInv, Undo!TypeOK
<1>2. r \in Undo!Rollback
  BY <1>1 DEF Undo!Rollback, Undo!Fresh
<1>3. /\ Undo!Proceed(c, r) /\ begun' = begun \cup {c}
      /\ UNCHANGED <<actions, status>> /\ \A a : ~Undo!Awaits(c, a)
  BY DEF Undo!Begin, Undo!Awaits
<1> HIDE DEF r
<1> QED
  BY <1>2, <1>3, LoopKeeps DEF RollbackInv, Undo!TypeOK

LEMMA SettleKeeps ==
  ASSUME RollbackInv, NEW c \in RollbackCalls, Undo!Complete(c) \/ Undo!Fail(c)
  PROVE  RollbackInv'
<1>1. PICK a \in Undo!Compensations, s \in {"completed", "failed"}, r \in Undo!Rollback :
         /\ Undo!Awaits(c, a) /\ status' = [status EXCEPT ![a] = s]
         /\ Undo!Proceed(c, r) /\ UNCHANGED actions /\ begun' = begun \cup {c}
  <2>1. ASSUME NEW a, Undo!Awaits(c, a)
        PROVE  /\ [rollbacks[c] EXCEPT !.at = @ + 1, !.succeeded = @ + 1] \in Undo!Rollback
               /\ [rollbacks[c] EXCEPT !.at = @ + 1, !.failed = @ + 1] \in Undo!Rollback
    <3>1. rollbacks[c] \in Undo!Rollback
      BY <2>1 DEF Undo!Awaits, RollbackInv, Undo!TypeOK
    <3> DEFINE r == rollbacks[c]
    <3>2. r.at + 1 \in Nat \ {0} /\ r.succeeded + 1 \in Nat /\ r.failed + 1 \in Nat
      BY <3>1 DEF Undo!Rollback
    <3>3. r = [reversed |-> r.reversed, at |-> r.at, succeeded |-> r.succeeded, failed |-> r.failed]
      BY <3>1 DEF Undo!Rollback
    <3> HIDE DEF r
    <3>4. /\ [r EXCEPT !.at = r.at + 1, !.succeeded = r.succeeded + 1] \in Undo!Rollback
          /\ [r EXCEPT !.at = r.at + 1, !.failed = r.failed + 1] \in Undo!Rollback
      BY <3>1, <3>2, <3>3 DEF Undo!Rollback, r
    <3> QED
      BY <3>4 DEF r
  <2>2. ASSUME NEW a, Undo!Awaits(c, a), UNCHANGED begun
        PROVE  begun' = begun \cup {c}
    BY <2>2 DEF Undo!Awaits
  <2>3. CASE Undo!Complete(c)
    <3>1. PICK a \in Undo!Compensations :
             /\ Undo!Awaits(c, a) /\ status' = [status EXCEPT ![a] = "completed"]
             /\ Undo!Proceed(c, [rollbacks[c] EXCEPT !.at = @ + 1, !.succeeded = @ + 1])
             /\ UNCHANGED <<actions, begun>>
      BY <2>3 DEF Undo!Complete
    <3> QED
      BY <3>1, <2>1, <2>2
  <2>4. CASE Undo!Fail(c)
    <3>1. PICK a \in Undo!Compensations :
             /\ Undo!Awaits(c, a) /\ status' = [status EXCEPT ![a] = "failed"]
             /\ Undo!Proceed(c, [rollbacks[c] EXCEPT !.at = @ + 1, !.failed = @ + 1])
             /\ UNCHANGED <<actions, begun>>
      BY <2>4 DEF Undo!Fail
    <3> QED
      BY <3>1, <2>1, <2>2
  <2> QED
    BY <2>3, <2>4
<1>2. status' \in [Undo!Compensations -> Undo!Statuses] /\ actions' \in Seq(Undo!Compensations)
  BY <1>1 DEF RollbackInv, Undo!TypeOK, Undo!Statuses
<1>3. \A b \in Undo!Compensations : \/ status'[b] = status[b] /\ ~Undo!Awaits(c, b)
                               \/ status'[b] \in {"completed", "failed"}
  BY <1>1, AwaitsOne DEF RollbackInv, Undo!TypeOK
<1> QED
  BY <1>1, <1>2, <1>3, LoopKeeps

LEMMA RollbackNext == RollbackInv /\ [Undo!Next]_(Undo!vars) => RollbackInv'
<1> SUFFICES ASSUME RollbackInv, [Undo!Next]_(Undo!vars) PROVE RollbackInv'
  OBVIOUS
<1>1. ASSUME NEW a \in Undo!Compensations, Undo!RegisterCompensation(a) PROVE RollbackInv'
  BY <1>1, RegisterKeeps
<1>2. CASE Undo!Clear \/ UNCHANGED Undo!vars
  <2>1. /\ UNCHANGED <<status, begun, rollbacks, runs, overlapped>>
        /\ actions' \in Seq(Undo!Compensations)
    <3>1. <<>> \in Seq(Undo!Compensations)
      OBVIOUS
    <3>2. actions' \in {<<>>, actions} /\ UNCHANGED <<status, begun, rollbacks, runs, overlapped>>
      BY <1>2 DEF Undo!Clear, Undo!vars
    <3> QED
      BY <3>1, <3>2 DEF RollbackInv, Undo!TypeOK
  <2> QED
    BY <2>1 DEF RollbackInv, Undo!TypeOK, OpenRunsAwaited, Undo!RunOnceUnlessShared, Undo!Awaits
<1>3. ASSUME NEW c \in RollbackCalls, Undo!Begin(c) PROVE RollbackInv'
  BY <1>3, BeginKeeps
<1>4. ASSUME NEW c \in RollbackCalls, Undo!Complete(c) \/ Undo!Fail(c) PROVE RollbackInv'
  BY <1>4, SettleKeeps
<1> QED
  BY <1>1, <1>2, <1>3, <1>4 DEF Undo!Next

(* The types of the variables, for any number of calls: what a rollback    *)
(* copies, counts and reports.                                             *)
THEOREM CompensationTypesKept == Undo!Spec => []Undo!TypeOK
<1>1. RollbackInv => Undo!TypeOK
  BY DEF RollbackInv
<1> QED
  BY <1>1, RollbackInit, RollbackNext, PTL DEF Undo!Spec

(* However calls of rollback overlap each other and the clearing of the    *)
(* list, no compensation that has ended is run again: one is run twice     *)
(* only if a call came to it while another awaited it.                     *)
THEOREM CompensationsRunOnce == Undo!Spec => []RunOnceUnlessShared
<1>1. RollbackInv => RunOnceUnlessShared
  BY DEF RollbackInv, RunOnceUnlessShared
<1> QED
  BY <1>1, RollbackInit, RollbackNext, PTL DEF Undo!Spec
-----------------------------------------------------------------------------
(* The tool proxy.  Its traces are those of TraceLog.                      *)
LEMMA SameTraces ==
    /\ Proxy!Trace = Trace /\ Proxy!Event = Event
    /\ \A i : Proxy!NewTrace(i) = NewTrace(i)
    /\ \A t, type, d : Proxy!Appended(t, type, d) = Appended(t, type, d)
    /\ \A t, d : Proxy!Finalized(t, d) = Finalized(t, d) /\ Proxy!Failed(t, d) = Failed(t, d)
    /\ \A t : Proxy!IsOpen(t) <=> IsOpen(t)
    /\ \A es : Proxy!Verify(es) <=> Verify(es)
    /\ Proxy!Verdicts = Verdicts
<1>1. \A seq, type, data, prev :
          Proxy!EventHash(seq, type, data, prev) = EventHash(seq, type, data, prev)
  BY DEF Proxy!EventHash, EventHash
<1>2. Proxy!Verdicts = Verdicts
  BY DEF Proxy!Verdicts, Verdicts
<1>3. Proxy!Hash = Hash /\ Proxy!Event = Event /\ Proxy!Trace = Trace
  BY <1>2 DEF Proxy!Hash, Hash, Proxy!Event, Event, Proxy!Trace, Trace,
              Proxy!EventTypes, EventTypes, Proxy!RuntimeTypes, RuntimeTypes
<1>4. \A t, type, d : Proxy!Push(t, type, d) = Push(t, type, d)
  BY <1>1 DEF Proxy!Push, Push, Proxy!MakeEvent, MakeEvent, Proxy!LastHash, LastHash,
              Proxy!GenesisPrev, GenesisPrev
<1>5. \A t, type, d : Proxy!Appended(t, type, d) = Appended(t, type, d)
  BY <1>4 DEF Proxy!Appended, Appended, Proxy!WithCheckpoint, WithCheckpoint,
              Proxy!CheckpointDue, CheckpointDue
<1>6. \A t, d : Proxy!Finalized(t, d) = Finalized(t, d) /\ Proxy!Failed(t, d) = Failed(t, d)
  BY <1>5 DEF Proxy!Finalized, Finalized, Proxy!Failed, Failed
<1>7. \A es : Proxy!Verify(es) <=> Verify(es)
  BY <1>1 DEF Proxy!Verify, Verify, Proxy!LinkOK, LinkOK, Proxy!HashOK, HashOK,
              Proxy!GenesisPrev, GenesisPrev
<1> QED
  BY <1>2, <1>3, <1>5, <1>6, <1>7 DEF Proxy!NewTrace, NewTrace, Proxy!IsOpen, IsOpen

(* An event of the type about d is among es. *)
Has(es, type, d) == \E i \in 1..Len(es) : es[i].type = type /\ es[i].data = d

LEMMA RecordedHas ==
    ASSUME NEW es, NEW type, NEW d
    PROVE  d \in Proxy!Recorded(es, type) <=> Has(es, type, d)
BY DEF Proxy!Recorded, Proxy!Positions, Has

(* A trace that goes on from es: it holds all of es and still verifies.    *)
GoesOn(es, u) ==
    /\ u \in Trace
    /\ Verify(es) => Verify(u.events)
    /\ \A type, d : Has(es, type, d) => Has(u.events, type, d)

LEMMA GoesOnTwice ==
    ASSUME NEW es, NEW t, NEW u, GoesOn(es, t), GoesOn(t.events, u)
    PROVE  GoesOn(es, u)
BY DEF GoesOn

LEMMA LongerHas ==
    ASSUME NEW es, NEW fs, Len(es) \in Nat, Len(fs) \in Nat, Len(es) <= Len(fs),
           \A i \in 1..Len(es) : fs[i] = es[i], NEW type, NEW d, Has(es, type, d)
    PROVE  Has(fs, type, d)
BY DEF Has

LEMMA AppendedHas ==
    ASSUME NEW t \in Trace, NEW type \in EventTypes, NEW d \in Data
    PROVE  GoesOn(t.events, Appended(t, type, d)) /\ Has(Appended(t, type, d).events, type, d)
<1>1. PICK p : p = Push(t, type, d) /\ p \in Trace
  BY PushType
<1>2. /\ Len(p.events) = Len(t.events) + 1 /\ Len(t.events) \in Nat
      /\ p.events[Len(t.events) + 1] = MakeEvent(t, type, d)
  BY <1>1, PushEvents
<1>3. Has(p.events, type, d)
  BY <1>2 DEF Has, MakeEvent
<1>4. PICK u : u = Appended(t, type, d)
  OBVIOUS
<1>5. u \in Trace /\ (Verify(t.events) => Verify(u.events))
  BY <1>4, AppendedType, AppendVerifies
<1>6. /\ Len(u.events) \in Nat /\ Len(u.events) > Len(t.events)
      /\ \A i \in 1..Len(t.events) : u.events[i] = t.events[i]
  BY <1>4, AppendedEvents
<1>7. Has(u.events, type, d)
  <2>1. CASE u = p
    BY <1>3, <2>1
  <2>2. CASE u = WithCheckpoint(p)
    <3>1. /\ Len(p.events) \in Nat /\ Len(u.events) = Len(p.events) + 1
          /\ \A i \in 1..Len(p.events) : u.events[i] = p.events[i]
      BY <1>1, <2>2, WithCheckpointEvents
    <3> QED
      BY <1>3, <3>1, LongerHas
  <2> QED
    BY <1>1, <1>4, <2>1, <2>2 DEF Appended
<1>8. \A ty, x : Has(t.events, ty, x) => Has(u.events, ty, x)
  <2>1. Len(t.events) <= Len(u.events)
    BY <1>2, <1>6
  <2> QED
    BY <1>2, <1>6, <2>1, LongerHas
<1> QED
  BY <1>4, <1>5, <1>7, <1>8 DEF GoesOn

LEMMA SealedHas ==
    ASSUME NEW t \in Trace, NEW d \in Data
    PROVE  /\ GoesOn(t.events, Finalized(t, d)) /\ ~IsOpen(Finalized(t, d))
           /\ GoesOn(t.events, Failed(t, d)) /\ ~IsOpen(Failed(t, d))
<1>1. "TASK_RESULT" \in EventTypes /\ "TASK_FAILED" \in EventTypes
  BY DEF EventTypes, Verdicts
<1>2. /\ GoesOn(t.events, Appended(t, "TASK_RESULT", d))
      /\ GoesOn(t.events, Appended(t, "TASK_FAILED", d))
  BY <1>1, AppendedHas
<1>3. Finalized(t, d) \in Trace /\ Failed(t, d) \in Trace
  BY SealedType
<1> QED
  BY <1>2, <1>3, SealedEvents DEF GoesOn, IsOpen

-----------------------------------------------------------------------------
(* The part of the types the proof needs. *)
ProxyTyped ==
    /\ taskGateways \in [Tasks -> Proxy!Gateways \cup {None}]
    /\ traces \in [Proxy!Gateways -> Trace \cup {None}]
    /\ registered \subseteq Proxy!Gateways
    /\ state \in [ToolCalls -> Proxy!CallStates]
    /\ gatewayOf \in [ToolCalls -> Proxy!Gateways \cup {None}]
    /\ returned \in [Proxy!Gateways -> Seq(Event) \cup {None}]
    /\ proved \in [Tasks -> [from : Proxy!Gateways \cup {None}, events : Seq(Event)] \cup {None}]

(* A gateway in the map is of one task, and its trace not yet returned. *)
MapIsOpen ==
    \A t \in Tasks : taskGateways[t] # None =>
        /\ traces[taskGateways[t]] # None /\ returned[taskGateways[t]] = None
        /\ \A u \in Tasks : taskGateways[u] = taskGateways[t] => u = t

(* What was returned is the whole trace, to which nothing is added. *)
ReturnedIsSealed ==
    \A g \in Proxy!Gateways : returned[g] # None =>
        traces[g] # None /\ ~IsOpen(traces[g]) /\ returned[g] = traces[g].events

TracesVerify == \A g \in Proxy!Gateways : traces[g] # None => Verify(traces[g].events)

Traced(c, g) ==
    /\ traces[g] # None
    /\ Has(traces[g].events, "TOOL_CALL", c)
    /\ state[c] = "answered" => Has(traces[g].events, "TOOL_RESULT", c)

CallsTraced ==
    \A c \in ToolCalls :
        /\ state[c] = "new" => gatewayOf[c] = None
        /\ state[c] = "running" => gatewayOf[c] # None
        /\ gatewayOf[c] # None => Traced(c, gatewayOf[c])

ProvedIsSound ==
    \A t \in Tasks : proved[t] # None =>
        /\ Verify(proved[t].events)
        /\ proved[t].from # None =>
               /\ returned[proved[t].from] # None
               /\ \A d : Has(returned[proved[t].from], "TOOL_RESULT", d) =>
                         Has(proved[t].events, "TOOL_RESULT", d)

ProxyInv == ProxyTyped /\ MapIsOpen /\ ReturnedIsSealed /\ TracesVerify /\ CallsTraced /\ ProvedIsSound

LEMMA ProxyNothing ==
    /\ None \notin Proxy!Gateways /\ None \notin Trace /\ None \notin Seq(Event)
    /\ None \notin [from : Proxy!Gateways \cup {None}, events : Seq(Event)]
    /\ CheckpointInterval \in Nat
BY AgentTaskAssumption

LEMMA ProxyInit == Proxy!Init => ProxyInv
BY ProxyNothing DEF Proxy!Init, ProxyInv, ProxyTyped, MapIsOpen, ReturnedIsSealed, TracesVerify,
   CallsTraced, ProvedIsSound, Proxy!CallStates

(* One trace begins, or goes on; what was returned stays. *)
LEMMA TraceGoesOn ==
    ASSUME ProxyInv, NEW g \in Proxy!Gateways, NEW u, u \in Trace,
           traces[g] # None => GoesOn(traces[g].events, u),
           traces[g] = None => Verify(u.events),
           traces' = [traces EXCEPT ![g] = u]
    PROVE  /\ traces' \in [Proxy!Gateways -> Trace \cup {None}] /\ TracesVerify'
           /\ traces'[g] = u /\ \A h \in Proxy!Gateways \ {g} : traces'[h] = traces[h]
           /\ \A h \in Proxy!Gateways : traces[h] # None =>
                  /\ traces'[h] # None
                  /\ \A type, d : Has(traces[h].events, type, d) => Has(traces'[h].events, type, d)
<1>1. /\ traces' \in [Proxy!Gateways -> Trace \cup {None}]
      /\ traces'[g] = u /\ \A h \in Proxy!Gateways \ {g} : traces'[h] = traces[h]
  BY DEF ProxyInv, ProxyTyped
<1>2. TracesVerify'
  <2> SUFFICES ASSUME NEW h \in Proxy!Gateways, traces'[h] # None PROVE Verify(traces'[h].events)
    BY DEF TracesVerify
  <2>1. CASE h = g
    BY <1>1, <2>1 DEF ProxyInv, TracesVerify, GoesOn
  <2>2. CASE h # g
    BY <1>1, <2>2 DEF ProxyInv, TracesVerify
  <2> QED
    BY <2>1, <2>2
<1>3. u # None
  BY ProxyNothing
<1> QED
  BY <1>1, <1>2, <1>3 DEF GoesOn

LEMMA ProxyInitTask ==
    ASSUME ProxyInv, NEW t \in Tasks, NEW g \in Proxy!Gateways, Proxy!InitTask(t, g)
    PROVE  ProxyInv'
<1>1. PICK u : u = NewTrace(CheckpointInterval) /\ u \in Trace
  BY NewTraceType
<1>2. Verify(u.events) /\ IsOpen(u)
  BY <1>1 DEF Verify, NewTrace, IsOpen
<1>3. traces' = [traces EXCEPT ![g] = u] /\ traces[g] = None
  BY <1>1, SameTraces DEF Proxy!InitTask
<1>4. /\ traces' \in [Proxy!Gateways -> Trace \cup {None}] /\ TracesVerify'
      /\ traces'[g] = u /\ \A h \in Proxy!Gateways \ {g} : traces'[h] = traces[h]
  BY <1>1, <1>2, <1>3, TraceGoesOn
<1>5. /\ taskGateways' = [taskGateways EXCEPT ![t] = g]
      /\ UNCHANGED <<registered, state, gatewayOf, returned, proved>>
  BY DEF Proxy!InitTask, Proxy!callVars
<1>6. ProxyTyped'
  BY <1>4, <1>5 DEF ProxyInv, ProxyTyped
<1>7. returned[g] = None /\ u # None
  BY <1>1, <1>3, ProxyNothing DEF ProxyInv, ReturnedIsSealed
<1>8. MapIsOpen'
  <2>1. \A v \in Tasks : taskGateways'[v] = IF v = t THEN g ELSE taskGateways[v]
    BY <1>5 DEF ProxyInv, ProxyTyped
  <2>2. \A v \in Tasks : taskGateways[v] # g
    BY <1>3, ProxyNothing DEF ProxyInv, MapIsOpen
  <2>3. \A v \in Tasks : taskGateways[v] \in Proxy!Gateways \cup {None}
    BY DEF ProxyInv, ProxyTyped
  <2> QED
    BY <1>4, <1>5, <1>7, <2>1, <2>2, <2>3 DEF ProxyInv, MapIsOpen
<1>9. ReturnedIsSealed'
  BY <1>4, <1>5, <1>7 DEF ProxyInv, ReturnedIsSealed
<1>10. CallsTraced'
  BY <1>3, <1>4, <1>5 DEF ProxyInv, ProxyTyped, CallsTraced, Traced
<1>11. ProvedIsSound'
  BY <1>5 DEF ProxyInv, ProvedIsSound
<1> QED
  BY <1>4, <1>6, <1>8, <1>9, <1>10, <1>11 DEF ProxyInv

(* A call that starts or is answered leaves an event in an open trace.     *)
LEMMA ProxyTraces ==
    ASSUME ProxyInv, NEW c \in ToolCalls, NEW g \in Proxy!Gateways, NEW now, NEW type,
           \/ type = "TOOL_CALL" /\ now = "running" /\ state[c] = "new"
           \/ type = "TOOL_RESULT" /\ now = "answered" /\ state[c] = "running" /\ gatewayOf[c] = g,
           traces[g] # None, returned[g] = None,
           traces' = [traces EXCEPT ![g] = Appended(traces[g], type, c)],
           state' = [state EXCEPT ![c] = now], gatewayOf' = [gatewayOf EXCEPT ![c] = g],
           UNCHANGED <<taskGateways, registered, returned, proved>>
    PROVE  ProxyInv'
<1>1. c \in Data /\ type \in EventTypes
  BY AgentTaskAssumption DEF EventTypes
<1>2. PICK u : u = Appended(traces[g], type, c)
  OBVIOUS
<1>3. traces[g] \in Trace
  BY DEF ProxyInv, ProxyTyped
<1>4. GoesOn(traces[g].events, u) /\ Has(u.events, type, c)
  BY <1>1, <1>2, <1>3, AppendedHas
<1>5. /\ traces' \in [Proxy!Gateways -> Trace \cup {None}] /\ TracesVerify'
      /\ traces'[g] = u /\ \A h \in Proxy!Gateways \ {g} : traces'[h] = traces[h]
      /\ \A h \in Proxy!Gateways : traces[h] # None =>
             /\ traces'[h] # None
             /\ \A ty, d : Has(traces[h].events, ty, d) => Has(traces'[h].events, ty, d)
  BY <1>2, <1>4, TraceGoesOn DEF GoesOn
<1>6. ProxyTyped'
  BY <1>5 DEF ProxyInv, ProxyTyped, Proxy!CallStates
<1>7. MapIsOpen'
  BY <1>5 DEF ProxyInv, ProxyTyped, MapIsOpen
<1>8. ReturnedIsSealed'
  BY <1>5 DEF ProxyInv, ReturnedIsSealed
<1>9. /\ state'[c] = now /\ gatewayOf'[c] = g
      /\ \A d \in ToolCalls \ {c} : state'[d] = state[d] /\ gatewayOf'[d] = gatewayOf[d]
      /\ \A d \in ToolCalls : gatewayOf[d] \in Proxy!Gateways \cup {None}
  BY DEF ProxyInv, ProxyTyped
<1>10. CallsTraced'
  <2>1. Traced(c, g)'
    <3>1. traces'[g] # None /\ Has(traces'[g].events, type, c)
      BY <1>4, <1>5
    <3>2. type = "TOOL_RESULT" => Has(traces'[g].events, "TOOL_CALL", c)
      BY <1>5, ProxyNothing DEF ProxyInv, CallsTraced, Traced
    <3> QED
      BY <1>9, <3>1, <3>2 DEF Traced
  <2>2. \A d \in ToolCalls \ {c} : gatewayOf[d] # None => Traced(d, gatewayOf[d])'
    BY <1>5, <1>9 DEF ProxyInv, CallsTraced, Traced
  <2>3. g # None
    BY ProxyNothing
  <2> QED
    BY <1>9, <2>1, <2>2, <2>3 DEF ProxyInv, CallsTraced
<1>11. ProvedIsSound'
  BY DEF ProxyInv, ProvedIsSound
<1> QED
  BY <1>5, <1>6, <1>7, <1>8, <1>10, <1>11 DEF ProxyInv

LEMMA ProxyFinalize ==
    ASSUME ProxyInv, NEW t \in Tasks, NEW verdict \in Proxy!Verdicts, Proxy!Finalize(t, verdict)
    PROVE  ProxyInv'
<1>1. PICK g : g = taskGateways[t]
  OBVIOUS
<1>2. /\ g \in Proxy!Gateways /\ g # None /\ traces[g] # None /\ returned[g] = None
      /\ \A u \in Tasks : taskGateways[u] = g => u = t
  BY <1>1 DEF Proxy!Finalize, ProxyInv, ProxyTyped, MapIsOpen
<1>3. traces[g] \in Trace /\ Plain \in Data
  BY <1>2, VocabularyType DEF ProxyInv, ProxyTyped
<1>4. PICK u : u = Proxy!Sealed(traces[g], verdict, Plain)
  OBVIOUS
<1>5. GoesOn(traces[g].events, u) /\ ~IsOpen(u)
  BY <1>3, <1>4, SealedHas, SameTraces DEF Proxy!Sealed
<1>6. /\ traces' = [traces EXCEPT ![g] = u]
      /\ returned' = [returned EXCEPT ![g] = traces'[g].events]
      /\ taskGateways' = [taskGateways EXCEPT ![t] = None]
      /\ UNCHANGED <<registered, state, gatewayOf, proved>>
  BY <1>1, <1>4 DEF Proxy!Finalize, Proxy!callVars
<1>7. /\ traces' \in [Proxy!Gateways -> Trace \cup {None}] /\ TracesVerify'
      /\ traces'[g] = u /\ \A h \in Proxy!Gateways \ {g} : traces'[h] = traces[h]
      /\ \A h \in Proxy!Gateways : traces[h] # None =>
             /\ traces'[h] # None
             /\ \A ty, d : Has(traces[h].events, ty, d) => Has(traces'[h].events, ty, d)
  BY <1>2, <1>5, <1>6, TraceGoesOn DEF GoesOn
<1>8. u \in Trace /\ u.events \in Seq(Event) /\ u.events # None
  BY <1>5, ProxyNothing DEF GoesOn, Trace
<1>9. /\ returned' \in [Proxy!Gateways -> Seq(Event) \cup {None}]
      /\ returned'[g] = u.events
      /\ \A h \in Proxy!Gateways \ {g} : returned'[h] = returned[h]
  BY <1>2, <1>6, <1>7, <1>8 DEF ProxyInv, ProxyTyped
<1>10. ProxyTyped'
  BY <1>6, <1>7, <1>9 DEF ProxyInv, ProxyTyped
<1>11. MapIsOpen'
  <2>1. \A v \in Tasks : taskGateways'[v] = IF v = t THEN None ELSE taskGateways[v]
    BY <1>6 DEF ProxyInv, ProxyTyped
  <2>2. \A v \in Tasks : taskGateways[v] \in Proxy!Gateways \cup {None}
    BY DEF ProxyInv, ProxyTyped
  <2>3. \A v \in Tasks \ {t} : taskGateways[v] # g
    BY <1>2
  <2> QED
    BY <1>7, <1>9, <2>1, <2>2, <2>3 DEF ProxyInv, MapIsOpen
<1>12. ReturnedIsSealed'
  <2>1. u # None
    BY <1>8, ProxyNothing
  <2>2. traces'[g] # None /\ ~IsOpen(traces'[g]) /\ returned'[g] = traces'[g].events
    BY <1>5, <1>7, <1>9, <2>1
  <2>3. \A h \in Proxy!Gateways \ {g} : returned'[h] # None =>
            traces'[h] # None /\ ~IsOpen(traces'[h]) /\ returned'[h] = traces'[h].events
    BY <1>7, <1>9 DEF ProxyInv, ReturnedIsSealed
  <2>4. \A h \in Proxy!Gateways : returned'[h] # None =>
            traces'[h] # None /\ ~IsOpen(traces'[h]) /\ returned'[h] = traces'[h].events
    BY <2>2, <2>3
  <2> QED
    BY <2>4 DEF ReturnedIsSealed, IsOpen
<1>13. CallsTraced'
  <2>1. ASSUME NEW c \in ToolCalls, gatewayOf[c] # None PROVE Traced(c, gatewayOf[c])'
    <3>1. PICK h : h = gatewayOf[c] /\ h \in Proxy!Gateways
      BY <2>1 DEF ProxyInv, ProxyTyped
    <3>2. Traced(c, h)
      BY <2>1, <3>1 DEF ProxyInv, CallsTraced
    <3>3. Traced(c, h)'
      BY <1>6, <1>7, <3>1, <3>2 DEF Traced
    <3> QED
      BY <1>6, <3>1, <3>3 DEF Traced
  <2> QED
    BY <1>6, <2>1 DEF ProxyInv, CallsTraced
<1>14. ProvedIsSound'
  <2> SUFFICES ASSUME NEW s \in Tasks, proved[s] # None
               PROVE  /\ Verify(proved[s].events)
                      /\ proved[s].from # None =>
                             /\ returned'[proved[s].from] # None
                             /\ \A d : Has(returned'[proved[s].from], "TOOL_RESULT", d) =>
                                       Has(proved[s].events, "TOOL_RESULT", d)
    BY <1>6 DEF ProvedIsSound
  <2>1. proved[s].from \in Proxy!Gateways \cup {None}
    BY DEF ProxyInv, ProxyTyped
  <2>2. proved[s].from # g
    BY <1>2 DEF ProxyInv, ProvedIsSound
  <2> QED
    BY <1>9, <2>1, <2>2 DEF ProxyInv, ProvedIsSound
<1> QED
  BY <1>7, <1>10, <1>11, <1>12, <1>13, <1>14 DEF ProxyInv

(* What the runtime makes of a trace, its own or a copy, goes on from it.  *)
LEMMA ConcludedGoesOn ==
    ASSUME NEW t \in Trace, NEW success \in BOOLEAN
    PROVE  GoesOn(t.events, Proxy!Concluded(t, success))
<1>1. Plain \in Data /\ {"OUTPUT_AUDIT", "TASK_FAILED", "ROLLBACK"} \subseteq EventTypes
  BY VocabularyType DEF EventTypes, RuntimeTypes, Verdicts
<1>2. CASE success
  <2>1. PICK u : u = Appended(t, "OUTPUT_AUDIT", Plain)
    OBVIOUS
  <2>2. GoesOn(t.events, u) /\ u \in Trace
    BY <1>1, <2>1, AppendedHas DEF GoesOn
  <2>3. GoesOn(u.events, Finalized(u, Plain))
    BY <1>1, <2>2, SealedHas
  <2> QED
    BY <1>2, <2>1, <2>2, <2>3, GoesOnTwice, SameTraces DEF Proxy!Concluded
<1>3. CASE ~success
  <2>1. PICK u, v : u = Appended(t, "TASK_FAILED", Plain) /\ v = Appended(u, "ROLLBACK", Plain)
    OBVIOUS
  <2>2. GoesOn(t.events, u) /\ u \in Trace
    BY <1>1, <2>1, AppendedHas DEF GoesOn
  <2>3. GoesOn(u.events, v) /\ v \in Trace
    BY <1>1, <2>1, <2>2, AppendedHas DEF GoesOn
  <2>4. GoesOn(v.events, Failed(v, Plain))
    BY <1>1, <2>3, SealedHas
  <2> QED
    BY <1>3, <2>1, <2>2, <2>3, <2>4, GoesOnTwice, SameTraces DEF Proxy!Concluded
<1> QED
  BY <1>2, <1>3

LEMMA FallbackVerifies == Proxy!Fallback \in Trace /\ Verify(Proxy!Fallback.events)
<1>1. Plain \in Data /\ {"TASK_RECEIVED", "POLICY_CHECK", "CAPABILITY_CHECK", "CONTENT_AUDIT",
                         "TASK_FORWARDED", "EXECUTOR_RESULT"} \subseteq EventTypes
  BY VocabularyType DEF EventTypes, RuntimeTypes
<1>2. PICK n : n = NewTrace(CheckpointInterval) /\ n \in Trace
  BY NewTraceType
<1>3. Verify(n.events)
  BY <1>2 DEF Verify, NewTrace
<1>4. PICK a : a = Appended(n, "TASK_RECEIVED", Plain)
  OBVIOUS
<1>5. PICK b : b = Appended(a, "POLICY_CHECK", Plain)
  OBVIOUS
<1>6. PICK c : c = Appended(b, "CAPABILITY_CHECK", Plain)
  OBVIOUS
<1>7. PICK d : d = Appended(c, "CONTENT_AUDIT", Plain)
  OBVIOUS
<1>8. PICK e : e = Appended(d, "TASK_FORWARDED", Plain)
  OBVIOUS
<1>9. PICK f : f = Appended(e, "EXECUTOR_RESULT", Plain)
  OBVIOUS
<1>10. a \in Trace /\ Verify(a.events)
  BY <1>1, <1>2, <1>3, <1>4, AppendedType, AppendVerifies
<1>11. b \in Trace /\ Verify(b.events)
  BY <1>1, <1>5, <1>10, AppendedType, AppendVerifies
<1>12. c \in Trace /\ Verify(c.events)
  BY <1>1, <1>6, <1>11, AppendedType, AppendVerifies
<1>13. d \in Trace /\ Verify(d.events)
  BY <1>1, <1>7, <1>12, AppendedType, AppendVerifies
<1>14. e \in Trace /\ Verify(e.events)
  BY <1>1, <1>8, <1>13, AppendedType, AppendVerifies
<1>15. f \in Trace /\ Verify(f.events)
  BY <1>1, <1>9, <1>14, AppendedType, AppendVerifies
<1>16. Proxy!Fallback = f
  BY <1>2, <1>4, <1>5, <1>6, <1>7, <1>8, <1>9, SameTraces DEF Proxy!Fallback
<1> QED
  BY <1>15, <1>16

LEMMA ProxyPost ==
    ASSUME ProxyInv, NEW t \in Tasks, NEW g \in Proxy!Gateways \cup {None}, NEW success \in BOOLEAN,
           Proxy!PostResult(t, g, success)
    PROVE  ProxyInv'
<1>1. PICK s : s = IF g = None THEN Proxy!Fallback ELSE Proxy!Copied(returned[g])
  OBVIOUS
<1>2. g # None => /\ returned[g] # None /\ returned[g] \in Seq(Event) /\ Verify(returned[g])
                  /\ s \in Trace /\ s.events = returned[g]
  <2> SUFFICES ASSUME g # None
               PROVE  /\ returned[g] # None /\ returned[g] \in Seq(Event) /\ Verify(returned[g])
                      /\ s \in Trace /\ s.events = returned[g]
    OBVIOUS
  <2>1. returned[g] # None /\ returned[g] \in Seq(Event)
    BY DEF Proxy!PostResult, ProxyInv, ProxyTyped
  <2>2. Verify(returned[g])
    BY <2>1 DEF ProxyInv, ReturnedIsSealed, TracesVerify
  <2>3. s = [NewTrace(CheckpointInterval) EXCEPT !.events = returned[g]]
    BY <1>1, SameTraces DEF Proxy!Copied
  <2>4. s \in Trace /\ s.events = returned[g]
    BY <2>1, <2>3, NewTraceType DEF Trace
  <2> QED
    BY <2>1, <2>2, <2>4
<1>3. s \in Trace /\ Verify(s.events)
  BY <1>1, <1>2, FallbackVerifies
<1>4. PICK u : u = Proxy!Concluded(s, success)
  OBVIOUS
<1>5. GoesOn(s.events, u)
  BY <1>3, <1>4, ConcludedGoesOn
<1>6. PICK p : p = [from |-> g, events |-> u.events]
  OBVIOUS
<1>7. /\ proved' = [proved EXCEPT ![t] = p]
      /\ UNCHANGED <<taskGateways, traces, registered, state, gatewayOf, returned>>
  BY <1>1, <1>4, <1>6 DEF Proxy!PostResult, Proxy!gatewayVars, Proxy!callVars
<1>8. p \in [from : Proxy!Gateways \cup {None}, events : Seq(Event)]
  BY <1>5, <1>6 DEF GoesOn, Trace
<1>9. /\ Verify(p.events)
      /\ p.from # None => /\ returned[p.from] # None
                          /\ \A d : Has(returned[p.from], "TOOL_RESULT", d) =>
                                    Has(p.events, "TOOL_RESULT", d)
  BY <1>2, <1>3, <1>5, <1>6 DEF GoesOn
<1>10. ProxyTyped'
  BY <1>7, <1>8 DEF ProxyInv, ProxyTyped
<1>11. ProvedIsSound'
  <2>1. proved'[t] = p /\ \A v \in Tasks \ {t} : proved'[v] = proved[v]
    BY <1>7 DEF ProxyInv, ProxyTyped
  <2> QED
    BY <1>7, <1>9, <2>1 DEF ProxyInv, ProvedIsSound
<1>12. MapIsOpen' /\ ReturnedIsSealed' /\ TracesVerify' /\ CallsTraced'
  BY <1>7 DEF ProxyInv, MapIsOpen, ReturnedIsSealed, TracesVerify, CallsTraced, Traced
<1> QED
  BY <1>10, <1>11, <1>12 DEF ProxyInv

LEMMA ProxyRestart == ASSUME ProxyInv, Proxy!Restart PROVE ProxyInv'
<1>1. /\ taskGateways' = [t \in Tasks |-> None]
      /\ state' = [c \in ToolCalls |-> IF state[c] = "running" THEN "cut" ELSE state[c]]
      /\ UNCHANGED <<traces, registered, gatewayOf, returned, proved>>
  BY DEF Proxy!Restart
<1>2. ProxyTyped'
  BY <1>1 DEF ProxyInv, ProxyTyped, Proxy!CallStates
<1>3. MapIsOpen' /\ ReturnedIsSealed' /\ TracesVerify' /\ ProvedIsSound'
  BY <1>1 DEF ProxyInv, MapIsOpen, ReturnedIsSealed, TracesVerify, ProvedIsSound
<1>4. CallsTraced'
  BY <1>1 DEF ProxyInv, CallsTraced, Traced
<1> QED
  BY <1>2, <1>3, <1>4 DEF ProxyInv

LEMMA ProxyNext == ProxyInv /\ [Proxy!Next]_(Proxy!vars) => ProxyInv'
<1> SUFFICES ASSUME ProxyInv, [Proxy!Next]_(Proxy!vars) PROVE ProxyInv'
  OBVIOUS
<1>1. ASSUME NEW t \in Tasks, NEW g \in Proxy!Gateways, Proxy!InitTask(t, g) PROVE ProxyInv'
  BY <1>1, ProxyInitTask
<1>2. ASSUME NEW t \in Tasks, Proxy!Register(t) PROVE ProxyInv'
  <2>1. /\ registered' \subseteq Proxy!Gateways
        /\ UNCHANGED <<taskGateways, traces, state, gatewayOf, returned, proved>>
    BY <1>2 DEF Proxy!Register, Proxy!callVars, ProxyInv, ProxyTyped
  <2> QED
    BY <2>1 DEF ProxyInv, ProxyTyped, MapIsOpen, ReturnedIsSealed, TracesVerify,
                CallsTraced, Traced, ProvedIsSound
<1>3. ASSUME NEW c \in ToolCalls, Proxy!CallFails(c) \/ Proxy!CallLate(c) PROVE ProxyInv'
  <2>1. /\ state' = [state EXCEPT ![c] = "failed"]
        /\ UNCHANGED <<taskGateways, traces, registered, gatewayOf, returned, proved>>
    BY <1>3 DEF Proxy!CallFails, Proxy!CallLate, Proxy!gatewayVars
  <2>2. /\ state' \in [ToolCalls -> Proxy!CallStates] /\ state'[c] = "failed"
        /\ \A d \in ToolCalls \ {c} : state'[d] = state[d]
    BY <2>1 DEF ProxyInv, ProxyTyped, Proxy!CallStates
  <2>3. ProxyTyped' /\ MapIsOpen' /\ ReturnedIsSealed' /\ TracesVerify' /\ ProvedIsSound'
    BY <2>1, <2>2 DEF ProxyInv, ProxyTyped, MapIsOpen, ReturnedIsSealed, TracesVerify, ProvedIsSound
  <2>4. CallsTraced'
    BY <2>1, <2>2 DEF ProxyInv, CallsTraced, Traced
  <2> QED
    BY <2>3, <2>4 DEF ProxyInv
<1>4. ASSUME NEW t \in Tasks, NEW c \in ToolCalls, Proxy!CallStarts(t, c) PROVE ProxyInv'
  <2>1. PICK g : g = taskGateways[t]
    OBVIOUS
  <2>2. /\ state[c] = "new" /\ g \in registered
        /\ state' = [state EXCEPT ![c] = "running"] /\ gatewayOf' = [gatewayOf EXCEPT ![c] = g]
        /\ traces' = [traces EXCEPT ![g] = Appended(traces[g], "TOOL_CALL", c)]
        /\ UNCHANGED <<taskGateways, registered, returned, proved>>
    BY <1>4, <2>1, SameTraces DEF Proxy!CallStarts
  <2>3. g \in Proxy!Gateways /\ traces[g] # None /\ returned[g] = None
    BY <2>1, <2>2, ProxyNothing DEF ProxyInv, ProxyTyped, MapIsOpen
  <2> QED
    BY <2>2, <2>3, ProxyTraces
<1>5. ASSUME NEW c \in ToolCalls, Proxy!CallAnswered(c) PROVE ProxyInv'
  <2>1. PICK g : g = gatewayOf[c]
    OBVIOUS
  <2>2. /\ state[c] = "running" /\ IsOpen(traces[g])
        /\ state' = [state EXCEPT ![c] = "answered"]
        /\ traces' = [traces EXCEPT ![g] = Appended(traces[g], "TOOL_RESULT", c)]
        /\ UNCHANGED <<taskGateways, registered, gatewayOf, returned, proved>>
    BY <1>5, <2>1, SameTraces DEF Proxy!CallAnswered
  <2>3. g \in Proxy!Gateways /\ traces[g] # None /\ returned[g] = None
        /\ gatewayOf' = [gatewayOf EXCEPT ![c] = g]
    BY <2>1, <2>2 DEF ProxyInv, ProxyTyped, CallsTraced, Traced, ReturnedIsSealed
  <2> QED
    BY <2>1, <2>2, <2>3, ProxyTraces
<1>6. ASSUME NEW t \in Tasks, NEW verdict \in Proxy!Verdicts, Proxy!Finalize(t, verdict)
      PROVE  ProxyInv'
  BY <1>6, ProxyFinalize
<1>7. ASSUME NEW t \in Tasks, NEW g \in Proxy!Gateways \cup {None}, NEW success \in BOOLEAN,
             Proxy!PostResult(t, g, success)
      PROVE  ProxyInv'
  BY <1>7, ProxyPost
<1>8. CASE Proxy!Restart
  BY <1>8, ProxyRestart
<1>9. CASE UNCHANGED Proxy!vars
  BY <1>9 DEF Proxy!vars, Proxy!gatewayVars, Proxy!callVars, ProxyInv, ProxyTyped, MapIsOpen,
              ReturnedIsSealed, TracesVerify, CallsTraced, Traced, ProvedIsSound
<1> QED
  BY <1>1, <1>2, <1>3, <1>4, <1>5, <1>6, <1>7, <1>8, <1>9 DEF Proxy!Next, Proxy!CallSettles

(* The trace an executor is given has every call that ran on its gateway   *)
(* and every result its caller was answered with, however calls overlap,   *)
(* outlive the gateway or are cut off; and what the runtime proves is a    *)
(* chain with every result of that trace (atel.mjs:4176-4218, 6318-6378).  *)
THEOREM ReturnsAreComplete == Proxy!Spec => []ReturnedIsComplete
<1>1. ProxyInv => ReturnedIsComplete
  <2> SUFFICES ASSUME ProxyInv PROVE ReturnedIsComplete
    OBVIOUS
  <2>1. ASSUME NEW g \in Proxy!Gateways, returned[g] # None PROVE Proxy!Complete(g)
    BY <2>1, RecordedHas, ProxyNothing
       DEF ProxyInv, ReturnedIsSealed, CallsTraced, Traced, Proxy!Complete
  <2>2. ASSUME NEW t \in Tasks, proved[t] # None
        PROVE  /\ Proxy!Verify(proved[t].events)
               /\ proved[t].from # None =>
                      Proxy!Recorded(returned[proved[t].from], "TOOL_RESULT")
                          \subseteq Proxy!Recorded(proved[t].events, "TOOL_RESULT")
    BY <2>2, RecordedHas, SameTraces DEF ProxyInv, ProvedIsSound
  <2> QED
    BY <2>1, <2>2 DEF ReturnedIsComplete, Proxy!ReturnedIsComplete
<1> QED
  BY <1>1, ProxyInit, ProxyNext, PTL DEF Proxy!Spec
=============================================================================
