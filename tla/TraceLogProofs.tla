--------------------------- MODULE TraceLogProofs ---------------------------
(***************************************************************************)
(* What the operations of TraceLog keep of a trace, for every interval and *)
(* every kind of data: its type, what it held before, and its hash chain.  *)
(***************************************************************************)
EXTENDS TraceLog, SequenceTheorems, WellFoundedInduction, TLAPS

USE SummaryAssumption

(* A set of numbers has a least one. *)
LEMMA LeastExists ==
  ASSUME NEW T, T \subseteq Nat, T # {}
  PROVE  \E x \in T : \A y \in T : x <= y
<1>1. IsWellFoundedOn({ss \in Nat \X Nat : ss[1] < ss[2]}, Nat)
  BY NatLessThanWellFounded DEF OpToRel
<1>2. PICK x \in T : \A y \in T : ~ (<<y, x>> \in {ss \in Nat \X Nat : ss[1] < ss[2]})
  BY <1>1, WFMin, Zenon
<1>3. \A y \in T : ~ (y < x)
  BY <1>2
<1> QED
  BY <1>3

LEMMA ElementType ==
    ASSUME NEW es \in Seq(Event), NEW i \in 1..Len(es)
    PROVE  es[i] \in Event
BY ElementOfSeq

LEMMA LastHashType ==
    ASSUME NEW es \in Seq(Event)
    PROVE  LastHash(es) \in Hash
<1>1. CASE es = <<>>
  BY <1>1, EmptySeq DEF LastHash, GenesisPrev, Hash
<1>2. CASE es # <<>>
  <2>1. Len(es) \in 1..Len(es)
    BY <1>2, EmptySeq
  <2>2. es[Len(es)] \in Event
    BY <2>1, ElementType
  <2>3. QED
    BY <1>2, <2>2 DEF LastHash, Event
<1>3. QED
  BY <1>1, <1>2

LEMMA EventHashType ==
    ASSUME NEW seq \in Nat, NEW type \in EventTypes, NEW data \in Data, NEW prev \in Hash
    PROVE  EventHash(seq, type, data, prev) \in Hash
<1>1. <<seq, type, data>> \in Nat \X EventTypes \X Data
  OBVIOUS
<1>2. QED
  BY <1>1, AppendProperties DEF EventHash, Hash

LEMMA MakeEventType ==
    ASSUME NEW t \in Trace, NEW type \in EventTypes, NEW data \in Data
    PROVE  MakeEvent(t, type, data) \in Event
<1>1. t.events \in Seq(Event) /\ t.seq \in Nat
  BY DEF Trace
<1>2. LastHash(t.events) \in Hash
  BY <1>1, LastHashType
<1>3. EventHash(t.seq, type, data, LastHash(t.events)) \in Hash
  BY <1>1, <1>2, EventHashType
<1>4. QED
  BY <1>1, <1>2, <1>3 DEF MakeEvent, Event

LEMMA PushType ==
    ASSUME NEW t \in Trace, NEW type \in EventTypes, NEW data \in Data
    PROVE  Push(t, type, data) \in Trace
<1>1. MakeEvent(t, type, data) \in Event
  BY MakeEventType
<1>2. Append(t.events, MakeEvent(t, type, data)) \in Seq(Event)
  BY <1>1, AppendProperties DEF Trace
<1>3. t.seq + 1 \in Nat /\ t.since + 1 \in Nat
  BY DEF Trace
<1>4. QED
  BY <1>2, <1>3 DEF Push, Trace

LEMMA WithCheckpointType ==
    ASSUME NEW t \in Trace
    PROVE  WithCheckpoint(t) \in Trace
<1>1. "CHECKPOINT" \in EventTypes
  BY DEF EventTypes
<1>2. Push(t, "CHECKPOINT", Summary) \in Trace
  BY <1>1, PushType
<1>3. QED
  BY <1>2 DEF WithCheckpoint, Trace

(* append leaves a trace of its type. *)
LEMMA AppendedType ==
    ASSUME NEW t \in Trace, NEW type \in EventTypes, NEW data \in Data
    PROVE  Appended(t, type, data) \in Trace
BY PushType, WithCheckpointType DEF Appended

LEMMA SealedType ==
    ASSUME NEW t \in Trace, NEW data \in Data
    PROVE  Finalized(t, data) \in Trace /\ Failed(t, data) \in Trace
<1>1. "TASK_RESULT" \in EventTypes /\ "TASK_FAILED" \in EventTypes
  BY DEF EventTypes, Verdicts
<1>2. Appended(t, "TASK_RESULT", data) \in Trace /\ Appended(t, "TASK_FAILED", data) \in Trace
  BY <1>1, AppendedType
<1>3. QED
  BY <1>2 DEF Finalized, Failed, Trace

-----------------------------------------------------------------------------
(* The event a push adds, and nothing else about the events. *)
LEMMA PushEvents ==
    ASSUME NEW t \in Trace, NEW type \in EventTypes, NEW data \in Data
    PROVE  LET es == t.events  fs == Push(t, type, data).events
           IN  /\ Len(fs) = Len(es) + 1
               /\ \A i \in 1..Len(es) : fs[i] = es[i]
               /\ fs[Len(es) + 1] = MakeEvent(t, type, data)
               /\ Len(es) \in Nat
<1>1. MakeEvent(t, type, data) \in Event /\ t.events \in Seq(Event)
  BY MakeEventType DEF Trace
<1>2. Push(t, type, data).events = Append(t.events, MakeEvent(t, type, data))
  BY DEF Push, Trace
<1>3. QED
  BY <1>1, <1>2, AppendProperties, LenProperties

(* A chain that verifies still verifies with one more event. *)
LEMMA PushVerifies ==
    ASSUME NEW t \in Trace, NEW type \in EventTypes, NEW data \in Data, Verify(t.events)
    PROVE  Verify(Push(t, type, data).events)
<1> DEFINE es == t.events
           fs == Push(t, type, data).events
           e  == MakeEvent(t, type, data)
<1>1. /\ Len(fs) = Len(es) + 1
      /\ \A i \in 1..Len(es) : fs[i] = es[i]
      /\ fs[Len(es) + 1] = e
      /\ Len(es) \in Nat
  BY PushEvents
<1>2. ASSUME NEW i \in 1..Len(es) PROVE LinkOK(fs, i) /\ HashOK(fs[i])
  <2>1. LinkOK(es, i) /\ HashOK(es[i]) /\ fs[i] = es[i]
    BY <1>1, <1>2 DEF Verify
  <2>2. i # 1 => fs[i - 1] = es[i - 1]
    BY <1>1, <1>2
  <2>3. QED
    BY <2>1, <2>2 DEF LinkOK
<1>3. HashOK(e)
  BY DEF HashOK, MakeEvent
<1>4. LinkOK(fs, Len(es) + 1)
  <2>1. e.prev = LastHash(es)
    BY DEF MakeEvent
  <2>2. es \in Seq(Event)
    BY DEF Trace
  <2>3. LastHash(es) = IF Len(es) + 1 = 1 THEN GenesisPrev ELSE fs[Len(es) + 1 - 1].hash
    BY <1>1, <2>2, EmptySeq DEF LastHash
  <2>4. QED
    BY <1>1, <2>1, <2>3 DEF LinkOK
<1>5. \A i \in 1..Len(fs) : i \in 1..Len(es) \/ i = Len(es) + 1
  BY <1>1
<1>6. QED
  BY <1>1, <1>2, <1>3, <1>4, <1>5 DEF Verify

LEMMA WithCheckpointVerifies ==
    ASSUME NEW t \in Trace, Verify(t.events)
    PROVE  Verify(WithCheckpoint(t).events)
<1>1. "CHECKPOINT" \in EventTypes
  BY DEF EventTypes
<1>2. Push(t, "CHECKPOINT", Summary) \in Trace
  BY <1>1, PushType
<1>3. WithCheckpoint(t).events = Push(t, "CHECKPOINT", Summary).events
  BY <1>2 DEF WithCheckpoint, Trace
<1>4. QED
  BY <1>1, <1>3, PushVerifies

(* append keeps the hash chain of a trace, with the checkpoint it may add. *)
THEOREM AppendVerifies ==
    ASSUME NEW t \in Trace, NEW type \in EventTypes, NEW data \in Data, Verify(t.events)
    PROVE  Verify(Appended(t, type, data).events)
<1>1. Push(t, type, data) \in Trace /\ Verify(Push(t, type, data).events)
  BY PushType, PushVerifies
<1>2. QED
  BY <1>1, WithCheckpointVerifies DEF Appended

LEMMA SealedVerifies ==
    ASSUME NEW t \in Trace, NEW data \in Data, Verify(t.events)
    PROVE  Verify(Finalized(t, data).events) /\ Verify(Failed(t, data).events)
<1>1. "TASK_RESULT" \in EventTypes /\ "TASK_FAILED" \in EventTypes
  BY DEF EventTypes, Verdicts
<1>2. /\ Finalized(t, data).events = Appended(t, "TASK_RESULT", data).events
      /\ Failed(t, data).events = Appended(t, "TASK_FAILED", data).events
  BY <1>1, AppendedType DEF Finalized, Failed, Trace
<1>3. QED
  BY <1>1, <1>2, AppendVerifies

-----------------------------------------------------------------------------
LEMMA PushFlags ==
    ASSUME NEW t \in Trace, NEW type \in EventTypes, NEW data \in Data
    PROVE  /\ Push(t, type, data).finalized = t.finalized
           /\ Push(t, type, data).failed = t.failed
BY DEF Push, Trace

LEMMA WithCheckpointEvents ==
    ASSUME NEW t \in Trace
    PROVE  LET es == t.events  fs == WithCheckpoint(t).events
           IN  /\ Len(es) \in Nat /\ Len(fs) = Len(es) + 1
               /\ \A i \in 1..Len(es) : fs[i] = es[i]
               /\ fs[Len(es) + 1].type = "CHECKPOINT"
               /\ WithCheckpoint(t).finalized = t.finalized
               /\ WithCheckpoint(t).failed = t.failed
<1> DEFINE p == Push(t, "CHECKPOINT", Summary)
<1>1. "CHECKPOINT" \in EventTypes
  BY DEF EventTypes
<1>2. p \in Trace
  BY <1>1, PushType
<1>3. /\ WithCheckpoint(t).events = p.events
      /\ WithCheckpoint(t).finalized = p.finalized
      /\ WithCheckpoint(t).failed = p.failed
  BY <1>2 DEF WithCheckpoint, Trace
<1>4. MakeEvent(t, "CHECKPOINT", Summary).type = "CHECKPOINT"
  BY DEF MakeEvent
<1>5. QED
  BY <1>1, <1>3, <1>4, PushEvents, PushFlags

(* append adds the event it is asked to add, then at most a checkpoint,    *)
(* and seals nothing.                                                      *)
THEOREM AppendedEvents ==
    ASSUME NEW t \in Trace, NEW type \in EventTypes, NEW data \in Data
    PROVE  LET es == t.events  fs == Appended(t, type, data).events
           IN  /\ Len(es) \in Nat /\ Len(fs) \in Nat /\ Len(fs) > Len(es)
               /\ \A i \in 1..Len(es) : fs[i] = es[i]
               /\ fs[Len(es) + 1].type = type
               /\ \A i \in Len(es) + 2..Len(fs) : fs[i].type = "CHECKPOINT"
               /\ Appended(t, type, data).finalized = t.finalized
               /\ Appended(t, type, data).failed = t.failed
<1> DEFINE es == t.events
           p  == Push(t, type, data)
           w  == WithCheckpoint(p)
<1>1. /\ Len(p.events) = Len(es) + 1 /\ Len(es) \in Nat
      /\ \A i \in 1..Len(es) : p.events[i] = es[i]
      /\ p.events[Len(es) + 1] = MakeEvent(t, type, data)
      /\ p.finalized = t.finalized /\ p.failed = t.failed
      /\ p \in Trace
  BY PushEvents, PushFlags, PushType
<1>2. p.events[Len(es) + 1].type = type
  BY <1>1 DEF MakeEvent
<1>3. CASE CheckpointDue(p, type)
  <2>1. /\ Len(w.events) = Len(p.events) + 1
        /\ \A i \in 1..Len(p.events) : w.events[i] = p.events[i]
        /\ w.events[Len(p.events) + 1].type = "CHECKPOINT"
        /\ w.finalized = p.finalized /\ w.failed = p.failed
    BY <1>1, WithCheckpointEvents
  <2>2. Appended(t, type, data) = w
    BY <1>3 DEF Appended
  <2>3. \A i \in Len(es) + 2..Len(w.events) : i = Len(p.events) + 1
    BY <1>1, <2>1
  <2> HIDE DEF p, w, es
  <2>4. QED
    BY <1>1, <1>2, <2>1, <2>2, <2>3 DEF es
<1>4. CASE ~CheckpointDue(p, type)
  <2>1. Appended(t, type, data) = p
    BY <1>4 DEF Appended
  <2>2. Len(es) + 2..Len(p.events) = {}
    BY <1>1
  <2> HIDE DEF p, es
  <2>3. QED
    BY <1>1, <1>2, <2>1, <2>2 DEF es
<1>5. QED
  BY <1>3, <1>4

(* finalize and fail do the same with their verdict and set one flag. *)
THEOREM SealedEvents ==
    ASSUME NEW t \in Trace, NEW data \in Data
    PROVE  /\ Finalized(t, data).events = Appended(t, "TASK_RESULT", data).events
           /\ Finalized(t, data).finalized
           /\ Finalized(t, data).failed = t.failed
           /\ Failed(t, data).events = Appended(t, "TASK_FAILED", data).events
           /\ Failed(t, data).finalized = t.finalized
           /\ Failed(t, data).failed
<1>1. "TASK_RESULT" \in EventTypes /\ "TASK_FAILED" \in EventTypes
  BY DEF EventTypes, Verdicts
<1>2. /\ Appended(t, "TASK_RESULT", data) \in Trace
      /\ Appended(t, "TASK_FAILED", data) \in Trace
      /\ Appended(t, "TASK_RESULT", data).failed = t.failed
      /\ Appended(t, "TASK_FAILED", data).finalized = t.finalized
  BY <1>1, AppendedType, AppendedEvents
<1>3. QED
  BY <1>2 DEF Finalized, Failed, Trace

-----------------------------------------------------------------------------
(* What u, with more events than t, has in common with it: all that t      *)
(* held, and no other verdict than perhaps the first new event, which      *)
(* comes with its flag.                                                    *)
Grown(t, u) ==
    LET es == t.events  fs == u.events
    IN  /\ u \in Trace
        /\ Len(es) \in Nat /\ Len(fs) \in Nat /\ Len(fs) > Len(es)
        /\ \A i \in 1..Len(es) : fs[i] = es[i]
        /\ \A i \in Len(es) + 2..Len(fs) : fs[i].type \notin Verdicts
        /\ \/ /\ fs[Len(es) + 1].type \notin Verdicts
              /\ u.finalized = t.finalized /\ u.failed = t.failed
           \/ /\ fs[Len(es) + 1].type = "TASK_RESULT"
              /\ u.finalized /\ u.failed = t.failed
           \/ /\ fs[Len(es) + 1].type = "TASK_FAILED"
              /\ u.finalized = t.finalized /\ u.failed

LEMMA AppendedGrown ==
    ASSUME NEW t \in Trace, NEW type \in EventTypes \ Verdicts, NEW data \in Data
    PROVE  Grown(t, Appended(t, type, data))
<1>1. "CHECKPOINT" \notin Verdicts
  BY DEF Verdicts
<1>2. QED
  BY <1>1, AppendedEvents, AppendedType DEF Grown

LEMMA SealedGrown ==
    ASSUME NEW t \in Trace, NEW data \in Data
    PROVE  Grown(t, Finalized(t, data)) /\ Grown(t, Failed(t, data))
<1>1. "CHECKPOINT" \notin Verdicts
  BY DEF Verdicts
<1>2. "TASK_RESULT" \in EventTypes /\ "TASK_FAILED" \in EventTypes
  BY DEF EventTypes, Verdicts
<1>3. Grown(t, Finalized(t, data))
  <2> DEFINE es == t.events  a == Appended(t, "TASK_RESULT", data)  fs == a.events
  <2>1. /\ Len(es) \in Nat /\ Len(fs) \in Nat /\ Len(fs) > Len(es)
        /\ \A i \in 1..Len(es) : fs[i] = es[i]
        /\ fs[Len(es) + 1].type = "TASK_RESULT"
        /\ \A i \in Len(es) + 2..Len(fs) : fs[i].type \notin Verdicts
    BY <1>1, <1>2, AppendedEvents
  <2>2. /\ Finalized(t, data) \in Trace
        /\ Finalized(t, data).events = fs
    BY SealedEvents, SealedType
  <2> HIDE DEF es, fs, a
  <2>3. QED
    BY <2>1, <2>2, SealedEvents DEF Grown, es
<1>4. Grown(t, Failed(t, data))
  <2> DEFINE es == t.events  a == Appended(t, "TASK_FAILED", data)  fs == a.events
  <2>1. /\ Len(es) \in Nat /\ Len(fs) \in Nat /\ Len(fs) > Len(es)
        /\ \A i \in 1..Len(es) : fs[i] = es[i]
        /\ fs[Len(es) + 1].type = "TASK_FAILED"
        /\ \A i \in Len(es) + 2..Len(fs) : fs[i].type \notin Verdicts
    BY <1>1, <1>2, AppendedEvents
  <2>2. /\ Failed(t, data) \in Trace
        /\ Failed(t, data).events = fs
    BY SealedEvents, SealedType
  <2> HIDE DEF es, fs, a
  <2>3. QED
    BY <2>1, <2>2, SealedEvents DEF Grown, es
<1>5. QED
  BY <1>3, <1>4
=============================================================================
