------------------------ MODULE TaskExecutionProofs -------------------------
(***************************************************************************)
(* Results about TaskExecution for every set of runs and calls, every call *)
(* limit and every checkpoint interval: every step treats the traces in    *)
(* one of a few ways (TraceStep), and the rest follows from those.  The    *)
(* last part is about ResultPushQueue, which sends on what tasks returned. *)
(***************************************************************************)
EXTENDS TaskExecution, TraceLogProofs, QueuePromises, FiniteSetTheorems

USE TaskExecutionAssumption

(* A run that has not begun has a fresh trace. *)
IdleIsNew == \A r \in Runs : phase[r] = "idle" => trace[r] = NewTrace(Interval)

(* A call that was made was made on the gateway of a run that has begun. *)
Placed == \A c \in Calls : state[c] # "new" => runOf[c] \in Runs /\ Started(runOf[c])

(* A trace that may still grow holds no verdict. *)
OpenHasNoVerdict ==
    \A r \in Runs : IsOpen(trace[r]) =>
        \A i \in 1..Len(trace[r].events) : trace[r].events[i].type \notin Verdicts

(* A trace that was proved can grow no more. *)
ProvedIsSealed ==
    \A r \in Runs : proof[r] # None => ~IsOpen(trace[r]) /\ proof[r] = trace[r].events

(* The engine's count covers the handlers it let run. *)
Counted ==
    \A r \in Runs :
        /\ IsFiniteSet(Executed(r))
        /\ Cardinality(Executed(r)) <= callCount[r]
        /\ callCount[r] <= MaxCalls

-----------------------------------------------------------------------------
LEMMA NewTraceType == NewTrace(Interval) \in Trace
<1>1. <<>> \in Seq(Event)
  BY EmptySeq
<1>2. QED
  BY <1>1 DEF NewTrace, Trace

LEMMA DataType == Note \in Data /\ \A c \in Calls : c \in Data
OBVIOUS

(* What a step may do to the traces: nothing, or add an event or a verdict *)
(* to one that is open.                                                    *)
Grows(r) ==
    \/ \E type \in EventTypes \ Verdicts, data \in Data :
           trace' = [trace EXCEPT ![r] = Appended(trace[r], type, data)]
    \/ \E data \in Data : trace' = [trace EXCEPT ![r] = Finalized(trace[r], data)]
    \/ \E data \in Data : trace' = [trace EXCEPT ![r] = Failed(trace[r], data)]

OrdinaryTypes == {"TASK_ACCEPTED", "TOOL_CALL", "TOOL_RESULT"}

LEMMA OrdinaryTypesType == OrdinaryTypes \subseteq EventTypes \ Verdicts
BY DEF OrdinaryTypes, EventTypes, Verdicts

LEMMA RunTraceStep ==
    ASSUME TypeOK, IdleIsNew, NEW r \in Runs, RunStep(r)
    PROVE  UNCHANGED trace \/ (IsOpen(trace[r]) /\ Grows(r))
<1>0. trace \in [Runs -> Trace] /\ trace = [trace EXCEPT ![r] = trace[r]]
  BY DEF TypeOK
<1>1. CASE Accept(r)
  <2>1. IsOpen(trace[r])
    BY <1>1 DEF Accept, IdleIsNew, NewTrace, IsOpen
  <2>2. "TASK_ACCEPTED" \in EventTypes \ Verdicts
    BY OrdinaryTypesType DEF OrdinaryTypes
  <2>3. QED
    BY <1>1, <2>1, <2>2, DataType DEF Accept, Grows
<1>2. ASSUME NEW verdict \in Verdicts, UserSeals(r, verdict)
      PROVE  IsOpen(trace[r]) /\ Grows(r)
  BY <1>2, DataType DEF UserSeals, Sealed, Grows, Verdicts
<1>3. CASE ExecuteReturns(r)
  BY <1>0, <1>3, DataType DEF ExecuteReturns, Conclude, Grows
<1>4. CASE ExecuteThrows(r)
  BY <1>4, DataType DEF ExecuteThrows, Conclude, Grows
<1>5. CASE Refuse(r) \/ ExecuteThrowsSealed(r)
  BY <1>5 DEF Refuse, ExecuteThrowsSealed
<1>6. CASE AnchorMined(r) \/ Continue(r)
  BY <1>6 DEF AnchorMined, AnchorSet, Continue, AnchorAsked, AnchorFails, Anchored,
              VerifyAnchors, Sync
<1>7. QED
  BY <1>1, <1>2, <1>3, <1>4, <1>5, <1>6 DEF RunStep

LEMMA CallTraceStep ==
    ASSUME TypeOK, Placed, NEW c \in Calls, CallStep(c)
    PROVE  UNCHANGED trace \/ \E r \in Runs : IsOpen(trace[r]) /\ Grows(r)
<1>1. ASSUME NEW r \in Runs, NEW request, CallRefused(c, r, request)
      PROVE  UNCHANGED trace
  BY <1>1 DEF CallRefused
<1>2. ASSUME NEW r \in Runs, NEW hashable, CallWasted(c, r, hashable)
      PROVE  UNCHANGED trace
  BY <1>2 DEF CallWasted
<1>3. ASSUME NEW r \in Runs, CallStarts(c, r)
      PROVE  IsOpen(trace[r]) /\ Grows(r)
  <2>1. "TOOL_CALL" \in EventTypes \ Verdicts
    BY OrdinaryTypesType DEF OrdinaryTypes
  <2>2. QED
    BY <1>3, <2>1, DataType DEF CallStarts, Grows
<1>4. CASE ResultLogged(c)
  <2>1. "TOOL_RESULT" \in EventTypes \ Verdicts
    BY OrdinaryTypesType DEF OrdinaryTypes
  <2>2. runOf[c] \in Runs
    BY <1>4 DEF ResultLogged, Placed
  <2>3. QED
    BY <1>4, <2>1, <2>2, DataType DEF ResultLogged, Grows
<1>5. ASSUME NEW hashable, ResultLost(c, hashable)
      PROVE  UNCHANGED trace
  BY <1>5 DEF ResultLost
<1>6. QED
  BY <1>1, <1>2, <1>3, <1>4, <1>5 DEF CallStep

LEMMA TraceStep ==
    ASSUME TypeOK, IdleIsNew, Placed, [Next]_vars
    PROVE  UNCHANGED trace \/ \E r \in Runs : IsOpen(trace[r]) /\ Grows(r)
<1>1. CASE Expire
  BY <1>1 DEF Expire
<1>2. CASE UNCHANGED vars
  BY <1>2 DEF vars
<1>3. QED
  BY <1>1, <1>2, RunTraceStep, CallTraceStep DEF Next

(* Only the trace of r has grown. *)
LEMMA Growth ==
    ASSUME TypeOK, NEW r \in Runs, Grows(r)
    PROVE  /\ trace' \in [Runs -> Trace]
           /\ trace' = [trace EXCEPT ![r] = trace'[r]]
           /\ Grown(trace[r], trace'[r])
<1>1. trace[r] \in Trace /\ trace \in [Runs -> Trace]
  BY DEF TypeOK
<1>2. \E u \in Trace : Grown(trace[r], u) /\ trace' = [trace EXCEPT ![r] = u]
  <2>1. ASSUME NEW type \in EventTypes \ Verdicts, NEW data \in Data,
               trace' = [trace EXCEPT ![r] = Appended(trace[r], type, data)]
        PROVE  Appended(trace[r], type, data) \in Trace
               /\ Grown(trace[r], Appended(trace[r], type, data))
    BY <1>1, AppendedGrown, AppendedType
  <2>2. ASSUME NEW data \in Data
        PROVE  /\ Finalized(trace[r], data) \in Trace /\ Failed(trace[r], data) \in Trace
               /\ Grown(trace[r], Finalized(trace[r], data))
               /\ Grown(trace[r], Failed(trace[r], data))
    BY <1>1, SealedGrown, SealedType
  <2>3. QED
    BY <2>1, <2>2 DEF Grows
<1>3. QED
  BY <1>1, <1>2

-----------------------------------------------------------------------------
IInv == TypeOK /\ IdleIsNew /\ Placed /\ OpenHasNoVerdict /\ ProvedIsSealed /\ Counted

LEMMA InvInit == Init => IInv
<1> SUFFICES ASSUME Init PROVE IInv
  OBVIOUS
<1>1. NewTrace(Interval) \in Trace /\ NewTrace(Interval).events = <<>>
  BY NewTraceType DEF NewTrace
<1>2. \A r \in Runs : Executed(r) = {}
  BY DEF Init, Executed
<1>3. TypeOK
  <2>1. <<>> \in Seq(Calls)
    BY EmptySeq
  <2>2. callLog \in [Runs -> Seq(Calls)]
    BY <2>1 DEF Init
  <2>3. QED
    BY <1>1, <2>2 DEF Init, TypeOK, Phases, CallStates, AnchorStates
<1>4. Counted
  <2> SUFFICES ASSUME NEW r \in Runs
               PROVE  /\ IsFiniteSet(Executed(r))
                      /\ Cardinality(Executed(r)) <= callCount[r]
                      /\ callCount[r] <= MaxCalls
    BY DEF Counted
  <2>1. Executed(r) = {} /\ callCount[r] = 0
    BY <1>2 DEF Init
  <2>2. IsFiniteSet({}) /\ Cardinality({}) = 0
    BY FS_EmptySet
  <2>3. QED
    BY <2>1, <2>2
<1>5. QED
  BY <1>1, <1>3, <1>4 DEF Init, IInv, IdleIsNew, Placed, OpenHasNoVerdict, ProvedIsSealed

(* The traces keep their type whatever the step, so each action is left    *)
(* with the variables it assigns.                                          *)
LEMMA TraceTypeStep ==
    ASSUME TypeOK, IdleIsNew, Placed, [Next]_vars
    PROVE  trace' \in [Runs -> Trace]
BY TraceStep, Growth DEF TypeOK

LEMMA CardinalityType ==
    ASSUME NEW es \in Seq(Event), NEW type
    PROVE  Cardinality(Positions(es, type)) \in Nat
<1>1. Len(es) \in Nat
  BY LenProperties
<1>2. IsFiniteSet(1..Len(es))
  BY <1>1, FS_Interval
<1>3. IsFiniteSet(Positions(es, type))
  BY <1>2, FS_Subset DEF Positions
<1>4. QED
  BY <1>3, FS_CardinalityType

LEMMA SubmitType ==
    ASSUME TypeOK, NEW r \in Runs, Submit(r)
    PROVE  submitted' \in [Runs -> Submission \cup {None}] /\ phase' \in [Runs -> Phases]
<1>1. trace[r].events \in Seq(Event) /\ success[r] \in BOOLEAN
  BY DEF TypeOK, Trace
<1>2. [success |-> success[r],
       toolCalls |-> Cardinality(Positions(trace[r].events, "TOOL_CALL")),
       violations |-> Cardinality(Positions(trace[r].events, "POLICY_VIOLATION"))]
          \in Submission
  BY <1>1, CardinalityType DEF Submission
<1>3. QED
  BY <1>2 DEF Submit, TypeOK, Phases

LEMMA RunTypeStep ==
    ASSUME IInv, NEW r \in Runs, RunStep(r), [Next]_vars
    PROVE  TypeOK'
<1>0. TypeOK /\ trace' \in [Runs -> Trace]
  BY TraceTypeStep DEF IInv
<1>1. CASE Accept(r) \/ Refuse(r) \/ ExecuteThrowsSealed(r) \/ Anchored(r) \/ Sync(r)
  BY <1>0, <1>1
     DEF Accept, Refuse, ExecuteThrowsSealed, Anchored, Sync, TypeOK, Phases, callVars, runVars
<1>2. ASSUME NEW verdict \in Verdicts, UserSeals(r, verdict) PROVE TypeOK'
  BY <1>0, <1>2 DEF UserSeals, TypeOK, callVars, runVars
<1>3. ASSUME NEW ok \in BOOLEAN, NEW t \in Trace, Conclude(r, ok, t) PROVE TypeOK'
  <2>1. t.events \in Seq(Event)
    BY DEF Trace
  <2>2. QED
    BY <1>0, <1>3, <2>1 DEF Conclude, TypeOK, Phases, callVars
<1>4. CASE ExecuteReturns(r) \/ ExecuteThrows(r)
  <2>1. trace[r] \in Trace /\ Finalized(trace[r], Note) \in Trace /\ Failed(trace[r], Note) \in Trace
    BY <1>0, SealedType, DataType DEF TypeOK
  <2>2. QED
    BY <1>3, <1>4, <2>1 DEF ExecuteReturns, ExecuteThrows
<1>5. CASE AnchorFails(r) \/ VerifyAnchors(r)
  <2>1. submitted' \in [Runs -> Submission \cup {None}] /\ phase' \in [Runs -> Phases]
    BY <1>0, <1>5, SubmitType DEF AnchorFails, VerifyAnchors
  <2>2. QED
    BY <1>0, <1>5, <2>1 DEF AnchorFails, VerifyAnchors, TypeOK, callVars
<1>6. ASSUME NEW p \in Providers, NEW what \in AnchorStates, AnchorSet(r, p, what)
      PROVE  TypeOK'
  BY <1>0, <1>6 DEF AnchorSet, TypeOK, callVars
<1>7. CASE AnchorAsked(r) \/ AnchorMined(r)
  BY <1>6, <1>7 DEF AnchorAsked, AnchorMined, AnchorsOf, AnchorStates
<1>8. QED
  BY <1>1, <1>2, <1>4, <1>5, <1>7 DEF RunStep, Continue

LEMMA CallTypeStep ==
    ASSUME IInv, NEW c \in Calls, CallStep(c), [Next]_vars
    PROVE  TypeOK'
<1>0. TypeOK /\ Placed /\ trace' \in [Runs -> Trace]
  BY TraceTypeStep DEF IInv
<1>1. ASSUME NEW r \in Runs, NEW outcome \in CallStates, MakeCall(c, r, outcome),
             UNCHANGED callCount \/ callCount' = [callCount EXCEPT ![r] = @ + 1]
      PROVE  TypeOK'
  <2>1. callCount' \in [Runs -> Nat]
    <3>1. callCount \in [Runs -> Nat] /\ callCount[r] + 1 \in Nat
      BY <1>0 DEF TypeOK
    <3>2. QED
      BY <1>1, <3>1
  <2>2. QED
    BY <1>0, <1>1, <2>1 DEF MakeCall, TypeOK, runVars
<1>2. ASSUME NEW r \in Runs, NEW request, CallRefused(c, r, request) PROVE TypeOK'
  BY <1>1, <1>2 DEF CallRefused, CallStates
<1>3. ASSUME NEW r \in Runs, NEW hashable, CallWasted(c, r, hashable) PROVE TypeOK'
  BY <1>1, <1>3 DEF CallWasted, CallStates
<1>4. ASSUME NEW r \in Runs, CallStarts(c, r) PROVE TypeOK'
  BY <1>1, <1>4 DEF CallStarts, CallStates
<1>5. CASE ResultLogged(c)
  <2>1. runOf[c] \in Runs
    BY <1>0, <1>5 DEF ResultLogged, Placed
  <2>2. callLog' \in [Runs -> Seq(Calls)]
    <3>1. Append(callLog[runOf[c]], c) \in Seq(Calls)
      BY <1>0, <2>1, AppendProperties DEF TypeOK
    <3>2. QED
      BY <1>0, <1>5, <2>1, <3>1 DEF ResultLogged, TypeOK
  <2>3. QED
    BY <1>0, <1>5, <2>2 DEF ResultLogged, TypeOK, CallStates, runVars
<1>6. ASSUME NEW hashable, ResultLost(c, hashable) PROVE TypeOK'
  BY <1>0, <1>6 DEF ResultLost, TypeOK, CallStates, runVars
<1>7. QED
  BY <1>2, <1>3, <1>4, <1>5, <1>6 DEF CallStep

LEMMA TypeStep == IInv /\ [Next]_vars => TypeOK'
<1> SUFFICES ASSUME IInv, [Next]_vars PROVE TypeOK'
  OBVIOUS
<1>1. CASE Expire
  BY <1>1 DEF Expire, IInv, TypeOK, callVars, runVars
<1>2. CASE UNCHANGED vars
  BY <1>2 DEF IInv, TypeOK, vars, callVars, runVars
<1>3. QED
  BY <1>1, <1>2, RunTypeStep, CallTypeStep DEF Next

-----------------------------------------------------------------------------
(* A run that has begun has begun for good, and one that has not is left   *)
(* alone by every step but its first.                                      *)
LEMMA RunPhaseStep ==
    ASSUME TypeOK, NEW r \in Runs, RunStep(r), NEW s \in Runs
    PROVE  /\ Started(s) => Started(s)'
           /\ phase'[s] = "idle" => phase[s] = "idle" /\ trace'[s] = trace[s]
           /\ UNCHANGED <<state, runOf, callCount>>
<1>0. trace \in [Runs -> Trace] /\ phase \in [Runs -> Phases]
  BY DEF TypeOK
<1>1. CASE Accept(r) \/ Refuse(r) \/ ExecuteThrowsSealed(r) \/ Sync(r)
  BY <1>0, <1>1
     DEF Accept, Refuse, ExecuteThrowsSealed, Sync, Started, callVars, runVars
<1>2. ASSUME NEW verdict \in Verdicts, UserSeals(r, verdict)
      PROVE  /\ Started(s) => Started(s)'
             /\ phase'[s] = "idle" => phase[s] = "idle" /\ trace'[s] = trace[s]
             /\ UNCHANGED <<state, runOf, callCount>>
  BY <1>0, <1>2 DEF UserSeals, Started, callVars
<1>3. CASE ExecuteReturns(r) \/ ExecuteThrows(r)
  BY <1>0, <1>3 DEF ExecuteReturns, ExecuteThrows, Conclude, Started, callVars
<1>4. CASE AnchorMined(r) \/ Continue(r)
  BY <1>0, <1>4
     DEF AnchorMined, AnchorSet, Continue, AnchorAsked, AnchorFails, Asked, Anchored,
         VerifyAnchors, Submit, Sync, Started, callVars
<1>5. QED
  BY <1>1, <1>2, <1>3, <1>4 DEF RunStep

LEMMA CallPhaseStep ==
    ASSUME IInv, NEW c \in Calls, CallStep(c)
    PROVE  /\ UNCHANGED <<phase, proof>>
           /\ \A s \in Runs : trace'[s] # trace[s] => Started(s)
           /\ Placed'
<1>0. TypeOK /\ Placed
  BY DEF IInv
<1>1. ASSUME NEW r \in Runs, NEW outcome, MakeCall(c, r, outcome)
      PROVE  Placed' /\ UNCHANGED <<phase, proof>> /\ Started(r)
  BY <1>0, <1>1 DEF MakeCall, Placed, TypeOK, Started, runVars
<1>2. ASSUME NEW r \in Runs, NEW request, CallRefused(c, r, request)
      PROVE  Placed' /\ UNCHANGED <<phase, proof, trace>>
  BY <1>1, <1>2 DEF CallRefused
<1>3. ASSUME NEW r \in Runs, NEW hashable, CallWasted(c, r, hashable)
      PROVE  Placed' /\ UNCHANGED <<phase, proof, trace>>
  BY <1>1, <1>3 DEF CallWasted
<1>4. ASSUME NEW r \in Runs, CallStarts(c, r)
      PROVE  /\ Placed' /\ UNCHANGED <<phase, proof>>
             /\ \A s \in Runs : trace'[s] # trace[s] => Started(s)
  <2>1. trace' = [trace EXCEPT ![r] = Appended(trace[r], "TOOL_CALL", c)]
    BY <1>4 DEF CallStarts
  <2>2. QED
    BY <1>0, <1>1, <1>4, <2>1 DEF CallStarts, TypeOK
<1>5. CASE ResultLogged(c)
  <2>1. runOf[c] \in Runs /\ Started(runOf[c])
    BY <1>0, <1>5 DEF ResultLogged, Placed
  <2>2. Placed' /\ UNCHANGED <<phase, proof>>
    BY <1>0, <1>5, <2>1 DEF ResultLogged, Placed, TypeOK, Started, runVars
  <2>3. \A s \in Runs : trace'[s] # trace[s] => s = runOf[c]
    BY <1>0, <1>5 DEF ResultLogged, TypeOK
  <2>4. QED
    BY <2>1, <2>2, <2>3
<1>6. ASSUME NEW hashable, ResultLost(c, hashable)
      PROVE  Placed' /\ UNCHANGED <<phase, proof, trace>>
  BY <1>0, <1>6 DEF ResultLost, Placed, TypeOK, Started, runVars
<1>7. QED
  BY <1>2, <1>3, <1>4, <1>5, <1>6 DEF CallStep

LEMMA PlacedStep == IInv /\ [Next]_vars => Placed' /\ IdleIsNew'
<1> SUFFICES ASSUME IInv, [Next]_vars PROVE Placed' /\ IdleIsNew'
  OBVIOUS
<1>0. TypeOK /\ IdleIsNew /\ Placed
  BY DEF IInv
<1>1. ASSUME NEW r \in Runs, RunStep(r) PROVE Placed' /\ IdleIsNew'
  BY <1>0, <1>1, RunPhaseStep DEF Placed, IdleIsNew
<1>2. ASSUME NEW c \in Calls, CallStep(c) PROVE Placed' /\ IdleIsNew'
  BY <1>0, <1>2, CallPhaseStep DEF IdleIsNew, Started
<1>3. CASE Expire
  BY <1>0, <1>3 DEF Expire, Placed, IdleIsNew, Started, callVars
<1>4. CASE UNCHANGED vars
  BY <1>0, <1>4 DEF vars, Placed, IdleIsNew, Started, callVars
<1>5. QED
  BY <1>1, <1>2, <1>3, <1>4 DEF Next

-----------------------------------------------------------------------------
LEMMA VerdictStep == IInv /\ [Next]_vars => OpenHasNoVerdict'
<1> SUFFICES ASSUME IInv, [Next]_vars, NEW s \in Runs, IsOpen(trace'[s]),
                    NEW i \in 1..Len(trace'[s].events)
             PROVE  trace'[s].events[i].type \notin Verdicts
  BY DEF OpenHasNoVerdict, IsOpen
<1>0. TypeOK /\ OpenHasNoVerdict
  BY DEF IInv
<1>1. CASE trace'[s] = trace[s]
  BY <1>0, <1>1 DEF OpenHasNoVerdict
<1>2. CASE trace'[s] # trace[s]
  <2>1. IsOpen(trace[s]) /\ Grown(trace[s], trace'[s])
    <3>1. PICK r \in Runs : IsOpen(trace[r]) /\ Grows(r)
      BY <1>2, TraceStep DEF IInv
    <3>2. trace' = [trace EXCEPT ![r] = trace'[r]] /\ Grown(trace[r], trace'[r])
      BY <1>0, <3>1, Growth
    <3>3. r = s
      BY <1>0, <1>2, <3>2 DEF TypeOK
    <3>4. QED
      BY <3>1, <3>2, <3>3
  <2> DEFINE es == trace[s].events  fs == trace'[s].events
  <2>2. /\ Len(es) \in Nat /\ Len(fs) \in Nat /\ Len(fs) > Len(es)
        /\ \A j \in 1..Len(es) : fs[j] = es[j] /\ es[j].type \notin Verdicts
        /\ \A j \in Len(es) + 2..Len(fs) : fs[j].type \notin Verdicts
        /\ fs[Len(es) + 1].type \notin Verdicts
    BY <1>0, <2>1 DEF Grown, OpenHasNoVerdict, IsOpen
  <2>3. i \in 1..Len(es) \/ i = Len(es) + 1 \/ i \in Len(es) + 2..Len(fs)
    BY <2>2
  <2> HIDE DEF es, fs
  <2>4. QED
    BY <2>2, <2>3 DEF fs
<1>3. QED
  BY <1>1, <1>2

(* Only what follows execute writes a proof, and it seals the trace first. *)
LEMMA ConcludeStep ==
    ASSUME TypeOK, NEW r \in Runs, ExecuteReturns(r) \/ ExecuteThrows(r)
    PROVE  /\ proof' = [proof EXCEPT ![r] = trace'[r].events]
           /\ ~IsOpen(trace'[r])
<1>1. trace[r] \in Trace /\ trace \in [Runs -> Trace] /\ Note \in Data
  BY DEF TypeOK
<1>2. CASE ExecuteThrows(r)
  BY <1>1, <1>2, SealedEvents DEF ExecuteThrows, Conclude, IsOpen
<1>3. CASE ExecuteReturns(r)
  BY <1>1, <1>3, SealedEvents DEF ExecuteReturns, Conclude, IsOpen
<1>4. QED
  BY <1>2, <1>3

LEMMA ProofStep ==
    ASSUME IInv, [Next]_vars
    PROVE  \/ UNCHANGED proof
           \/ \E r \in Runs : ExecuteReturns(r) \/ ExecuteThrows(r)
<1>1. ASSUME NEW r \in Runs, RunStep(r)
      PROVE  UNCHANGED proof \/ ExecuteReturns(r) \/ ExecuteThrows(r)
  BY <1>1 DEF RunStep, Accept, Refuse, UserSeals, ExecuteThrowsSealed, AnchorMined,
              AnchorSet, Continue, AnchorAsked, AnchorFails, Anchored, VerifyAnchors, Sync,
              runVars
<1>2. QED
  BY <1>1, CallPhaseStep DEF Next, Expire, vars, runVars

LEMMA ProvedStep == IInv /\ [Next]_vars => ProvedIsSealed'
<1> SUFFICES ASSUME IInv, [Next]_vars, NEW s \in Runs, proof'[s] # None
             PROVE  ~IsOpen(trace'[s]) /\ proof'[s] = trace'[s].events
  BY DEF ProvedIsSealed, IsOpen
<1>0. TypeOK /\ ProvedIsSealed
  BY DEF IInv
<1>1. CASE proof'[s] = proof[s]
  <2>1. ~IsOpen(trace[s]) /\ proof[s] = trace[s].events
    BY <1>0, <1>1 DEF ProvedIsSealed
  <2>2. trace'[s] = trace[s]
    BY <1>0, <2>1, TraceStep, Growth DEF IInv, TypeOK
  <2>3. QED
    BY <1>1, <2>1, <2>2
<1>2. CASE proof'[s] # proof[s]
  <2>1. PICK r \in Runs : ExecuteReturns(r) \/ ExecuteThrows(r)
    BY <1>2, ProofStep
  <2>2. proof' = [proof EXCEPT ![r] = trace'[r].events] /\ ~IsOpen(trace'[r])
    BY <1>0, <2>1, ConcludeStep
  <2>3. r = s
    BY <1>0, <1>2, <2>2 DEF TypeOK
  <2>4. QED
    BY <1>0, <2>2, <2>3 DEF TypeOK
<1>3. QED
  BY <1>1, <1>2

-----------------------------------------------------------------------------
LEMMA CountedStep == IInv /\ [Next]_vars => Counted'
<1> SUFFICES ASSUME IInv, [Next]_vars, NEW s \in Runs
             PROVE  /\ IsFiniteSet(Executed(s)')
                    /\ Cardinality(Executed(s)') <= callCount'[s]
                    /\ callCount'[s] <= MaxCalls
  BY DEF Counted
<1> DEFINE Good ==
        /\ IsFiniteSet(Executed(s)')
        /\ Cardinality(Executed(s)') <= callCount'[s]
        /\ callCount'[s] <= MaxCalls
<1>0. TypeOK /\ Placed
  BY DEF IInv
<1>1. /\ IsFiniteSet(Executed(s)) /\ Cardinality(Executed(s)) \in Nat
      /\ Cardinality(Executed(s)) <= callCount[s]
      /\ callCount[s] <= MaxCalls
      /\ callCount[s] \in Nat /\ callCount \in [Runs -> Nat]
  BY FS_CardinalityType DEF IInv, Counted, TypeOK
<1>2. CASE UNCHANGED callVars
  BY <1>1, <1>2 DEF callVars, Executed
<1>3. ASSUME NEW c \in Calls, NEW r \in Runs, NEW outcome \in {"refused", "wasted"},
             MakeCall(c, r, outcome),
             UNCHANGED callCount \/ (callCount' = [callCount EXCEPT ![r] = @ + 1]
                                      /\ callCount[r] < MaxCalls)
      PROVE  Good
  <2>1. Executed(s)' = Executed(s)
    BY <1>0, <1>3 DEF MakeCall, Executed, TypeOK
  <2>2. callCount'[s] >= callCount[s] /\ callCount'[s] <= MaxCalls
    BY <1>1, <1>3
  <2>3. callCount'[s] \in Nat
    BY <1>1, <1>3
  <2>4. QED
    BY <1>1, <2>1, <2>2, <2>3
<1>4. ASSUME NEW r \in Runs, Evaluate(r, "allow") = "allow" PROVE callCount[r] < MaxCalls
  BY <1>1, <1>4 DEF Evaluate
<1>5. ASSUME NEW c \in Calls, NEW r \in Runs, NEW request, CallRefused(c, r, request)
      PROVE  Good
  BY <1>3, <1>5 DEF CallRefused
<1>6. ASSUME NEW c \in Calls, NEW r \in Runs, NEW hashable, CallWasted(c, r, hashable)
      PROVE  Good
  BY <1>3, <1>4, <1>6 DEF CallWasted
<1>7. ASSUME NEW c \in Calls, NEW r \in Runs, CallStarts(c, r) PROVE Good
  <2>1. CASE r = s
    <3>1. Executed(s)' = Executed(s) \cup {c} /\ c \notin Executed(s)
      BY <1>0, <1>7, <2>1 DEF CallStarts, MakeCall, Executed, TypeOK
    <3>2. /\ IsFiniteSet(Executed(s) \cup {c})
          /\ Cardinality(Executed(s) \cup {c}) = Cardinality(Executed(s)) + 1
      BY <1>1, <3>1, FS_AddElement
    <3>3. callCount'[s] = callCount[s] + 1 /\ callCount[s] < MaxCalls
      BY <1>1, <1>4, <1>7, <2>1 DEF CallStarts
    <3>4. QED
      BY <1>1, <3>1, <3>2, <3>3
  <2>2. CASE r # s
    <3>1. Executed(s)' = Executed(s)
      BY <1>0, <1>7, <2>2 DEF CallStarts, MakeCall, Executed, TypeOK
    <3>2. callCount'[s] = callCount[s]
      BY <1>1, <1>7, <2>2 DEF CallStarts
    <3>3. QED
      BY <1>1, <3>1, <3>2
  <2>3. QED
    BY <2>1, <2>2
<1>8. ASSUME NEW c \in Calls, ResultLogged(c) \/ \E hashable \in BOOLEAN : ResultLost(c, hashable)
      PROVE  Good
  <2>1. Executed(s)' = Executed(s) /\ UNCHANGED callCount
    BY <1>0, <1>8 DEF ResultLogged, ResultLost, Executed, TypeOK
  <2>2. QED
    BY <1>1, <2>1
<1>9. ASSUME NEW r \in Runs, RunStep(r) PROVE Good
  <2>1. UNCHANGED <<state, runOf, callCount>>
    BY <1>0, <1>9, RunPhaseStep
  <2>2. QED
    BY <1>1, <2>1 DEF Executed
<1>10. QED
  BY <1>2, <1>5, <1>6, <1>7, <1>8, <1>9 DEF Next, CallStep, Expire, vars

LEMMA InvStep == IInv /\ [Next]_vars => IInv'
BY TypeStep, PlacedStep, VerdictStep, ProvedStep, CountedStep DEF IInv

(* The inductive invariant, from which all results below follow. *)
THEOREM Invariance == Spec => []IInv
BY InvInit, InvStep, PTL DEF Spec

(* Every variable keeps its type. *)
THEOREM TypeCorrect == Spec => []TypeOK
<1>1. IInv => TypeOK
  BY DEF IInv
<1>2. QED
  BY <1>1, Invariance, PTL

(* A run's gateway never runs more handlers than the token allows, however *)
(* its calls overlap (ToolGateway.callTool, PolicyEngine.recordCall).      *)
THEOREM BudgetKept == Spec => []BudgetRespected
<1>1. IInv => BudgetRespected
  <2> SUFFICES ASSUME IInv, NEW r \in Runs PROVE Cardinality(Executed(r)) <= MaxCalls
    BY DEF BudgetRespected
  <2>1. /\ Cardinality(Executed(r)) \in Nat /\ callCount[r] \in Nat
        /\ Cardinality(Executed(r)) <= callCount[r] /\ callCount[r] <= MaxCalls
    BY FS_CardinalityType DEF IInv, Counted, TypeOK
  <2>2. QED
    BY <2>1
<1>2. QED
  BY <1>1, Invariance, PTL

(* What executeTask signed and anchored stays the trace of its run: late   *)
(* handlers cannot add to it (ATELOrchestrator.executeTask).               *)
THEOREM ProofStays == Spec => []ProofCoversTrace
<1>1. IInv => ProofCoversTrace
  BY DEF IInv, ProvedIsSealed, ProofCoversTrace
<1>2. QED
  BY <1>1, Invariance, PTL

-----------------------------------------------------------------------------
(* The refinement: a step that grows a trace records in its log or closes  *)
(* it, any other leaves the logs alone.                                    *)
Log == [r \in Runs |-> trace[r].events]
Seals == [r \in Runs |-> Seal(trace[r])]

LEMMA PrefixEqual ==
    ASSUME NEW es \in Seq(Event), NEW fs \in Seq(Event), Len(fs) > Len(es),
           \A i \in 1..Len(es) : fs[i] = es[i]
    PROVE  SubSeq(fs, 1, Len(es)) = es
<1> DEFINE s == SubSeq(fs, 1, Len(es))
<1>1. Len(es) \in Nat /\ Len(fs) \in Nat
  BY LenProperties
<1>2. s \in Seq(Event) /\ Len(s) = Len(es) /\ \A i \in 1..Len(es) : s[i] = fs[i]
  BY <1>1, SubSeqProperties
<1>3. QED
  BY <1>2, SeqEqual

LEMMA GrownRefines ==
    ASSUME IInv, NEW r \in Runs, IsOpen(trace[r]), Grows(r)
    PROVE  Traces!Next
<1> DEFINE es == trace[r].events
           fs == trace'[r].events
<1>0. trace \in [Runs -> Trace] /\ trace[r] \in Trace
  BY DEF IInv, TypeOK
<1>1. /\ trace' \in [Runs -> Trace] /\ trace' = [trace EXCEPT ![r] = trace'[r]]
      /\ Grown(trace[r], trace'[r])
  BY Growth DEF IInv
<1>2. es \in Seq(Event) /\ fs \in Seq(Event)
  BY <1>0, <1>1 DEF Trace
<1>3. /\ Len(es) \in Nat /\ Len(fs) \in Nat /\ Len(fs) > Len(es)
      /\ \A i \in 1..Len(es) : fs[i] = es[i] /\ es[i].type \notin Verdicts
      /\ \A i \in Len(es) + 2..Len(fs) : fs[i].type \notin Verdicts
  BY <1>1 DEF Grown, IInv, OpenHasNoVerdict
<1>4. SubSeq(fs, 1, Len(es)) = es
  BY <1>2, <1>3, PrefixEqual
<1>5. Log' = [Log EXCEPT ![r] = fs] /\ Log[r] = es /\ Log'[r] = fs
  BY <1>0, <1>1 DEF Log
<1>6. Seals[r] = "none"
  BY DEF Seals, Seal, IsOpen
<1>7. Traces!Grow(r)
  BY <1>3, <1>4, <1>5, <1>6 DEF Traces!Grow, Traces!Extends, Log, Seals
<1>8. \A i \in 1..Len(fs) : i \in 1..Len(es) \/ i = Len(es) + 1 \/ i \in Len(es) + 2..Len(fs)
  BY <1>3
<1>9. CASE /\ fs[Len(es) + 1].type \notin Verdicts
           /\ trace'[r].finalized = trace[r].finalized /\ trace'[r].failed = trace[r].failed
  <2>1. Seals' = Seals
    BY <1>0, <1>1, <1>9 DEF Seals, Seal
  <2>2. \A i \in 1..Len(fs) : fs[i].type \notin Verdicts
    BY <1>3, <1>8, <1>9
  <2>3. Traces!Record(r)
    BY <1>5, <1>7, <2>1, <2>2 DEF Traces!Record, Log, Seals
  <2>4. QED
    BY <2>3 DEF Traces!Next
<1>10. ASSUME NEW v \in Verdicts, fs[Len(es) + 1].type = v, Seal(trace'[r]) = v
       PROVE  Traces!Next
  <2>1. Seals' = [Seals EXCEPT ![r] = v]
    BY <1>0, <1>1, <1>10 DEF Seals
  <2>2. \A j \in 1..Len(fs) : fs[j].type \in Verdicts => j = Len(es) + 1
    BY <1>3, <1>8
  <2>3. Len(es) + 1 \in Len(es) + 1..Len(fs)
    BY <1>3
  <2>4. Traces!Close(r, v)
    BY <1>5, <1>7, <1>10, <2>1, <2>2, <2>3 DEF Traces!Close, Log, Seals
  <2>5. QED
    BY <2>4 DEF Traces!Next
<1>11. QED
  <2>1. ~trace[r].finalized /\ ~trace[r].failed
    BY DEF IsOpen
  <2>2. "TASK_RESULT" \in Verdicts /\ "TASK_FAILED" \in Verdicts
    BY DEF Verdicts
  <2>3. QED
    BY <1>1, <1>9, <1>10, <2>1, <2>2 DEF Grown, Seal

LEMMA StepRefines == IInv /\ [Next]_vars => [Traces!Next]_Traces!vars
<1> SUFFICES ASSUME IInv, [Next]_vars PROVE [Traces!Next]_Traces!vars
  OBVIOUS
<1>1. CASE UNCHANGED trace
  BY <1>1 DEF Traces!vars, Seal
<1>2. ASSUME NEW r \in Runs, IsOpen(trace[r]), Grows(r) PROVE Traces!Next
  BY <1>2, GrownRefines
<1>3. QED
  BY <1>1, <1>2, TraceStep DEF IInv

LEMMA InitRefines == Init => Traces!Init
BY DEF Init, Traces!Init, NewTrace, Seal

(* Every trace of an executing task is a log that grows until its one      *)
(* verdict and is left alone after it.                                     *)
THEOREM TracesAreSealedLogs == Spec => TracesSeal
BY InitRefines, StepRefines, Invariance, PTL DEF Spec, TracesSeal, Traces!Spec

-----------------------------------------------------------------------------
(* The queue of results: ResultPushQueue, for any tasks, flushes at a time,*)
(* waits and bounds.  Every flush carries what is owed of the queue it is  *)
(* to replace.                                                             *)
CONSTANTS Tasks, MaxFlushes, FirstWait, RetryWait, MaxPosts, MaxFaults

VARIABLES file, flushes, posts

Queue == INSTANCE ResultPushQueue

Pushed == [task : Tasks, tries : Int, wait : Int]

Pushing == [todo : Seq(Pushed), ripe : SUBSET Tasks, busy : Pushed, kept : Seq(Pushed), live : BOOLEAN]

QueueTyped ==
    /\ queue \in Seq(Pushed) /\ file \in Seq(Pushed)
    /\ flushes \in [Queue!Flushes -> Pushing \cup {None}]
    /\ owed \subseteq Tasks /\ faults \in Nat /\ restarts \in Nat

Carries(w, t) == t \in TasksOf(w.todo) \/ t = w.busy.task \/ t \in TasksOf(w.kept)

(* A task that is in the queue, and in what each flush will make of it.    *)
Held(t) ==
    /\ t \in TasksOf(queue)
    /\ \A f \in Queue!Active : Carries(flushes[f], t)

FileIsQueue == faults = 0 => file = queue

OwedHeld == faults = 0 \/ restarts = 0 => \A t \in owed \ exposed : Held(t)

QueueInv == QueueTyped /\ FileIsQueue /\ OwedHeld

-----------------------------------------------------------------------------
LEMMA SameTasks == \A s : Queue!TasksOf(s) = TasksOf(s)
BY DEF Queue!TasksOf, TasksOf

LEMMA TasksOfJoin ==
    ASSUME NEW r \in Seq(Pushed), NEW s \in Seq(Pushed)
    PROVE  r \o s \in Seq(Pushed) /\ TasksOf(r \o s) = TasksOf(r) \cup TasksOf(s)
<1> DEFINE j == r \o s
<1>1. j \in Seq(Pushed) /\ Len(j) = Len(r) + Len(s)
  BY ConcatProperties
<1>2. \A i \in 1..Len(j) : j[i] = IF i <= Len(r) THEN r[i] ELSE s[i - Len(r)]
  BY ConcatProperties
<1>3. \A i \in 1..Len(r) : i \in 1..Len(j) /\ j[i] = r[i]
  BY <1>1, <1>2
<1>4. \A i \in 1..Len(s) : Len(r) + i \in 1..Len(j) /\ j[Len(r) + i] = s[i]
  <2> SUFFICES ASSUME NEW i \in 1..Len(s) PROVE Len(r) + i \in 1..Len(j) /\ j[Len(r) + i] = s[i]
    OBVIOUS
  <2>1. Len(r) \in Nat /\ Len(r) + i \in 1..Len(j) /\ ~(Len(r) + i <= Len(r)) /\ (Len(r) + i) - Len(r) = i
    BY <1>1
  <2>2. QED
    BY <1>2, <2>1
<1>5. \A i \in 1..Len(j) : \/ i \in 1..Len(r) /\ j[i] = r[i]
                           \/ i - Len(r) \in 1..Len(s) /\ j[i] = s[i - Len(r)]
  BY <1>1, <1>2
<1>6. TasksOf(j) = {j[i].task : i \in 1..Len(j)} /\ TasksOf(r) = {r[i].task : i \in 1..Len(r)}
      /\ TasksOf(s) = {s[i].task : i \in 1..Len(s)}
  BY <1>1 DEF TasksOf
<1> HIDE DEF j
<1>7. \A t : t \in TasksOf(j) <=> t \in TasksOf(r) \/ t \in TasksOf(s)
  <2>1. ASSUME NEW t \in TasksOf(j) PROVE t \in TasksOf(r) \/ t \in TasksOf(s)
    BY <1>5, <1>6, <2>1
  <2>2. ASSUME NEW t \in TasksOf(r) PROVE t \in TasksOf(j)
    BY <1>3, <1>6, <2>2
  <2>3. ASSUME NEW t \in TasksOf(s) PROVE t \in TasksOf(j)
    BY <1>4, <1>6, <2>3
  <2>4. QED
    BY <2>1, <2>2, <2>3
<1>8. TasksOf(j) = TasksOf(r) \cup TasksOf(s)
  BY <1>7
<1>9. QED
  BY <1>1, <1>8 DEF j

LEMMA TasksOfOne ==
    ASSUME NEW e \in Pushed
    PROVE  <<e>> \in Seq(Pushed) /\ TasksOf(<<e>>) = {e.task}
BY DEF TasksOf

LEMMA TasksOfAppend ==
    ASSUME NEW s \in Seq(Pushed), NEW e \in Pushed
    PROVE  Append(s, e) \in Seq(Pushed) /\ TasksOf(Append(s, e)) = TasksOf(s) \cup {e.task}
<1>1. Append(s, e) = s \o <<e>>
  BY AppendIsConcat
<1>2. QED
  BY <1>1, TasksOfOne, TasksOfJoin

LEMMA TasksOfSplit ==
    ASSUME NEW s \in Seq(Pushed), NEW n \in 1..Len(s)
    PROVE  /\ s[n] \in Pushed
           /\ SubSeq(s, 1, n - 1) \in Seq(Pushed) /\ SubSeq(s, n + 1, Len(s)) \in Seq(Pushed)
           /\ TasksOf(s) \subseteq
                 TasksOf(SubSeq(s, 1, n - 1)) \cup {s[n].task} \cup TasksOf(SubSeq(s, n + 1, Len(s)))
<1> DEFINE before == SubSeq(s, 1, n - 1)
           after == SubSeq(s, n + 1, Len(s))
<1>1. s[n] \in Pushed
  BY ElementOfSeq
<1>2. before \in Seq(Pushed) /\ Len(before) = n - 1 /\ \A i \in 1..n - 1 : before[i] = s[i]
  BY SubSeqProperties
<1>3. after \in Seq(Pushed) /\ Len(after) = Len(s) - n
      /\ \A i \in 1..Len(s) - n : after[i] = s[n + i]
  BY SubSeqProperties
<1> HIDE DEF before, after
<1>4. ASSUME NEW i \in 1..Len(s) PROVE s[i].task \in TasksOf(before) \cup {s[n].task} \cup TasksOf(after)
  <2>1. CASE i < n
    <3>1. i \in DOMAIN before /\ before[i] = s[i]
      BY <1>2, <2>1
    <3>2. QED
      BY <3>1 DEF TasksOf
  <2>2. CASE i = n
    BY <2>2
  <2>3. CASE i > n
    <3>1. i - n \in 1..Len(s) - n /\ n + (i - n) = i
      BY <2>3
    <3>2. i - n \in DOMAIN after /\ after[i - n] = s[i]
      BY <1>3, <3>1
    <3>3. QED
      BY <3>2 DEF TasksOf
  <2>4. QED
    BY <2>1, <2>2, <2>3
<1>5. ASSUME NEW t \in TasksOf(s) PROVE t \in TasksOf(before) \cup {s[n].task} \cup TasksOf(after)
  <2>1. PICK i \in 1..Len(s) : t = s[i].task
    BY DEF TasksOf
  <2>2. QED
    BY <1>4, <2>1
<1>6. QED
  BY <1>1, <1>2, <1>3, <1>5 DEF before, after

(* Put enters the item and drops no task.                                  *)
LEMMA TasksOfPut ==
    ASSUME NEW s \in Seq(Pushed), NEW e \in Pushed
    PROVE  Queue!Put(s, e) \in Seq(Pushed) /\ TasksOf(Queue!Put(s, e)) = TasksOf(s) \cup {e.task}
<1>1. CASE e.task \in TasksOf(s)
  <2> DEFINE r == [i \in DOMAIN s |-> IF s[i].task = e.task THEN e ELSE s[i]]
  <2>1. Queue!Put(s, e) = r
    BY <1>1, SameTasks DEF Queue!Put
  <2>2. DOMAIN r = DOMAIN s /\ \A i \in DOMAIN s : r[i].task = s[i].task /\ r[i] \in Pushed
    BY ElementOfSeq
  <2>3. r \in Seq(Pushed)
    BY <2>2
  <2>4. TasksOf(r) = TasksOf(s)
    BY <2>2 DEF TasksOf
  <2>5. QED
    BY <1>1, <2>1, <2>3, <2>4
<1>2. CASE e.task \notin TasksOf(s)
  BY <1>2, SameTasks, TasksOfAppend DEF Queue!Put
<1>3. QED
  BY <1>1, <1>2

LEMMA TasksOfSooner ==
    ASSUME NEW s \in Seq(Pushed)
    PROVE  Queue!Sooner(s) \in Seq(Pushed) /\ TasksOf(Queue!Sooner(s)) = TasksOf(s)
<1> DEFINE r == [i \in DOMAIN s |-> [s[i] EXCEPT !.wait = IF @ = 0 THEN 0 ELSE @ - 1]]
<1>1. ASSUME NEW i \in DOMAIN s PROVE r[i] \in Pushed /\ r[i].task = s[i].task
  <2> DEFINE w == IF s[i].wait = 0 THEN 0 ELSE s[i].wait - 1
  <2>1. s[i] \in Pushed
    BY ElementOfSeq
  <2>2. w \in Int /\ r[i] = [s[i] EXCEPT !.wait = w]
    BY <2>1 DEF Pushed
  <2> HIDE DEF w, r
  <2>3. QED
    BY <2>1, <2>2 DEF Pushed
<1>2. r \in Seq(Pushed)
  BY <1>1
<1>3. TasksOf(r) = TasksOf(s)
  BY <1>1 DEF TasksOf
<1>4. QED
  BY <1>2, <1>3 DEF Queue!Sooner

-----------------------------------------------------------------------------
(* All that is held and among what is `todo` and `kept` still is.          *)
Proceeded(todo, kept) ==
    /\ queue' \in Seq(Pushed) /\ file' \in Seq(Pushed)
    /\ flushes' \in [Queue!Flushes -> Pushing \cup {None}] /\ faults' \in Nat
    /\ faults' = 0 => faults = 0 /\ (file' = queue' \/ UNCHANGED <<file, queue>>)
    /\ \A t : Held(t) /\ t \in TasksOf(todo) \cup TasksOf(kept) => Held(t)'

(* A flush that goes on, or ends, keeps what it carries and what is in the *)
(* queue, for itself and for the others.                                   *)
LEMMA ProceedKeeps ==
    ASSUME QueueTyped, NEW f \in Queue!Flushes, NEW todo \in Seq(Pushed), NEW ripe \in SUBSET Tasks,
           NEW kept \in Seq(Pushed), NEW live \in BOOLEAN, NEW cost \in Nat,
           Queue!Proceed(f, todo, ripe, kept, live, cost)
    PROVE  Proceeded(todo, kept)
<1> DEFINE next == Queue!SelectInSeq(todo, LAMBDA e : e.task \in ripe)
           begun == [todo |-> SubSeq(todo, next + 1, Len(todo)), ripe |-> ripe, busy |-> todo[next],
                     kept |-> kept \o SubSeq(todo, 1, next - 1), live |-> live]
<1>1. next \in 0..Len(todo)
  <2> DEFINE I == {i \in 1..Len(todo) : todo[i].task \in ripe}
  <2>1. I \subseteq Nat /\ I \subseteq 1..Len(todo) /\ 1..Len(todo) \subseteq 0..Len(todo) /\ 0 \in 0..Len(todo)
    OBVIOUS
  <2>2. next = IF I # {} THEN Queue!Min(I) ELSE 0
    BY DEF Queue!SelectInSeq
  <2> HIDE DEF I, next
  <2>3. I # {} => Queue!Min(I) \in I
    BY <2>1, LeastExists DEF Queue!Min
  <2>4. QED
    BY <2>1, <2>2, <2>3
<1>2. \/ next = 0 /\ Queue!Replaced(f, todo, kept, cost)
      \/ /\ next # 0 /\ flushes' = [flushes EXCEPT ![f] = begun]
         /\ faults' = faults + cost /\ UNCHANGED <<queue, file>>
  BY DEF Queue!Proceed
<1> HIDE DEF next
<1>3. CASE next = 0
  <2>1. /\ queue' = kept \o todo
        /\ flushes' = [g \in Queue!Flushes |->
              IF g = f \/ flushes[g] = None THEN None ELSE [flushes[g] EXCEPT !.live = FALSE]]
        /\ \/ file' = queue' /\ faults' = faults + cost
           \/ file' \in {file, <<>>} /\ faults' = faults + cost + 1
    BY <1>2, <1>3 DEF Queue!Replaced, Queue!Save
  <2>2. queue' \in Seq(Pushed) /\ TasksOf(queue') = TasksOf(kept) \cup TasksOf(todo)
    BY <2>1, TasksOfJoin
  <2>3. file' \in Seq(Pushed) /\ faults' \in Nat /\ (faults' = 0 => faults = 0 /\ file' = queue')
    <3>1. file \in Seq(Pushed) /\ <<>> \in Seq(Pushed) /\ faults \in Nat
      BY EmptySeq DEF QueueTyped
    <3>2. CASE file' = queue' /\ faults' = faults + cost
      BY <2>2, <3>1, <3>2
    <3>3. CASE file' = file /\ faults' = faults + cost + 1
      BY <3>1, <3>3
    <3>4. CASE file' = <<>> /\ faults' = faults + cost + 1
      BY <3>1, <3>4
    <3>5. file' \in {file, <<>>} => file' = file \/ file' = <<>>
      OBVIOUS
    <3>6. QED
      BY <2>1, <3>2, <3>3, <3>4, <3>5
  <2>4. ASSUME NEW g \in Queue!Flushes, flushes'[g] # None
        PROVE  /\ flushes[g] \in Pushing /\ flushes'[g] \in Pushing /\ flushes[g] # None
               /\ \A t : Carries(flushes[g], t) => Carries(flushes'[g], t)
    <3>1. flushes[g] # None /\ flushes'[g] = [flushes[g] EXCEPT !.live = FALSE]
      BY <2>1, <2>4
    <3>2. flushes[g] \in Pushing
      BY <3>1 DEF QueueTyped
    <3>3. QED
      BY <3>1, <3>2 DEF Pushing, Carries
  <2>5. flushes' \in [Queue!Flushes -> Pushing \cup {None}]
    <3>1. \A g \in Queue!Flushes : flushes'[g] \in Pushing \cup {None}
      BY <2>4
    <3>2. QED
      BY <2>1, <3>1
  <2>6. ASSUME NEW t, Held(t), t \in TasksOf(todo) \cup TasksOf(kept) PROVE Held(t)'
    <3>1. t \in TasksOf(queue')
      BY <2>2, <2>6
    <3>2. ASSUME NEW g \in Queue!Active' PROVE Carries(flushes'[g], t)
      BY <2>4, <2>6 DEF Queue!Active, Queue!Flushes, Held
    <3>3. QED
      BY <3>1, <3>2 DEF Held
  <2>7. QED
    BY <2>2, <2>3, <2>5, <2>6 DEF Proceeded
<1>4. CASE next # 0
  <2>1. next \in 1..Len(todo)
    BY <1>1, <1>4
  <2>2. /\ flushes' = [flushes EXCEPT ![f] = begun]
        /\ faults' = faults + cost /\ UNCHANGED <<queue, file>>
    BY <1>2, <1>4
  <2>3. /\ todo[next] \in Pushed
        /\ SubSeq(todo, 1, next - 1) \in Seq(Pushed) /\ SubSeq(todo, next + 1, Len(todo)) \in Seq(Pushed)
        /\ TasksOf(todo) \subseteq TasksOf(SubSeq(todo, 1, next - 1)) \cup {todo[next].task}
                                      \cup TasksOf(SubSeq(todo, next + 1, Len(todo)))
    BY <2>1, TasksOfSplit
  <2>4. /\ kept \o SubSeq(todo, 1, next - 1) \in Seq(Pushed)
        /\ TasksOf(kept \o SubSeq(todo, 1, next - 1)) = TasksOf(kept) \cup TasksOf(SubSeq(todo, 1, next - 1))
    BY <2>3, TasksOfJoin
  <2>5. begun \in Pushing
    BY <2>3, <2>4 DEF Pushing
  <2>6. ASSUME NEW t \in TasksOf(todo) \cup TasksOf(kept) PROVE Carries(begun, t)
    BY <2>3, <2>4 DEF Carries
  <2> HIDE DEF begun
  <2>7. flushes' \in [Queue!Flushes -> Pushing \cup {None}]
    BY <2>2, <2>5 DEF QueueTyped
  <2>8. ASSUME NEW t, Held(t), t \in TasksOf(todo) \cup TasksOf(kept) PROVE Held(t)'
    <3>1. ASSUME NEW g \in Queue!Active' PROVE Carries(flushes'[g], t)
      <4>1. CASE g = f
        BY <2>2, <2>6, <2>8, <4>1 DEF QueueTyped
      <4>2. CASE g # f
        <5>1. g \in Queue!Flushes /\ flushes'[g] = flushes[g] /\ flushes[g] # None
          BY <2>2, <4>2 DEF Queue!Active, Queue!Flushes, QueueTyped
        <5>2. QED
          BY <2>8, <5>1 DEF Held, Queue!Active
      <4>3. QED
        BY <4>1, <4>2
    <3>2. QED
      BY <2>2, <2>8, <3>1 DEF Held
  <2>9. QED
    BY <2>2, <2>7, <2>8 DEF QueueTyped, Proceeded
<1>5. QED
  BY <1>3, <1>4

-----------------------------------------------------------------------------
LEMMA QueueInit == ASSUME Queue!Init PROVE QueueInv
<1>1. <<>> \in Seq(Pushed)
  BY EmptySeq
<1>2. QED
  BY <1>1 DEF Queue!Init, QueueInv, QueueTyped, FileIsQueue, OwedHeld

(* What a new result adds.                                                 *)
LEMMA EnterStep ==
    ASSUME Queue!ConstantsFit, QueueInv, NEW t \in Tasks, Queue!EnqueueResultPush(t)
    PROVE  QueueInv'
<1> USE DEF QueueInv
<1>1. PICK item \in Pushed :
        /\ item.task = t /\ Queue!Entered(item)
        /\ \/ file' = queue' /\ UNCHANGED faults
           \/ file' = queue' /\ faults' = faults + 1
           \/ (file' = file \/ file' = <<>>) /\ faults' = faults + 2
  <2>1. \A tries \in Int : Queue!Item(t, tries) \in Pushed /\ Queue!Item(t, tries).task = t
    BY DEF Queue!ConstantsFit, Queue!Item, Pushed
  <2>2. \/ Queue!Entered(Queue!Item(t, 4)) /\ file' = queue' /\ UNCHANGED faults
        \/ Queue!Entered(Queue!Item(t, 1)) /\ Queue!Save(1)
    BY DEF Queue!EnqueueResultPush, Queue!FailedTries, Queue!ThrownTries
  <2>3. Queue!Save(1) => \/ file' = queue' /\ faults' = faults + 1
                         \/ (file' = file \/ file' = <<>>) /\ faults' = faults + 2
    BY DEF Queue!Save, QueueTyped
  <2>4. QED
    BY <2>1, <2>2, <2>3
<1>2. /\ owed' = owed \cup {t}
      /\ exposed \subseteq exposed'
      /\ t \notin exposed' => t \notin TasksOf(queue) /\ \A f \in Queue!Active : flushes[f].live
      /\ UNCHANGED restarts
  BY SameTasks DEF Queue!EnqueueResultPush
<1>3. queue' \in Seq(Pushed) /\ TasksOf(queue') = TasksOf(queue) \cup {t}
  BY <1>1, TasksOfPut DEF Queue!Entered, QueueTyped
<1>4. flushes' = [f \in Queue!Flushes |-> IF f \in Queue!Active THEN Queue!Reaches(flushes[f], item) ELSE None]
  BY <1>1 DEF Queue!Entered
<1>5. ASSUME NEW w \in Pushing
      PROVE  /\ Queue!Reaches(w, item) \in Pushing
             /\ \A x : Carries(w, x) => Carries(Queue!Reaches(w, item), x)
             /\ w.live /\ t \notin TasksOf(queue) => Carries(Queue!Reaches(w, item), t)
  <2> DEFINE p == Queue!Put(w.todo, item)
             v == [w EXCEPT !.todo = p, !.ripe = w.ripe \ {t}]
  <2>1. p \in Seq(Pushed) /\ TasksOf(p) = TasksOf(w.todo) \cup {t}
    BY <1>1, TasksOfPut DEF Pushing
  <2>2. \/ Queue!Reaches(w, item) = v
        \/ Queue!Reaches(w, item) = w /\ ~(w.live /\ t \notin TasksOf(queue))
    BY <1>1, SameTasks DEF Queue!Reaches
  <2> HIDE DEF p
  <2>3. v \in Pushing /\ v.todo = p /\ v.busy = w.busy /\ v.kept = w.kept
    BY <2>1 DEF Pushing
  <2> HIDE DEF v
  <2>4. QED
    BY <2>1, <2>2, <2>3 DEF Carries
<1>6. ASSUME NEW f \in Queue!Active PROVE flushes[f] \in Pushing /\ f \in Queue!Flushes
  BY <1>6 DEF Queue!Active, QueueTyped
<1>7. QueueTyped'
  <2>1. \A f \in Queue!Flushes : flushes'[f] \in Pushing \cup {None}
    BY <1>4, <1>5, <1>6
  <2>2. file' \in Seq(Pushed) /\ faults' \in Nat
    <3>1. file \in Seq(Pushed) /\ <<>> \in Seq(Pushed) /\ faults \in Nat
      BY EmptySeq DEF QueueTyped
    <3>2. file' \in Seq(Pushed)
      BY <1>1, <1>3, <3>1
    <3>3. faults' \in Nat
      BY <1>1, <3>1
    <3>4. QED
      BY <3>2, <3>3
  <2>3. QED
    BY <1>2, <1>3, <1>4, <2>1, <2>2 DEF QueueTyped, Queue!Flushes
<1>8. FileIsQueue'
  BY <1>1 DEF FileIsQueue, QueueTyped
<1>9. OwedHeld'
  <2> SUFFICES ASSUME faults' = 0 \/ restarts' = 0, NEW x \in owed' \ exposed' PROVE Held(x)'
    BY DEF OwedHeld
  <2>1. faults = 0 \/ restarts = 0
    BY <1>1, <1>2 DEF QueueTyped
  <2>2. x \in TasksOf(queue')
    BY <1>2, <1>3, <2>1 DEF OwedHeld, Held
  <2>3. ASSUME NEW f \in Queue!Active' PROVE Carries(flushes'[f], x)
    <3>1. f \in Queue!Active /\ flushes'[f] = Queue!Reaches(flushes[f], item)
      BY <1>4 DEF Queue!Active, Queue!Flushes
    <3>2. CASE x = t
      BY <1>2, <1>5, <1>6, <3>1, <3>2
    <3>3. CASE x # t
      BY <1>2, <1>5, <1>6, <2>1, <3>1, <3>3 DEF OwedHeld, Held
    <3>4. QED
      BY <3>2, <3>3
  <2>4. QED
    BY <2>2, <2>3 DEF Held
<1>10. QED
  BY <1>7, <1>8, <1>9

(* What goes on, or begins, carries what is owed: only what it leaves of   *)
(* that has been settled.                                                  *)
LEMMA ProceedStep ==
    ASSUME QueueInv, NEW f \in Queue!Flushes, NEW todo \in Seq(Pushed), NEW ripe \in SUBSET Tasks,
           NEW kept \in Seq(Pushed), NEW live \in BOOLEAN, NEW cost \in Nat,
           Queue!Proceed(f, todo, ripe, kept, live, cost), UNCHANGED <<exposed, restarts>>,
           owed' \subseteq owed,
           \A t \in owed' : Held(t) => t \in TasksOf(todo) \cup TasksOf(kept)
    PROVE  QueueInv'
<1>1. QueueTyped /\ FileIsQueue /\ OwedHeld
  BY DEF QueueInv
<1>2. Proceeded(todo, kept)
  BY <1>1, ProceedKeeps
<1>3. QueueTyped'
  BY <1>1, <1>2 DEF QueueTyped, Proceeded, Queue!Flushes
<1>4. FileIsQueue'
  BY <1>1, <1>2 DEF FileIsQueue, Proceeded
<1>5. OwedHeld'
  <2> SUFFICES ASSUME faults' = 0 \/ restarts' = 0, NEW t \in owed' \ exposed' PROVE Held(t)'
    BY DEF OwedHeld
  <2>1. Held(t)
    BY <1>1, <1>2 DEF OwedHeld, Proceeded
  <2>2. QED
    BY <1>2, <2>1 DEF Proceeded
<1>6. QED
  BY <1>3, <1>4, <1>5 DEF QueueInv

LEMMA StartStep == ASSUME QueueInv, NEW f \in Queue!Flushes, Queue!Start(f) PROVE QueueInv'
<1>1. /\ Queue!Proceed(f, queue, Queue!Ripe, <<>>, TRUE, 0)
      /\ UNCHANGED <<owed, exposed, restarts>>
  BY DEF Queue!Start
<1>2. queue \in Seq(Pushed) /\ <<>> \in Seq(Pushed)
  BY EmptySeq DEF QueueInv, QueueTyped
<1>3. Queue!Ripe \subseteq Tasks
  <2>1. \A i \in 1..Len(queue) : queue[i] \in Pushed
    BY <1>2, ElementOfSeq
  <2>2. DOMAIN queue = 1..Len(queue)
    BY <1>2
  <2>3. QED
    BY <2>1, <2>2 DEF Queue!Ripe, Pushed
<1>4. \A t \in owed' : Held(t) => t \in TasksOf(queue) \cup TasksOf(<<>>)
  BY DEF Held
<1>5. QED
  BY <1>1, <1>2, <1>3, <1>4, ProceedStep

LEMMA SettleStep ==
    ASSUME Queue!ConstantsFit, QueueInv, NEW f \in Queue!Flushes, Queue!Settle(f)
    PROVE  QueueInv'
<1> DEFINE w == flushes[f]
           e == w.busy
<1>1. flushes[f] # None
  BY DEF Queue!Settle, Queue!Delivered, Queue!Failed, Queue!Threw, Queue!Abandoned
<1>2. w \in Pushing /\ f \in Queue!Active
  BY <1>1 DEF QueueInv, QueueTyped, Queue!Active
<1>3. /\ w.todo \in Seq(Pushed) /\ w.ripe \in SUBSET Tasks /\ e \in Pushed
      /\ w.kept \in Seq(Pushed) /\ w.live \in BOOLEAN
  BY <1>2 DEF Pushing
<1>4. \A t : Held(t) => t \in TasksOf(w.todo) \cup TasksOf(w.kept) \/ t = e.task
  BY <1>2 DEF Held, Carries
<1> HIDE DEF w
<1>5. ASSUME NEW kept \in Seq(Pushed), NEW cost \in Nat, Queue!Resume(f, kept, cost), owed' \subseteq owed,
             TasksOf(w.kept) \subseteq TasksOf(kept), e.task \in TasksOf(kept) \/ e.task \notin owed'
      PROVE  QueueInv'
  <2>1. /\ Queue!Proceed(f, w.todo, w.ripe, kept, w.live, cost)
        /\ UNCHANGED <<exposed, restarts>>
    BY <1>5 DEF Queue!Resume, w
  <2>2. \A t \in owed' : Held(t) => t \in TasksOf(w.todo) \cup TasksOf(kept)
    BY <1>4, <1>5
  <2>3. QED
    BY <1>3, <1>5, <2>1, <2>2, ProceedStep
<1>6. CASE Queue!Delivered(f)
  <2>1. Queue!Resume(f, w.kept, 0) /\ owed' = owed \ {e.task}
    BY <1>6 DEF Queue!Delivered, w
  <2>2. QED
    BY <1>3, <1>5, <2>1
<1>7. ASSUME NEW tries \in Int, NEW cost \in Nat, Queue!Retried(f, tries, cost) PROVE QueueInv'
  <2> DEFINE again == [e EXCEPT !.tries = tries, !.wait = RetryWait]
  <2>1. \/ Queue!Resume(f, w.kept, cost) /\ owed' = owed \ {e.task}
        \/ Queue!Resume(f, Append(w.kept, again), cost) /\ UNCHANGED owed
    BY <1>7 DEF Queue!Retried, w
  <2>2. again \in Pushed /\ again.task = e.task
    <3>1. RetryWait \in Int
      BY DEF Queue!ConstantsFit
    <3>2. [e EXCEPT !.tries = tries] \in Pushed /\ [e EXCEPT !.tries = tries].task = e.task
      BY <1>3 DEF Pushed
    <3>3. \A x \in Pushed : [x EXCEPT !.wait = RetryWait] \in Pushed /\ [x EXCEPT !.wait = RetryWait].task = x.task
      BY <3>1 DEF Pushed
    <3>4. QED
      BY <3>2, <3>3
  <2> HIDE DEF again
  <2>3. Append(w.kept, again) \in Seq(Pushed) /\ TasksOf(Append(w.kept, again)) = TasksOf(w.kept) \cup {e.task}
    BY <1>3, <2>2, TasksOfAppend
  <2>4. CASE Queue!Resume(f, w.kept, cost) /\ owed' = owed \ {e.task}
    BY <1>3, <1>5, <2>4
  <2>5. CASE Queue!Resume(f, Append(w.kept, again), cost) /\ UNCHANGED owed
    BY <1>5, <2>3, <2>5
  <2>6. QED
    BY <2>1, <2>4, <2>5
<1>8. e.tries + 2 \in Int /\ e.tries + 1 \in Int
  BY <1>3 DEF Pushed
<1>9. CASE Queue!Failed(f)
  BY <1>7, <1>8, <1>9 DEF Queue!Failed, w
<1>10. CASE Queue!Threw(f)
  BY <1>7, <1>8, <1>10 DEF Queue!Threw, w
<1>11. CASE Queue!Abandoned(f)
  <2>1. /\ flushes' = [flushes EXCEPT ![f] = None] /\ faults' = faults + 1
        /\ UNCHANGED <<queue, file, owed, exposed, restarts>>
    BY <1>11 DEF Queue!Abandoned
  <2>2. QueueTyped'
    BY <2>1 DEF QueueInv, QueueTyped, Queue!Flushes
  <2>3. FileIsQueue'
    BY <2>1 DEF QueueInv, QueueTyped, FileIsQueue
  <2>4. \A t : Held(t) => Held(t)'
    <3>1. \A g \in Queue!Active' : g \in Queue!Active /\ flushes'[g] = flushes[g]
      BY <2>1 DEF QueueInv, QueueTyped, Queue!Active, Queue!Flushes
    <3>2. QED
      BY <2>1, <3>1 DEF Held
  <2>5. OwedHeld'
    BY <2>1, <2>4 DEF QueueInv, QueueTyped, OwedHeld
  <2>6. QED
    BY <2>2, <2>3, <2>5 DEF QueueInv
<1>12. QED
  BY <1>6, <1>9, <1>10, <1>11 DEF Queue!Settle

LEMMA TickStep == ASSUME QueueInv, Queue!Tick PROVE QueueInv'
<1> USE DEF QueueInv
<1>1. /\ queue' = Queue!Sooner(queue) /\ file' = Queue!Sooner(file)
      /\ flushes' = [f \in Queue!Flushes |-> IF f \notin Queue!Active THEN None ELSE
            [flushes[f] EXCEPT !.todo = Queue!Sooner(flushes[f].todo), !.kept = Queue!Sooner(flushes[f].kept)]]
      /\ UNCHANGED <<owed, exposed, faults, restarts>>
  BY DEF Queue!Tick
<1>2. queue' \in Seq(Pushed) /\ file' \in Seq(Pushed) /\ TasksOf(queue') = TasksOf(queue)
  BY <1>1, TasksOfSooner DEF QueueTyped
<1>3. ASSUME NEW f \in Queue!Active
      PROVE  flushes'[f] \in Pushing /\ \A t : Carries(flushes[f], t) => Carries(flushes'[f], t)
  <2> DEFINE w == flushes[f]
             todo == Queue!Sooner(w.todo)
             kept == Queue!Sooner(w.kept)
             v == [w EXCEPT !.todo = todo, !.kept = kept]
  <2>1. w \in Pushing /\ f \in Queue!Flushes
    BY <1>3 DEF Queue!Active, QueueTyped
  <2>2. flushes'[f] = v
    BY <1>1, <1>3, <2>1
  <2> HIDE DEF w
  <2>3. /\ todo \in Seq(Pushed) /\ TasksOf(todo) = TasksOf(w.todo)
        /\ kept \in Seq(Pushed) /\ TasksOf(kept) = TasksOf(w.kept)
    BY <2>1, TasksOfSooner DEF Pushing
  <2> HIDE DEF todo, kept
  <2>4. v \in Pushing /\ v.todo = todo /\ v.kept = kept /\ v.busy = w.busy
    BY <2>1, <2>3 DEF Pushing
  <2> HIDE DEF v
  <2>5. \A t : Carries(w, t) => Carries(v, t)
    BY <2>3, <2>4 DEF Carries
  <2>6. QED
    BY <2>2, <2>4, <2>5 DEF w
<1>4. \A f \in Queue!Flushes : f \notin Queue!Active => flushes'[f] = None
  BY <1>1
<1>5. QueueTyped'
  BY <1>1, <1>2, <1>3, <1>4 DEF QueueTyped, Queue!Flushes
<1>6. FileIsQueue'
  BY <1>1 DEF FileIsQueue
<1>7. \A t : Held(t) => Held(t)'
  <2>1. \A f \in Queue!Active' : f \in Queue!Active
    BY <1>4 DEF Queue!Active, Queue!Flushes
  <2>2. QED
    BY <1>2, <1>3, <2>1 DEF Held
<1>8. OwedHeld'
  BY <1>1, <1>7 DEF OwedHeld
<1>9. QED
  BY <1>5, <1>6, <1>8

LEMMA QueueRestart == ASSUME QueueInv, Queue!Restart PROVE QueueInv'
<1> USE DEF QueueInv
<1>1. /\ restarts' = restarts + 1 /\ queue' = file
      /\ flushes' = [f \in Queue!Flushes |-> None]
      /\ UNCHANGED <<file, owed, exposed, faults>>
  BY DEF Queue!Restart
<1>2. QueueTyped' /\ FileIsQueue'
  BY <1>1 DEF QueueTyped, FileIsQueue, Queue!Flushes
<1>3. Queue!Active' = {}
  BY <1>1 DEF Queue!Active, Queue!Flushes
<1>4. OwedHeld'
  <2> SUFFICES ASSUME faults' = 0 \/ restarts' = 0, NEW t \in owed' \ exposed' PROVE Held(t)'
    BY DEF OwedHeld
  <2>1. faults = 0 /\ file = queue
    BY <1>1 DEF QueueTyped, FileIsQueue
  <2>2. Held(t)
    BY <1>1, <2>1 DEF OwedHeld
  <2>3. QED
    BY <1>1, <1>3, <2>1, <2>2 DEF Held
<1>5. QED
  BY <1>2, <1>4

LEMMA QueueStep ==
    ASSUME Queue!ConstantsFit, QueueInv, [Queue!Next]_Queue!vars
    PROVE  QueueInv'
<1>1. CASE UNCHANGED Queue!vars
  BY <1>1 DEF Queue!vars, QueueInv, QueueTyped, FileIsQueue, OwedHeld, Held, Queue!Active, Queue!Flushes
<1>2. ASSUME NEW t \in Tasks, Queue!EnqueueResultPush(t) PROVE QueueInv'
  BY <1>2, EnterStep
<1>3. ASSUME NEW f \in Queue!Flushes, Queue!Start(f) PROVE QueueInv'
  BY <1>3, StartStep
<1>4. ASSUME NEW f \in Queue!Flushes, Queue!Settle(f) PROVE QueueInv'
  BY <1>4, SettleStep
<1>5. CASE Queue!Tick
  BY <1>5, TickStep
<1>6. CASE Queue!Restart
  BY <1>6, QueueRestart
<1>7. QED
  BY <1>1, <1>2, <1>3, <1>4, <1>5, <1>6 DEF Queue!Next

(* For any tasks, any number of overlapping flushes and any faults, a      *)
(* result stays queued until it is delivered or given up, unless it was    *)
(* entered under a flush of an older array or over an earlier result of    *)
(* its task, or a failed save met a restart.                               *)
THEOREM OwedStaysQueued == Queue!ConstantsFit => (Queue!Spec => []OwedKept)
<1> SUFFICES ASSUME Queue!ConstantsFit PROVE Queue!Spec => []OwedKept
  OBVIOUS
<1>1. Queue!Init => QueueInv
  BY QueueInit
<1>2. QueueInv /\ [Queue!Next]_Queue!vars => QueueInv'
  BY QueueStep
<1>3. QueueInv => OwedKept
  BY DEF QueueInv, OwedHeld, Held, OwedKept
<1>4. QED
  BY <1>1, <1>2, <1>3, PTL DEF Queue!Spec
=============================================================================
