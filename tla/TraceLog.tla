------------------------------ MODULE TraceLog ------------------------------
(***************************************************************************)
(* The in-memory part of an execution trace (src/src/trace/index.ts): a    *)
(* hash-chained list of events that is checkpointed every so many events   *)
(* and sealed by a verdict, TASK_RESULT or TASK_FAILED.  The module has no *)
(* variables: a trace is a record, and every method of the class is an     *)
(* operator from a trace to the trace it leaves behind.  ExecutionTrace    *)
(* (persistence) and TaskExecution (the gateway and the orchestrator) are  *)
(* built on it.                                                            *)
(*                                                                         *)
(* SHA-256 is collision free: a hash is modelled by what it commits to,    *)
(* the chain of <<seq, type, data>> preimages that leads to it.            *)
(* Timestamps are left out.                                                *)
(***************************************************************************)
EXTENDS Naturals, Sequences

CONSTANTS
    Data,    \* what events can carry
    Summary  \* the data of a checkpoint: counts and Merkle root of what precedes

ASSUME SummaryAssumption == Summary \in Data

Verdicts == {"TASK_RESULT", "TASK_FAILED"}

(* What the runtime appends besides, which the types do not hold back. *)
RuntimeTypes ==
    {"TASK_RECEIVED", "CAPABILITY_CHECK", "CONTENT_AUDIT", "TASK_FORWARDED",
     "EXECUTOR_RESULT", "OUTPUT_AUDIT"}

EventTypes ==
    {"TASK_ACCEPTED", "TOOL_CALL", "TOOL_RESULT", "POLICY_CHECK",
     "POLICY_VIOLATION", "CHECKPOINT", "ROLLBACK", "THINKING_CHAIN"} \cup Verdicts \cup RuntimeTypes

GenesisPrev == <<>>

EventHash(seq, type, data, prev) == Append(prev, <<seq, type, data>>)

Hash == Seq(Nat \X EventTypes \X Data)

Event == [seq : Nat, type : EventTypes, data : Data, prev : Hash, hash : Hash]

(* events, seq and since are the fields events, seq, eventsSinceCheckpoint *)
(* of the class; interval is its checkpointInterval.                       *)
Trace == [events : Seq(Event), seq : Nat, since : Nat, interval : Nat,
          finalized : BOOLEAN, failed : BOOLEAN]

NewTrace(interval) ==
    [events |-> <<>>, seq |-> 0, since |-> 0, interval |-> interval,
     finalized |-> FALSE, failed |-> FALSE]

IsOpen(t) == ~t.finalized /\ ~t.failed

(* Mutant: the chain links to a hash remembered from the first append. *)
LastHashStale(es) == IF es = <<>> THEN GenesisPrev ELSE es[1].hash

LastHash(es) == IF es = <<>> THEN GenesisPrev ELSE es[Len(es)].hash

MakeEvent(t, type, data) ==
    [seq |-> t.seq, type |-> type, data |-> data, prev |-> LastHash(t.events),
     hash |-> EventHash(t.seq, type, data, LastHash(t.events))]

(* The body of append up to the automatic checkpoint. *)
Push(t, type, data) ==
    [t EXCEPT !.events = Append(@, MakeEvent(t, type, data)),
              !.seq    = @ + 1,
              !.since  = @ + 1]

WithCheckpoint(t) == [Push(t, "CHECKPOINT", Summary) EXCEPT !.since = 0]

CheckpointDue(t, type) == type # "CHECKPOINT" /\ t.since >= t.interval

(* The traces append goes through: the event, then the checkpoint it owes. *)
Stages(t, type, data) ==
    LET p == Push(t, type, data)
    IN  IF CheckpointDue(p, type) THEN <<p, WithCheckpoint(p)>> ELSE <<p>>

Appended(t, type, data) ==
    LET p == Push(t, type, data)
    IN  IF CheckpointDue(p, type) THEN WithCheckpoint(p) ELSE p

(* finalize and fail append their verdict first and set the flag after. *)
Finalized(t, data) ==
    [Appended(t, "TASK_RESULT", data) EXCEPT !.finalized = TRUE]

Failed(t, data) ==
    [Appended(t, "TASK_FAILED", data) EXCEPT !.failed = TRUE]

Sealed(t, verdict, data) ==
    IF verdict = "TASK_RESULT" THEN Finalized(t, data) ELSE Failed(t, data)

(* verify(): every prev pointer and every recomputed hash. *)
LinkOK(es, i) == es[i].prev = IF i = 1 THEN GenesisPrev ELSE es[i - 1].hash

HashOK(e) == e.hash = EventHash(e.seq, e.type, e.data, e.prev)

Verify(es) == \A i \in 1..Len(es) : LinkOK(es, i) /\ HashOK(es[i])

Positions(es, type) == {i \in 1..Len(es) : es[i].type = type}

VerdictPositions(es) == {i \in 1..Len(es) : es[i].type \in Verdicts}

=============================================================================
