--------------------------- MODULE ExecutionTrace ---------------------------
(***************************************************************************)
(* One task's ExecutionTrace object and the JSONL file behind it           *)
(* (src/src/trace/index.ts).  With autoSave every event is appended to the *)
(* file as it is recorded; saveToFile rewrites the file; loadFromFile      *)
(* builds a new object from it.  A write may fail and leave a partial      *)
(* line, and the process may die between any two calls and come back       *)
(* either by loading the file or with a fresh trace for the same task.     *)
(***************************************************************************)
EXTENDS TraceLog, FiniteSets

CONSTANTS
    Plain,            \* data that JSON carries unchanged
    Sparse,           \* data with an undefined member, hashed as such
    Stripped,         \* what JSON.parse(JSON.stringify(Sparse)) gives
    AppendTypes,      \* the types callers append themselves
    CheckpointInterval, DefaultInterval,
    MaxEvents,        \* bound on the events of a trace and the lines of the file
    MaxFaults,        \* bound on the writes that fail
    MaxRestarts       \* bound on the crashes

ASSUME ExecutionTraceAssumption ==
    /\ {Plain, Sparse, Stripped} \subseteq Data
    /\ Sparse \notin {Plain, Stripped, Summary}
    /\ AppendTypes \subseteq EventTypes \ (Verdicts \cup {"CHECKPOINT"})
    /\ CheckpointInterval \in Nat /\ DefaultInterval \in Nat
    /\ MaxEvents \in Nat /\ MaxFaults \in Nat /\ MaxRestarts \in Nat

VARIABLES
    trace,      \* the object; while the process is down, what it last held
    up,         \* the process is running
    autoSave,   \* storage.autoSave of the object
    lines,      \* the complete lines of the file
    torn,       \* the file ends in a partial line
    faults,     \* writes that failed so far
    shared,     \* history: a second trace was started on a file in use
    restarts

vars == <<trace, up, autoSave, lines, torn, faults, shared, restarts>>

Strip(d) == IF d = Sparse THEN Stripped ELSE d

(* JSON.stringify of an event, read back. *)
RoundTrip(e) == [e EXCEPT !.data = Strip(@)]

Serialised(es) == [i \in 1..Len(es) |-> RoundTrip(es[i])]

(* The events t holds beyond its first n. *)
From(t, n) == SubSeq(t.events, n + 1, Len(t.events))

Init ==
    /\ trace = NewTrace(CheckpointInterval)
    /\ up = TRUE
    /\ autoSave \in BOOLEAN
    /\ lines = <<>> /\ torn = FALSE
    /\ faults = 0 /\ shared = FALSE
    /\ restarts = 0

HasRoom == Len(trace.events) + 2 <= MaxEvents /\ Len(lines) + 2 <= MaxEvents

(* appendEventToFile for each of es.  A line written after a partial one   *)
(* continues that line, so it cannot be read back either.                  *)
WithLines(es) == IF autoSave /\ ~torn THEN lines \o Serialised(es) ELSE lines

(* Mutant: the seal is not looked at. *)
CommitSealed(t) ==
    /\ up /\ HasRoom
    /\ trace' = t
    /\ lines' = WithLines(From(t, Len(trace.events)))
    /\ UNCHANGED <<up, autoSave, torn, faults, shared, restarts>>

(* A call that goes through leaves the trace t and writes what it added.   *)
Commit(t) ==
    /\ up /\ IsOpen(trace) /\ HasRoom
    /\ trace' = t
    /\ lines' = WithLines(From(t, Len(trace.events)))
    /\ UNCHANGED <<up, autoSave, torn, faults, shared, restarts>>

AppendEvent(type, data) ==
    Commit(Appended(trace, type, data))

Checkpoint == Commit(WithCheckpoint(trace))

Finalize(data) == Commit(Finalized(trace, data))

Fail(data) == Commit(Failed(trace, data))

(* What a call goes through, one element per event it records. *)
Calls ==
    {Stages(trace, type, data) : type \in AppendTypes \cup Verdicts, data \in {Plain, Sparse}}
        \cup {<<WithCheckpoint(trace)>>}

(* The write of the k-th event of a call fails: the exception leaves       *)
(* append, and finalize, fail or checkpoint with it, while the event is in *)
(* memory, the flags are not set and half a line may be in the file.       *)
WriteFails ==
    /\ up /\ autoSave /\ IsOpen(trace) /\ HasRoom
    /\ \E stages \in Calls : \E k \in 1..Len(stages) :
           /\ trace' = stages[k]
           /\ lines' = WithLines(SubSeq(From(stages[k], Len(trace.events)), 1, k - 1))
    /\ torn' \in {torn, TRUE}
    /\ faults < MaxFaults /\ faults' = faults + 1
    /\ UNCHANGED <<up, autoSave, shared, restarts>>

(* Mutant: the file is not truncated first. *)
SaveAppends ==
    /\ up
    /\ lines' = lines \o Serialised(trace.events) /\ torn' = FALSE
    /\ UNCHANGED <<trace, up, autoSave, faults, shared, restarts>>

(* saveToFile truncates the file and writes every event; interrupted, it   *)
(* leaves some of them.                                                    *)
SaveToFile ==
    /\ up
    /\ lines' = Serialised(trace.events) /\ torn' = FALSE
    /\ UNCHANGED <<trace, up, autoSave, faults, shared, restarts>>

SaveFails ==
    /\ up
    /\ \E n \in 0..Len(trace.events) :
           lines' = SubSeq(Serialised(trace.events), 1, n)
    /\ torn' \in BOOLEAN
    /\ faults < MaxFaults /\ faults' = faults + 1
    /\ UNCHANGED <<trace, up, autoSave, shared, restarts>>

(* The process dies between two calls, or inside one: after the k-th event *)
(* was recorded and with it or only its predecessors written.              *)
Die ==
    /\ up /\ restarts < MaxRestarts
    /\ up' = FALSE
    /\ restarts' = restarts + 1
    /\ UNCHANGED <<autoSave, faults, shared>>

Crash == Die /\ UNCHANGED <<trace, lines, torn>>

CrashInCall ==
    /\ Die /\ IsOpen(trace) /\ HasRoom
    /\ \E stages \in Calls : \E k \in 1..Len(stages) : \E w \in {k - 1, k} :
           /\ trace' = stages[k]
           /\ lines' = WithLines(SubSeq(From(stages[k], Len(trace.events)), 1, w))
           /\ torn' \in IF autoSave /\ w < k THEN {torn, TRUE} ELSE {torn}

(* loadFromFile throws on an empty file and on a line that does not parse. *)
Loadable == lines # <<>> /\ ~torn

(* Mutant: the flags are left as the constructor sets them. *)
LoadedOpen(es) ==
    [events |-> es, seq |-> es[Len(es)].seq + 1, since |-> 0,
     interval |-> DefaultInterval, finalized |-> FALSE, failed |-> FALSE]

Loaded(es) ==
    [events |-> es, seq |-> es[Len(es)].seq + 1, since |-> 0,
     interval |-> DefaultInterval,
     finalized |-> Positions(es, "TASK_RESULT") # {},
     failed |-> Positions(es, "TASK_FAILED") # {}]

Load ==
    /\ ~up /\ Loadable
    /\ trace' = Loaded(lines)
    /\ up' = TRUE
    /\ autoSave' = FALSE
    /\ UNCHANGED <<lines, torn, faults, shared, restarts>>

(* A fresh object for the same task id appends to the same file. *)
StartOver ==
    /\ ~up
    /\ trace' = NewTrace(CheckpointInterval)
    /\ up' = TRUE
    /\ autoSave' \in BOOLEAN
    /\ shared' = (shared \/ lines # <<>> \/ torn)
    /\ UNCHANGED <<lines, torn, faults, restarts>>

Next ==
    \/ \E type \in AppendTypes, data \in {Plain, Sparse} : AppendEvent(type, data)
    \/ Checkpoint
    \/ \E data \in {Plain, Sparse} : Finalize(data) \/ Fail(data)
    \/ WriteFails
    \/ SaveToFile
    \/ SaveFails
    \/ Crash
    \/ CrashInCall
    \/ Load
    \/ StartOver

Spec == Init /\ [][Next]_vars

-----------------------------------------------------------------------------
(* Every variable has its type. *)
TypeOK ==
    /\ trace \in Trace
    /\ up \in BOOLEAN /\ autoSave \in BOOLEAN
    /\ lines \in Seq(Event)
    /\ torn \in BOOLEAN /\ shared \in BOOLEAN
    /\ faults \in 0..MaxFaults
    /\ restarts \in 0..MaxRestarts

(* No write has failed and the file holds one trace only. *)
Intact == faults = 0 /\ ~shared

(* Whatever is called, and whichever write fails under it, a chain that    *)
(* verifies still verifies afterwards: append, the checkpoint inside it    *)
(* and both verdicts link to what is really the last event.                *)
ChainExtends ==
    [][up /\ up' /\ Verify(trace.events) => Verify(trace'.events)]_vars

(* A sealed trace accepts nothing more for as long as its process lives,   *)
(* although finalize sets its flag only after two appends.                 *)
SealHolds == [][up /\ up' /\ ~IsOpen(trace) => trace' = trace]_vars

(* A verdict given before a crash is still there after the trace has been  *)
(* loaded again: no call can be traced after it.                           *)
SealSurvivesRestart ==
    [][Load /\ Intact /\ autoSave /\ ~IsOpen(trace) => ~IsOpen(trace')]_vars

(* An undamaged file whose events carry only what JSON can carry verifies  *)
(* when it is read back, including what was appended after earlier loads.  *)
CleanFileVerifies ==
    Intact /\ (\A i \in 1..Len(lines) : lines[i].data # Stripped) => Verify(lines)
=============================================================================
