----------------------------- MODULE AgentTask ------------------------------
(***************************************************************************)
(* What an agent keeps of one task: the trace and its file; the            *)
(* compensations to run if the task fails; the traces of the tool proxy    *)
(* and what is made of them.  They share no state.                         *)
(***************************************************************************)
EXTENDS ExecutionTrace

CONSTANTS
    MaxCompensations,   \* bound on the compensations that are registered
    RollbackCalls,      \* the calls of rollback, each made at most once
    Tasks, MaxGateways, ToolCalls, MaxStarts, None   \* as in ToolProxy

VARIABLES
    actions, status, begun, rollbacks, runs,   \* as in Rollback
    overlapped,  \* history: compensations run while another call awaited them
    taskGateways, traces, registered, state, gatewayOf, returned, proved, starts   \* as in ToolProxy

object == vars

compensations == <<actions, status, begun, rollbacks, runs, overlapped>>

gateways == <<taskGateways, traces, registered, state, gatewayOf, returned, proved, starts>>

Undo == INSTANCE Rollback WITH Calls <- RollbackCalls, shared <- overlapped

Proxy == INSTANCE ToolProxy WITH
    Calls <- ToolCalls, Note <- Plain, Interval <- CheckpointInterval, MaxRestarts <- MaxStarts,
    trace <- traces, restarts <- starts

ASSUME AgentTaskAssumption ==
    /\ ToolCalls \subseteq Data
    /\ None \notin Proxy!Gateways \cup Trace \cup Seq(Event)
    /\ None \notin [from : Proxy!Gateways \cup {None}, events : Seq(Event)]

(* What runs twice, as Rollback states it; what the tool proxy returns, as *)
(* ToolProxy states it.                                                    *)
RunOnceUnlessShared == Undo!RunOnceUnlessShared
ReturnedIsComplete  == Proxy!ReturnedIsComplete
=============================================================================
