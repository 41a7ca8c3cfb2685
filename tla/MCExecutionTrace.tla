-------------------------- MODULE MCExecutionTrace --------------------------
(* Instances of AgentTask: its parts share no state, so each behaviour     *)
(* follows one: a trace with its file; the traces of the tool proxy; the   *)
(* compensations of a task that failed.                                    *)
(* The trace has up to four events with a checkpoint due every two, one    *)
(* kind of ordinary event, two crashes.                                    *)
EXTENDS AgentTask, TLC

CONSTANTS plain, sparse, stripped, summary, t1, k1, k2

MCData == {plain, sparse, stripped, summary, k1, k2}
MCAppendTypes == {"TOOL_CALL"}

MCTasks == {t1}
MCToolCalls == {k1, k2}

-----------------------------------------------------------------------------
CONSTANTS r1, r2, r3

MCRollbackCalls == {r1, r2, r3}

MCSymmetry == Permutations(MCRollbackCalls)

-----------------------------------------------------------------------------
VARIABLE role

MCInit ==
    /\ role \in {"trace", "proxy", "rollback"}
    /\ Init /\ (role # "trace" => autoSave)
    /\ Proxy!Init /\ Undo!Init

MCNext ==
    \/ role = "trace" /\ Next /\ UNCHANGED <<role, gateways, compensations>>
    \/ role = "proxy" /\ Proxy!Next /\ UNCHANGED <<role, object, compensations>>
    \/ role = "rollback" /\ Undo!Next /\ UNCHANGED <<role, object, gateways>>

MCSpec == MCInit /\ [][MCNext]_<<role, object, gateways, compensations>>
=============================================================================
