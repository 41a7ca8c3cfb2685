---------------------------- MODULE MCAgentHooks ----------------------------
(* Two hooks, for an order or for a peer's task, one slot, and each mishap   *)
(* by itself: repeated callbacks, a restart, a user and old notifications    *)
(* that interfere, a fallback for a task.                                    *)
EXTENDS AgentHooks

CONSTANTS o1, t1
const_Orders == {o1}
const_Tasks == {t1}

Quiet == [calls |-> 1, restarts |-> 0, retries |-> 0, hand |-> FALSE, old |-> FALSE, tasks |-> FALSE]
const_Budgets == {[Quiet EXCEPT !.calls = 2],
                  [Quiet EXCEPT !.restarts = 1],
                  [Quiet EXCEPT !.hand = TRUE, !.old = TRUE],
                  [Quiet EXCEPT !.retries = 1, !.tasks = TRUE]}
=============================================================================
