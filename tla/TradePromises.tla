--------------------------- MODULE TradePromises ----------------------------
(***************************************************************************)
(* What the file of tracked orders promises (src/bin/atel.mjs), over the   *)
(* state that takes; see AccessPromises for why it stands apart from       *)
(* module TradeOrder, which changes that state.                            *)
(***************************************************************************)
VARIABLES
    order,      \* the platform's orders
    tracked,    \* trade-orders.json of each agent
    mine,       \* history: orders whose tracking an agent wrote down
    overlapped  \* history: orders in a file that was not what its writer had read

Agents == {"requester", "executor"}
Terminal == {"cancelled", "settled", "rejected", "expired"}

\* An order an agent has begun to track stays in its file at least until it is
\* closed, unless another process wrote the file between the read and the
\* write of the one that lost it, or a write was cut short (trackOrder,
\* untrackOrder).
KeptTracked ==
    \A a \in Agents : \A o \in mine[a] :
        order[o].status \notin Terminal => o \in tracked[a] \cup overlapped[a]
=============================================================================
