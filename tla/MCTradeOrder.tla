---------------------------- MODULE MCTradeOrder ----------------------------
\* A free order under one kind of mishap at a time; one with a price, whose
\* deposit may have to be made twice; and two of these, one of them cancelled.
EXTENDS TradeOrder
CONSTANTS o1, o2
KeyedHere == {"milestone_rejected"}
Once(S) == [n \in S |-> 1]
FreeOrder(m, p, h, f, n, v, c) ==
    [orders |-> {o1}, paid |-> {}, milestones |-> m, policy |-> p, hand |-> Once(h), faults |-> f, heard |-> n, views |-> v, commands |-> c]
PaidOrders(os, h, f) ==
    [orders |-> os, paid |-> os, milestones |-> 1, policy |-> {"paid"}, hand |-> h, faults |-> f, heard |-> 0, views |-> 1, commands |-> 1]
BudgetsHere ==
    {FreeOrder(1, {"free"}, {}, 1, 0, 1, 1), FreeOrder(1, {"free"}, {}, 0, 1, 1, 1), FreeOrder(1, {"free"}, {}, 0, 0, 2, 2), FreeOrder(2, {"free"}, {}, 0, 0, 1, 1),
     FreeOrder(1, {}, {"accept", "reject"}, 0, 0, 1, 1), FreeOrder(1, {}, {"policy"}, 0, 0, 1, 1),
     PaidOrders({o2}, [n \in {"escrow"} |-> 2], 1), PaidOrders({o1, o2}, Once({"order-cancel"}), 0)}
    \cup {FreeOrder(1, {"free"}, h, 0, 0, 1, 1) :
             h \in {{"order-cancel"}, {"milestone-submit"}, {"milestone-verify"}, {"milestone-feedback"},
                    {"milestone-arbitrate"}, {"complete", "trade-task"}}}
=============================================================================
