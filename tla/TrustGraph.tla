----------------------------- MODULE TrustGraph -----------------------------
(***************************************************************************)
(* The trust graph (src/src/graph/index.ts) as a function of the           *)
(* interactions recorded in it, in their order: [from, to, scene, success, *)
(* weight].  Fractions are rounded down to units.  The factor for the age  *)
(* of an edge is one: interactions are recent.                             *)
(***************************************************************************)
EXTENDS Integers, Sequences, SequencesExt, FiniteSetsExt

CONSTANTS
    Unit,                \* stands for one
    FullConfidenceTasks, \* FULL_CONFIDENCE_TASKS
    MaxDepth             \* DEFAULT_MAX_DEPTH

ASSUME GraphAssumption ==
    /\ Unit \in Nat \ {0}
    /\ FullConfidenceTasks \in Nat \ {0}
    /\ MaxDepth \in Nat \ {0}

Times(a, b) == (a * b) \div Unit

AtMost(a, b) == IF a <= b THEN a ELSE b

(* value and risk of a task in tenths, complexity in units; no task is     *)
(* similar to another one.                                                 *)
calculateTaskWeight(complexity, value, risk) ==
    Times(AtMost(Unit, complexity), (AtMost(10, value) * risk * Unit) \div 100)

-----------------------------------------------------------------------------
NewEdge == [total |-> 0, successful |-> 0, weight |-> 0, good |-> 0, consistency |-> Unit]

(* recordInteraction on the edge of the interaction: the counts, the       *)
(* weights and the running average of how far outcomes are from the rate.  *)
recordInteraction(edge, x) ==
    LET total      == edge.total + 1
        successful == edge.successful + IF x.success THEN 1 ELSE 0
        rate       == (successful * Unit) \div total
        deviation  == IF x.success THEN Unit - rate ELSE rate
    IN  [total |-> total, successful |-> successful,
         weight |-> edge.weight + x.weight,
         good |-> edge.good + IF x.success THEN x.weight ELSE 0,
         consistency |-> (9 * edge.consistency + Unit - deviation) \div 10]

(* The edges are kept by from, to and scene. *)
Edge(log, from, to, scene) ==
    FoldLeft(recordInteraction, NewEdge,
             SelectSeq(log, LAMBDA x : x.from = from /\ x.to = to /\ x.scene = scene))

Links(log, scene) == {<<x.from, x.to>> : x \in {y \in ToSet(log) : y.scene = scene}}

Nodes(log) == {x.from : x \in ToSet(log)} \cup {x.to : x \in ToSet(log)}

(* total_interactions of a node: one for each of its ends. *)
Interactions(log, agent) ==
    FoldLeft(LAMBDA n, x : n + (IF x.from = agent THEN 1 ELSE 0) + (IF x.to = agent THEN 1 ELSE 0),
             0, log)

-----------------------------------------------------------------------------
Confidence(edge) == AtMost(Unit, (edge.total * Unit) \div FullConfidenceTasks)

EdgeTrust(edge) ==
    IF edge.weight = 0 THEN 0
    ELSE Times(Times((edge.good * Unit) \div edge.weight, edge.consistency), Confidence(edge))

directTrust(log, from, to, scene) == EdgeTrust(Edge(log, from, to, scene))

(* 0.7 for each hop but the first; hops is the length of the path so far.  *)
Decayed(trust, hops) == (trust * 7 ^ (hops - 1)) \div 10 ^ (hops - 1)

(* The edges of a scene, with the direct trust of each. *)
Trusts(log, scene) ==
    [link \in Links(log, scene) |-> directTrust(log, link[1], link[2], scene)]

(* The breadth-first search, level by level: the paths in the queue, with  *)
(* one agent more on each level and none through the goal.  A path in the  *)
(* queue is followed when it has at most MaxDepth + 1 agents, so that the  *)
(* goal may be one hop further away than MaxDepth.                         *)
Extended(trusts, item, to) ==
    [path |-> Append(item.path, to), trust |-> Times(item.trust, trusts[<<Last(item.path), to>>])]

Onward(trusts, item) ==
    {link[2] : link \in {l \in DOMAIN trusts : l[1] = Last(item.path) /\ ~Contains(item.path, l[2])}}

(* Mutant: the decay is carried along in the queue, too. *)
QueueDecayed(trusts, from, goal) ==
    LET level[n \in 1..MaxDepth + 1] ==
            IF n = 1 THEN {[path |-> <<from>>, trust |-> Unit]}
            ELSE UNION {{[Extended(trusts, item, v) EXCEPT !.trust = Decayed(@, n - 1)] :
                            v \in Onward(trusts, item) \ {goal}} : item \in level[n - 1]}
    IN  UNION {level[n] : n \in 1..MaxDepth + 1}

Queue(trusts, from, goal) ==
    LET level[n \in 1..MaxDepth + 1] ==
            IF n = 1 THEN {[path |-> <<from>>, trust |-> Unit]}
            ELSE UNION {{Extended(trusts, item, v) : v \in Onward(trusts, item) \ {goal}} :
                            item \in level[n - 1]}
    IN  UNION {level[n] : n \in 1..MaxDepth + 1}

(* What the search finds: the trust along each path to the goal. *)
Found(trusts, from, goal, least) ==
    {Decayed(Extended(trusts, item, goal).trust, Len(item.path)) :
        item \in {i \in Queue(trusts, from, goal) :
                     Len(i.path) >= least /\ goal \in Onward(trusts, i)}}

Best(found) == IF found = {} THEN 0 ELSE Max(found)

indirectTrust(trusts, from, to) == IF from = to THEN 0 ELSE Best(Found(trusts, from, to, 2))

(* The trust of the path it returns, none if that is zero. *)
strongestPath(trusts, from, to) == IF from = to THEN 0 ELSE Best(Found(trusts, from, to, 1))

globalSuccessRate(log) ==
    LET weight == FoldLeft(LAMBDA n, x : n + x.weight, 0, log)
        good   == FoldLeft(LAMBDA n, x : n + IF x.success THEN x.weight ELSE 0, 0, log)
    IN  IF weight = 0 THEN 0 ELSE (good * Unit) \div weight

(* The weight of direct trust passes to indirect trust where there is none. *)
Composite(direct, indirect, rate) ==
    (IF direct = 0 THEN 9 * indirect + rate \div 2 ELSE 6 * direct + 3 * indirect + rate \div 2) \div 10

compositeTrust(log, from, to, scene) ==
    Composite(directTrust(log, from, to, scene), indirectTrust(Trusts(log, scene), from, to),
              globalSuccessRate(log))

(* queryTrust: with the score of the other agent, in hundredths. *)
queryTrust(log, from, to, scene, score) ==
    (6 * compositeTrust(log, from, to, scene) + 4 * ((score * Unit) \div 10000)) \div 10
=============================================================================
