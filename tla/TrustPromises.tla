---------------------------- MODULE TrustPromises ---------------------------
(***************************************************************************)
(* What the trust score service (src/src/service) promises of its memory   *)
(* and of the summaries it reported as synced, over the state that takes;  *)
(* see AccessPromises for why it stands apart from module TrustService.    *)
(***************************************************************************)
EXTENDS TrustGraph, FiniteSets

CONSTANTS
    Summaries,
    About,  \* the interaction each summary is about
    Torn    \* the state of a file that does not parse

VARIABLES
    up,
    summaries,  \* the service's list
    scored,     \* what the TrustScoreClient was fed
    graph,      \* what the TrustGraph was fed
    scores,     \* scores.json: [state |-> Whole, of |-> its summaries], or no summaries
    told,       \* what the adapter reported of the last submission of a summary
    lost,       \* history: a start found scores.json torn
    behind      \* history: since the last start that could read graph.json one
                \* that could not began a process, or changed its summaries

Copies(log, s) == Cardinality({i \in 1..Len(log) : log[i] = s})

(* Scores and graph are made of the listed summaries, each counted once and*)
(* in their order, whichever writes failed and whatever a start found on   *)
(* disk - the graph unless graph.json could not be read                    *)
(* (service/index.ts:113-169, 182-217).                                    *)
MemoryIsOfSummaries ==
    up => scored = summaries /\ (~behind => graph = summaries)

(* A summary reported as synced is in the memory of the service or, while  *)
(* that is down, in its file, unless a start found the file torn: a save   *)
(* that failed half-way does not cost it.                                  *)
SyncedKept ==
    ~lost => \A s \in Summaries : told[s] = "synced" =>
        IF up THEN Copies(summaries, s) > 0
        ELSE scores.state = Torn \/ Copies(scores.of, s) > 0

(* What the trust queries search for: the simple paths of so many hops     *)
(* between two agents, and the trust along each.                           *)
Paths(trusts, nodes, from, to, hops) ==
    {p \in {<<from>> \o q \o <<to>> : q \in [1..hops - 1 -> nodes \ {from, to}]} :
        /\ IsInjective(p)
        /\ \A i \in 1..hops : <<p[i], p[i + 1]>> \in DOMAIN trusts}

Along(trusts, p) ==
    LET carried[i \in 1..Len(p)] ==
            IF i = 1 THEN Unit ELSE Times(carried[i - 1], trusts[<<p[i - 1], p[i]>>])
    IN  carried[Len(p)]

PathTrust(trusts, p) == Decayed(Along(trusts, p), Len(p) - 1)

BestPath(trusts, nodes, from, to, least, most) ==
    Best(UNION {{PathTrust(trusts, p) : p \in Paths(trusts, nodes, from, to, n)} : n \in least..most})

(* The searches find the best path of up to so many hops, indirectTrust    *)
(* among those through others, strongestPath among all, whatever graph the *)
(* service has come to hold.                                               *)
Finds(most) ==
    LET log   == [i \in 1..Len(graph) |-> About[graph[i]]]
        nodes == Nodes(log)
    IN  \A scene \in {x.scene : x \in ToSet(log)} :
            LET trusts == Trusts(log, scene)
            IN  \A from \in nodes, to \in nodes : from # to =>
                    /\ indirectTrust(trusts, from, to) = BestPath(trusts, nodes, from, to, 2, most)
                    /\ strongestPath(trusts, from, to) = BestPath(trusts, nodes, from, to, 1, most)

(* Though they go level by level and stop, the searches miss no path of up *)
(* to one hop more than MaxDepth and take none that is longer: a goal is   *)
(* looked for beyond the last level that is entered (graph/index.ts:       *)
(* 323-343, 464-488).                                                      *)
PathsAreBest == Finds(MaxDepth + 1)

(* The searches go as deep as their comments say, "BFS, max depth 3", where*)
(* the example counts a path through one other as "depth=2", and "any depth*)
(* up to 3" (graph/index.ts:300, 307, 455).                                *)
DepthAsDocumented == Finds(MaxDepth)
=============================================================================
