---------------------------- MODULE MCAgentPeers -----------------------------
(* An instance of AgentPeers.  Each behaviour follows one of the three     *)
(* components.  The handshakes are of two agents; what lets peers in, of   *)
(* one that asks for friendship and is asked, two sessions for it, one     *)
(* after the other or, if two commands overlap, at once, and two commands  *)
(* beside the runtime.  Of the trust service, four summaries on file make a*)
(* chain of four hops from a to e; those to come strengthen a link, close a*)
(* shorter way, or tell that the last agent failed.                        *)
EXTENDS AgentPeers, TLC

CONSTANTS ann, in1, out1, s1, s2, s3, s4, s5, s6

MCSender == in1 :> ann
MCReceiver == out1 :> ann
MCPolicies == {[auto |-> FALSE, blocked |-> {}], [auto |-> TRUE, blocked |-> {}],
               [auto |-> TRUE, blocked |-> {ann}]}
MCSymmetry == Permutations(SessionIds) \cup Permutations(Commands)

-----------------------------------------------------------------------------
Interaction(from, to, success, weight) ==
    [from |-> from, to |-> to, scene |-> "general", success |-> success, weight |-> weight]

MCAbout ==
    [s \in Summaries |->
        CASE s = s1 -> Interaction("a", "b", TRUE, calculateTaskWeight(5000, 5, 20))
          [] s = s2 -> Interaction("b", "d", TRUE, calculateTaskWeight(5000, 1, 5))
          [] s = s3 -> Interaction("b", "c", TRUE, calculateTaskWeight(9000, 10, 30))
          [] s = s4 -> Interaction("c", "d", TRUE, calculateTaskWeight(5000, 1, 5))
          [] s = s5 -> Interaction("d", "e", TRUE, calculateTaskWeight(10000, 2, 10))
          [] s = s6 -> Interaction("d", "e", FALSE, calculateTaskWeight(5000, 1, 5))]

MCSends == [s \in Summaries |-> CASE s = s3 -> 2 [] s \in {s2, s6} -> 1 [] OTHER -> 0]

MCBefore == <<s1, s4, s3, s5>>

(* The same chain, whose last link comes by itself. *)
ChainBefore == <<s1, s4, s3>>

ChainSends == [s \in Summaries |-> IF s = s5 THEN 1 ELSE 0]

-----------------------------------------------------------------------------
VARIABLE role

(* A service that is not started. *)
Off ==
    /\ up = FALSE /\ summaries = <<>> /\ scored = <<>> /\ graph = <<>>
    /\ scores = Service!Holds(Before) /\ graphFile = Whole
    /\ sent = [s \in Summaries |-> 0] /\ submissions = {}
    /\ told = [s \in Summaries |-> "nothing"]
    /\ lost = FALSE /\ behind = FALSE /\ faults = 0 /\ starts = 0

MCInit ==
    /\ role \in {"meeting", "access", "service"}
    /\ Init
    /\ Access!Init /\ (role # "access" => half = "requests" /\ policy = [auto |-> FALSE, blocked |-> {}])
    /\ IF role = "service" THEN Service!Init ELSE Off

MCNext ==
    \/ role = "meeting" /\ Next /\ UNCHANGED <<role, access, service>>
    \/ role = "access" /\ Access!Next /\ UNCHANGED <<role, meeting, service>>
    \/ role = "service" /\ Service!Next /\ UNCHANGED <<role, meeting, access>>

MCSpec == MCInit /\ [][MCNext]_<<role, meeting, access, service>>
=============================================================================
