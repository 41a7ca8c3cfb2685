----------------------------- MODULE AgentPeers ------------------------------
(***************************************************************************)
(* What an agent has to do with its peers: it opens sessions with them     *)
(* (Handshake), lets them in (PeerAccess), and tells the trust score       *)
(* service of them and asks it (TrustService).  The three share no state.  *)
(***************************************************************************)
EXTENDS Handshake, AccessPromises, TrustPromises

CONSTANTS
    Peers, Commands, Runtime, Sender, Receiver, Policies, MaxTasks, Durations,
    RequestLimit, MaxTime, MaxAdmitted,             \* as in PeerAccess
    Before, Absent, Whole, MaxSends, MaxFaults, MaxStarts   \* as in TrustService

VARIABLES
    half, policy, friends, doing, answers, sessions, cache, editing,   \* as in PeerAccess
    graphFile, sent, submissions, faults, starts                       \* as in TrustService

meeting == vars

access == <<half, now, policy, friends, requests, doing, answers, truth, touched,
            sessions, cache, editing, admitted, removed, held>>

service == <<up, summaries, scored, graph, scores, graphFile, sent, submissions, told,
             lost, behind, faults, starts>>

Access == INSTANCE PeerAccess

Service == INSTANCE TrustService WITH
    requests <- submissions, restarts <- starts, MaxRestarts <- MaxStarts

ASSUME AccessAssumption  == Access!ConstantsFit
ASSUME ServiceAssumption == Service!ConstantsFit
=============================================================================
