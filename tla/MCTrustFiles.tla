--------------------------- MODULE MCTrustFiles -----------------------------
(* An instance of TaskHistory and one of TrustFiles in one run: an agent   *)
(* keeps one kind of file as a requester and the other as an executor.     *)
(* They share no state, so each behaviour follows one of the two; and the  *)
(* executor's jobs do not all come at once.                                *)
EXTENDS AgentFiles, TLC

CONSTANTS relayed, again, direct, once, twice, other

MCTask    == [s \in Sends |-> CASE s = relayed -> once [] s = direct -> twice [] OTHER -> other]
MCRisk    == [s \in Sends |-> IF s = direct THEN "high" ELSE "low"]
MCBefore  == [tasks |-> 13, successes |-> 13, proofs |-> 13, verified |-> 13]

MCResults == {[status |-> "completed", anchored |-> TRUE], [status |-> "failed", anchored |-> FALSE]}

MCOutcomes == {o \in [Tasks -> MCResults] : o[once] # o[other] /\ o[twice] = o[once]}

-----------------------------------------------------------------------------
CONSTANTS r1, r2, e1, c1, c2, t1, o1

MCSubject == [j \in Results \cup Echoes \cup Completes |-> CASE j \in Results -> t1 [] j \in Echoes -> j [] OTHER -> o1]
MCEarlier == [records |-> <<>>, summaries |-> <<>>]

(* Two runs of the command on one order differ in nothing. *)
MCSymmetry == Permutations({c1, c2})

-----------------------------------------------------------------------------
VARIABLE role

(* The jobs at which each role does not come. *)
Idle ==
    CASE role = "commands" -> {{e1, r2}}
      [] role = "runtime"  -> {{r2, c1}, {r2, c2}}
      [] OTHER             -> {{e1, c1, c2}}

MCInit ==
    /\ role \in {"requester", "commands", "runtime", "posts"}
    /\ Init /\ (role # "requester" => outcome[once].anchored)
    /\ Executor!Init
    /\ \A j \in Executor!Jobs :
           role = "requester" \/ (\A jobs \in Idle : j \in jobs) => success[j]

Works == Executor!Next /\ \E jobs \in Idle : \A j \in jobs : step'[j] = "idle"

MCNext ==
    \/ role = "requester" /\ Next /\ UNCHANGED <<role, worker>>
    \/ role # "requester" /\ Works /\ UNCHANGED <<role, requester>>

MCSpec == MCInit /\ [][MCNext]_<<role, worker, requester>>
=============================================================================
