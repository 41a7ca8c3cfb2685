----------------------------- MODULE AgentFiles -----------------------------
(***************************************************************************)
(* The files an agent keeps of tasks: the trust file as a requester        *)
(* (TaskHistory), scores, traces and anchors as an executor (TrustFiles).  *)
(* The two share no state.                                                 *)
(***************************************************************************)
EXTENDS TaskHistory

CONSTANTS
    Results, Echoes, Completes, Subject, Earlier, MaxStarts, MaxFaults   \* as in TrustFiles

VARIABLES
    step, success, anchored, told, file, memory, copy, traces, chain, order, disputed,
    published, pushing, starts, faults, blind, met, wrote, exposed       \* as in TrustFiles

requester == <<executor, inbox, commands>>

worker == <<step, success, anchored, told, file, memory, copy, traces, chain, order, disputed,
            published, pushing, blind, met, wrote, exposed, starts, faults>>

Executor == INSTANCE TrustFiles

(* What a record keeps, the records of before by no job of the model. *)
ScoreRecord == [job : Executor!Jobs \cup {None}, success : BOOLEAN, verified : BOOLEAN,
                high : BOOLEAN, violations : Nat]

ScoreFile == [records : Seq(ScoreRecord), summaries : Seq(ScoreRecord)]

(* Tasks are named by the runtime, an echoed task is never posted, and no  *)
(* task is an order.                                                       *)
ASSUME AgentFilesAssumption ==
    /\ Results \cap Echoes = {} /\ Results \cap Completes = {} /\ Echoes \cap Completes = {}
    /\ None \notin Executor!Jobs \cup ScoreFile \cup {"completed", "failed"}
    /\ \A r \in Results, e \in Echoes : Subject[r] # Subject[e]
    /\ \A j \in Results \cup Echoes, c \in Completes : Subject[j] # Subject[c]
    /\ Earlier \in ScoreFile

(* The files of the executor, as TrustFiles states it. *)
RecordsKept     == Executor!RecordsKept
AuditFindsProof == Executor!AuditFindsProof
=============================================================================
