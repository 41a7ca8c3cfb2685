----------------------------- MODULE TrustFiles -----------------------------
(***************************************************************************)
(* What an agent keeps about its own work (src/bin/atel.mjs): the file of  *)
(* its score records, a trace file for each task or order, what it has     *)
(* anchored, and the score it published.  Two kinds of processes write     *)
(* them: the runtime, which reads the score file when it starts and then   *)
(* writes what it has in memory, and `atel complete`, which reads the file *)
(* and writes it back with one record more.  A job is one result posted to *)
(* the runtime, one task it echoes, or one run of the command.             *)
(*                                                                         *)
(* A process runs alone from one await to the next; between the reading    *)
(* and the writing of a file another process may come in.                  *)
(***************************************************************************)
EXTENDS Integers, Sequences, SequencesExt, FiniteSetsExt, FiniteSets

CONSTANTS
    Results, Echoes, Completes,  \* the jobs of each kind, disjoint
    Subject,   \* the task or order of each job: a task may be posted twice, none is
               \* echoed and posted, and no task is an order
    Earlier,   \* the score file at the beginning
    None,
    MaxStarts, \* bound on the starts of the runtime
    MaxFaults  \* bound on the failures: fetches, saves, pushes, requests

Jobs   == Results \cup Echoes \cup Completes
OfRuntime == Results \cup Echoes
Orders == {Subject[c] : c \in Completes}

VARIABLES
    step,      \* where each job has come
    success,   \* whether the work of each job succeeded
    anchored,  \* whether each has a transaction to show
    file,      \* trust-scores.json: its records and summaries, or None if it is torn
    memory,    \* _proofRecords and _summaries of the runtime, None while it is down
    copy,      \* what each command has read of the file
    traces,    \* the trace file of each subject: the job that wrote it
    chain,     \* the trace roots on the chain: the jobs whose traces they are
    order,     \* the job whose proof the platform accepted for each order
    disputed,  \* the orders that went on to a state complete does not know
    told,      \* what the requester of each result is told
    published, \* the score the registry shows
    pushing,   \* the score each job has under way to the registry
    starts, faults,
    blind,     \* history: the commands that could not fetch their order, or found
               \* it disputed
    met,       \* history: the commands under way together on one order
    wrote,     \* history: the jobs that saved the score file
    exposed    \* history: those that did while another process had what it was
               \* before, or that a torn file has cost

work    == <<step, success, anchored, told>>
scores  == <<file, memory, copy>>
proofs  == <<traces, chain, order, disputed>>
shown   == <<published, pushing>>
history == <<blind, met, wrote, exposed>>
vars    == <<work, scores, proofs, shown, history, starts, faults>>

-----------------------------------------------------------------------------
(* The trust score of an agent (src/src/score/index.ts), in hundredths,    *)
(* from what the formula reads of records and summaries: [success,         *)
(* verified, high, violations].  The rest of a report is left out.         *)
Full == 10000

Lesser(a, b) == IF a <= b THEN a ELSE b

Greater(a, b) == IF a >= b THEN a ELSE b

(* base, volume, bonus for risk and consistency of total records, of which *)
(* successes succeeded, high of those at high risk.                        *)
rawScore(total, successes, high, violations) ==
    (6000 * successes + 1500 * high + 1000 * (total - Lesser(violations, total))) \div total
        + 15 * Lesser(total, 100)

Penalized(score, total, verified) ==
    IF total >= 3 /\ 2 * verified < total
    THEN (IF total >= 10 THEN 70 * score ELSE 85 * score) \div 100
    ELSE score

Cap(total) ==
    IF total < 5 THEN 5500 ELSE IF total < 10 THEN 6500 ELSE IF total < 20 THEN 7500 ELSE Full

applyV2Adjustments(raw, total, verified) ==
    Lesser(Penalized(raw, total, verified), Cap(total))

Score(total, successes, high, violations, verified) ==
    Lesser(Full, Greater(0,
        applyV2Adjustments(rawScore(total, successes, high, violations), total, verified)))

Count(log, Test(_)) == Len(SelectSeq(log, Test))

Violations(log) == FoldLeft(LAMBDA n, r : n + r.violations, 0, log)

computeScore(log, verified) ==
    Score(Len(log), Count(log, LAMBDA r : r.success),
          Count(log, LAMBDA r : r.success /\ r.high), Violations(log), verified)

computeScoreFromProofs(log) == computeScore(log, Count(log, LAMBDA r : r.verified))

(* Summaries are never verified. *)
computeScoreFromSummaries(log) == computeScore(log, 0)

(* Once an agent has a proof record, its summaries no longer count. *)
getAgentScore(records, summaries) ==
    IF records # <<>> THEN computeScoreFromProofs(records)
    ELSE IF summaries # <<>> THEN computeScoreFromSummaries(summaries)
    ELSE 0

-----------------------------------------------------------------------------
Nothing == [records |-> <<>>, summaries |-> <<>>]

(* What a reader makes of the file. *)
Content(f) == IF f = None THEN Nothing ELSE f

Entry(j) == [job |-> j, success |-> success[j], verified |-> anchored[j], high |-> FALSE, violations |-> 0]

(* With a transaction a proof record is added, else a summary. *)
Recorded(kept, j) ==
    IF anchored[j] THEN [kept EXCEPT !.records = Append(@, Entry(j))]
    ELSE [kept EXCEPT !.summaries = Append(@, Entry(j))]

trust_score(kept) == getAgentScore(kept.records, kept.summaries)

Recording(kept) == {r.job : r \in ToSet(kept.records) \cup ToSet(kept.summaries)}

Goes(j, s) == step' = [step EXCEPT ![j] = s]

Fault == faults < MaxFaults /\ faults' = faults + 1

NoFault == UNCHANGED faults

UnderWay(j) == step[j] \notin {"idle", "done"}

(* The runtime, or a command between reading and writing the file. *)
Holders(j) == {c \in Completes \ {j} : step[c] = "read"} \cup
              (IF memory # None /\ j \in Completes THEN OfRuntime ELSE {})

Init ==
    /\ step = [j \in Jobs |-> "idle"]
    /\ success \in {s \in [Jobs -> BOOLEAN] : \A j \in Jobs \ Results : s[j]}
    /\ anchored = [j \in Jobs |-> FALSE]
    /\ told = [r \in Results |-> None]
    /\ file = Earlier /\ memory = None
    /\ copy = [c \in Completes |-> None]
    /\ traces = [s \in {Subject[j] : j \in Jobs} |-> None]
    /\ chain = {}
    /\ order = [o \in Orders |-> None] /\ disputed = {}
    /\ published = trust_score(Earlier)
    /\ pushing = [j \in Jobs |-> None]
    /\ starts = 0 /\ faults = 0
    /\ blind = {} /\ met = {} /\ wrote = {} /\ exposed = {}

-----------------------------------------------------------------------------
(* Mutant: what is on file is not taken over. *)
LoadedNothing == Nothing

(* The runtime loads the file into its score client and its arrays. *)
Loaded == Content(file)

Start ==
    /\ memory = None /\ starts < MaxStarts
    /\ memory' = Loaded
    /\ starts' = starts + 1
    /\ UNCHANGED <<work, file, copy, proofs, shown, history, faults>>

(* A process ends, in the middle of its jobs or not; what it pushes may    *)
(* have left already.                                                      *)
Ended(jobs) ==
    /\ step' = [j \in Jobs |-> IF j \in jobs /\ UnderWay(j) THEN "done" ELSE step[j]]
    /\ UNCHANGED <<success, anchored, told>>

Stop ==
    /\ memory # None /\ memory' = None
    /\ Ended(OfRuntime)
    /\ UNCHANGED <<file, copy, proofs, shown, history, starts, faults>>

Kill(c) ==
    /\ UnderWay(c) /\ Fault
    /\ Ended({c})
    /\ UNCHANGED <<scores, proofs, shown, history, starts>>

-----------------------------------------------------------------------------
(* Mutant: whoever has the order's state goes on. *)
MayCompleteAnyway(c) == TRUE

(* Not if the order was fetched and is completed, confirmed or settled.    *)
MayComplete(c) == order[Subject[c]] = None \/ Subject[c] \in disputed

(* atel complete: the order is fetched, if it can be. *)
FetchOrder(c) ==
    LET others == {d \in Completes \ {c} : Subject[d] = Subject[c] /\ UnderWay(d)}
    IN  /\ step[c] = "idle"
        /\ \/ /\ Goes(c, IF MayComplete(c) THEN "fetched" ELSE "done") /\ NoFault
              /\ blind' = IF Subject[c] \in disputed THEN blind \cup {c} ELSE blind
           \/ Goes(c, "fetched") /\ Fault /\ blind' = blind \cup {c}
        /\ met' = IF others = {} THEN met ELSE met \cup others \cup {c}
        /\ UNCHANGED <<success, anchored, told, scores, proofs, shown, wrote, exposed, starts>>

(* The trace is made, saved and proved.  The command finds no proof in a   *)
(* trace file - the file holds events - and makes a new one each time.     *)
Prove(j) ==
    /\ IF j \in Completes THEN step[j] = "fetched" ELSE step[j] = "idle" /\ memory # None
    /\ Goes(j, "proved")
    /\ traces' = [traces EXCEPT ![Subject[j]] = j]
    /\ UNCHANGED <<success, anchored, told, scores, chain, order, disputed, shown, history, starts, faults>>

(* anchorOnChain: no key or an error give no anchor, though the            *)
(* transaction may have been made.                                         *)
anchorOnChain(j) ==
    /\ step[j] = "proved"
    /\ Goes(j, "anchored")
    /\ \/ anchored' = [anchored EXCEPT ![j] = TRUE] /\ chain' = chain \cup {j} /\ NoFault
       \/ Fault /\ chain' \in {chain, chain \cup {j}} /\ UNCHANGED anchored
    /\ UNCHANGED <<success, told, scores, traces, order, disputed, shown, history, starts>>

-----------------------------------------------------------------------------
(* The score of the records with the new one, to the registry. *)
Pushed(kept, j) == [pushing EXCEPT ![j] = trust_score(Recorded(kept, j))]

(* What the file is after a save by j: a failure is ignored, and leaves it *)
(* as it is or torn.                                                       *)
Saved(kept, j) ==
    \/ /\ file' = kept /\ wrote' = wrote \cup {j}
       /\ exposed' = IF Holders(j) = {} THEN exposed ELSE exposed \cup {j}
       /\ NoFault
    \/ /\ file' \in {file, None} /\ UNCHANGED wrote
       /\ exposed' = IF file' = None THEN exposed \cup wrote ELSE exposed
       /\ Fault

(* The end of POST /result and of a task echoed: the record goes into the  *)
(* arrays and the arrays into the file.  An echo does not push the score.  *)
Record(j) ==
    /\ j \in OfRuntime /\ step[j] = "anchored"
    /\ memory' = Recorded(memory, j)
    /\ Saved(memory', j)
    /\ IF j \in Echoes THEN Goes(j, "done") /\ UNCHANGED pushing
       ELSE Goes(j, "pushing") /\ pushing' = Pushed(memory, j)
    /\ UNCHANGED <<success, anchored, told, copy, proofs, published, blind, met, starts>>

(* The command reads the file and writes it. *)
ReadScores(c) ==
    /\ c \in Completes /\ step[c] = "anchored"
    /\ copy' = [copy EXCEPT ![c] = Content(file)]
    /\ Goes(c, "read")
    /\ UNCHANGED <<success, anchored, told, file, memory, proofs, shown, history, starts, faults>>

WriteScores(c) ==
    /\ c \in Completes /\ step[c] = "read"
    /\ Saved(Recorded(copy[c], c), c)
    /\ copy' = [copy EXCEPT ![c] = None]
    /\ Goes(c, "pushing") /\ pushing' = Pushed(copy[c], c)
    /\ UNCHANGED <<success, anchored, told, memory, proofs, published, blind, met, starts>>

(* The registry takes a score, perhaps after its sender has given up. *)
RegistryTakes(j) ==
    /\ pushing[j] # None
    /\ published' = pushing[j]
    /\ pushing' = [pushing EXCEPT ![j] = None]
    /\ UNCHANGED <<work, scores, proofs, history, starts, faults>>

(* The request is answered, or fails, or is given up after five seconds. *)
EndPush(j) ==
    /\ step[j] = "pushing"
    /\ Goes(j, IF j \in Completes THEN "posting" ELSE "auditing")
    /\ \/ pushing[j] = None /\ NoFault /\ UNCHANGED pushing
       \/ pushing[j] # None /\ Fault /\ pushing' \in {pushing, [pushing EXCEPT ![j] = None]}
    /\ UNCHANGED <<success, anchored, told, scores, proofs, published, history, starts>>

verifyAnchorFromChain(j) == j \in chain

(* The runtime audits its result before it tells the requester: the anchor *)
(* is looked up on the chain, and a chain that cannot be asked fails it.   *)
Audit(j) ==
    LET Told(passed) == told' = [told EXCEPT ![j] = IF success[j] /\ passed THEN "completed" ELSE "failed"]
    IN  /\ j \in Results /\ step[j] = "auditing" /\ Goes(j, "done")
        /\ \/ Told(anchored[j] => verifyAnchorFromChain(j)) /\ NoFault
           \/ anchored[j] /\ Told(FALSE) /\ Fault
        /\ UNCHANGED <<success, anchored, scores, proofs, shown, history, starts>>

(* The proof is posted: the platform takes it while the order is executing.*)
(* The command ends whatever the answer, and without one.                  *)
Complete(c) ==
    /\ step[c] = "posting" /\ Goes(c, "done")
    /\ LET o == Subject[c]
       IN  \/ order' = [order EXCEPT ![o] = IF @ = None THEN c ELSE @] /\ NoFault
           \/ UNCHANGED order /\ Fault
    /\ UNCHANGED <<success, anchored, told, scores, traces, chain, disputed, shown, history, starts>>

(* A party disputes a completed order: it has neither of the states that   *)
(* stop another run of the command.                                        *)
Disputed(o) ==
    /\ order[o] # None /\ o \notin disputed
    /\ disputed' = disputed \cup {o}
    /\ UNCHANGED <<work, scores, traces, chain, order, shown, history, starts, faults>>

Next ==
    \/ Start \/ Stop
    \/ \E o \in Orders : Disputed(o)
    \/ \E c \in Completes :
           Kill(c) \/ FetchOrder(c) \/ ReadScores(c) \/ WriteScores(c) \/ Complete(c)
    \/ \E j \in Jobs :
           Prove(j) \/ anchorOnChain(j) \/ Record(j) \/ RegistryTakes(j) \/ EndPush(j) \/ Audit(j)

Spec == Init /\ [][Next]_vars
-----------------------------------------------------------------------------
(* Every variable has its type. *)
TypeOK ==
    /\ step \in [Jobs -> {"idle", "fetched", "proved", "anchored", "read", "pushing", "posting", "auditing", "done"}]
    /\ success \in [Jobs -> BOOLEAN] /\ anchored \in [Jobs -> BOOLEAN]
    /\ told \in [Results -> {None, "completed", "failed"}]
    /\ traces \in [{Subject[j] : j \in Jobs} -> Jobs \cup {None}]
    /\ chain \subseteq Jobs
    /\ order \in [Orders -> Completes \cup {None}] /\ disputed \subseteq Orders
    /\ published \in 0..Full /\ pushing \in [Jobs -> 0..Full \cup {None}]
    /\ starts \in 0..MaxStarts /\ faults \in 0..MaxFaults
    /\ blind \subseteq Completes /\ met \subseteq Completes
    /\ wrote \subseteq Jobs /\ exposed \subseteq Jobs

(* A record that was saved stays in the score file, unless another process *)
(* held what the file was before: the runtime keeps what it loaded and what*)
(* it adds in every save (atel.mjs:4545-4555), the command what it read    *)
(* (9186-9207).                                                            *)
RecordsKept == wrote \ exposed \subseteq Recording(Content(file))

(* Whoever audits a completed order finds the trace of the proof that the  *)
(* platform accepted, unless the command was run again while it was under  *)
(* way, or could not fetch the order, or found it disputed; and whoever    *)
(* was told that a task is completed finds the trace of a result of that   *)
(* task - its own, or that of another post of it - and its root on the     *)
(* chain if it was anchored (9053-9057, 9122-9159, 6489-6513).             *)
AuditFindsProof ==
    /\ \A o \in Orders :
           order[o] # None /\ traces[o] # order[o] => traces[o] \in blind \cup met
    /\ \A j \in Results :
           told[j] = "completed" =>
               /\ traces[Subject[j]] \in {r \in Results : Subject[r] = Subject[j]}
               /\ anchored[j] => j \in chain
=============================================================================
