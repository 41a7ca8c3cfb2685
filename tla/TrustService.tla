---------------------------- MODULE TrustService ----------------------------
(***************************************************************************)
(* TrustScoreService (src/src/service) with the adapter that submits       *)
(* execution summaries to it (src/src/trust-sync).  A request is handled   *)
(* in one piece: the score client, the graph and the list of summaries     *)
(* grow in memory, then two files are rewritten, one after the other, and  *)
(* then it is answered.  Either write may fail, the process may die in     *)
(* between, and an answer may come after the adapter's timeout, so that    *)
(* the same summary is submitted again.  A start reads the files back.     *)
(*                                                                         *)
(* Scores and edges are functions of the summaries they were fed, in       *)
(* order: that sequence stands for them.  What the graph answers is        *)
(* computed from it by the operators of TrustGraph.                        *)
(***************************************************************************)
EXTENDS TrustPromises

CONSTANTS
    Before,               \* the summaries on file at the first start
    Absent, Whole,        \* states of a file other than its content
    MaxSends,     \* bound on the submissions of each summary
    MaxFaults,    \* bound on the saves that fail
    MaxRestarts   \* bound on the starts

ConstantsFit ==
    /\ Absent # Torn /\ Absent # Whole /\ Torn # Whole
    /\ Before \in Seq(Summaries) /\ DOMAIN About = Summaries
    /\ MaxSends \in [Summaries -> Nat] /\ MaxFaults \in Nat /\ MaxRestarts \in Nat

VARIABLES
    graphFile,  \* graph.json: of its content a start uses that it can be read
    sent,       \* how often a summary was submitted
    requests,   \* the submissions under way: <<summary, number>>
    faults, restarts

memory   == <<summaries, scored, graph>>
files    == <<scores, graphFile>>
exchange == <<sent, requests, told>>
bounds   == <<faults, restarts>>
history  == <<lost, behind>>
vars     == <<up, memory, files, exchange, history, bounds>>

Holds(log) == [state |-> Whole, of |-> log]
NoFile     == [state |-> Absent, of |-> <<>>]
TornFile   == [state |-> Torn, of |-> <<>>]

Init ==
    /\ up = TRUE
    /\ summaries = Before /\ scored = Before /\ graph = Before
    /\ scores = (IF Before = <<>> THEN NoFile ELSE Holds(Before))
    /\ graphFile = (IF Before = <<>> THEN Absent ELSE Whole)
    /\ sent = [s \in Summaries |-> 0]
    /\ requests = {}
    /\ told = [s \in Summaries |-> "nothing"]
    /\ lost = FALSE /\ behind = FALSE
    /\ faults = 0 /\ restarts = 0

(* HttpTrustSyncAdapter.submit; its caller may try again what was not      *)
(* synced.                                                                 *)
Submit(s) ==
    /\ told[s] \in {"nothing", "unsynced"} /\ sent[s] < MaxSends[s]
    /\ sent' = [sent EXCEPT ![s] = @ + 1]
    /\ requests' = requests \cup {<<s, sent[s] + 1>>}
    /\ told' = [told EXCEPT ![s] = "waiting"]
    /\ UNCHANGED <<up, memory, files, history, bounds>>

(* The timeout does not call back the request. *)
Timeout(s) ==
    /\ told[s] = "waiting"
    /\ told' = [told EXCEPT ![s] = "unsynced"]
    /\ UNCHANGED <<up, memory, files, sent, requests, history, bounds>>

Awaited(q) == told[q[1]] = "waiting" /\ sent[q[1]] = q[2]

Tell(q, outcome) ==
    /\ requests' = requests \ {q}
    /\ told' = IF Awaited(q) THEN [told EXCEPT ![q[1]] = outcome] ELSE told
    /\ UNCHANGED sent

(* What POST /summary does before it saves. *)
Take(s) ==
    /\ scored' = Append(scored, s)
    /\ graph' = Append(graph, s)
    /\ summaries' = Append(summaries, s)

Handle(q) ==
    /\ up /\ q \in requests
    /\ Take(q[1])
    /\ scores' = Holds(summaries')
    /\ graphFile' = Whole
    /\ Tell(q, "synced")
    /\ UNCHANGED <<up, history, bounds>>

(* What saveData has made of the files before it is through: the first not *)
(* opened, truncated, or written, the second likewise.                     *)
SavedInPart(log) ==
    \/ scores' = scores /\ graphFile' = graphFile
    \/ scores' = TornFile /\ graphFile' = graphFile
    \/ scores' = Holds(log) /\ graphFile' \in {graphFile, Torn}

(* Mutant: the failure of the write is only logged.                        *)
HandleUnsavedQuietly(q) ==
    /\ up /\ q \in requests
    /\ faults < MaxFaults /\ faults' = faults + 1
    /\ Take(q[1])
    /\ SavedInPart(Append(summaries, q[1]))
    /\ Tell(q, "synced")
    /\ UNCHANGED <<up, history, restarts>>

(* A write fails: the request does, but the memory keeps the summary.      *)
HandleUnsaved(q) ==
    /\ up /\ q \in requests
    /\ faults < MaxFaults /\ faults' = faults + 1
    /\ Take(q[1])
    /\ SavedInPart(Append(summaries, q[1]))
    /\ Tell(q, "unsynced")
    /\ UNCHANGED <<up, history, restarts>>

Forget ==
    /\ up' = FALSE
    /\ summaries' = <<>> /\ scored' = <<>> /\ graph' = <<>>

Crash ==
    /\ up
    /\ Forget
    /\ UNCHANGED <<files, exchange, history, bounds>>

(* The process dies while it saves; at the latest before it has answered.  *)
CrashInSave(q) ==
    /\ up /\ q \in requests
    /\ Forget
    /\ \/ SavedInPart(Append(summaries, q[1]))
       \/ scores' = Holds(Append(summaries, q[1])) /\ graphFile' = Whole
    /\ Tell(q, "unsynced")
    /\ UNCHANGED <<history, bounds>>

(* Mutant: the score client is not replaced first. *)
LoadDataOnTop ==
    LET found == scores.state = Whole
        sums  == IF found THEN scores.of ELSE summaries
    IN  /\ summaries' = sums
        /\ scored' = IF found THEN scored \o sums ELSE scored
        /\ graph' = IF graphFile = Whole THEN sums ELSE graph

(* loadData into the memory of a new object, or of the one that stopped: a *)
(* file that is missing or does not parse leaves its part as it is.        *)
LoadData ==
    LET found == scores.state = Whole
        sums  == IF found THEN scores.of ELSE summaries
    IN  /\ summaries' = sums
        /\ scored' = IF found THEN sums ELSE scored
        /\ graph' = IF graphFile = Whole THEN sums ELSE graph

(* stop() and start() of the same object, or start() of a new one.         *)
Start ==
    /\ restarts < MaxRestarts /\ restarts' = restarts + 1
    /\ up' = TRUE
    /\ LoadData
    /\ lost' = (lost \/ (~up /\ scores.state = Torn))
    /\ behind' = (graphFile # Whole /\ (behind \/ summaries' # summaries \/ ~up))
    /\ UNCHANGED <<files, exchange, faults>>

Next ==
    \/ \E s \in Summaries : Submit(s) \/ Timeout(s)
    \/ \E q \in requests : Handle(q) \/ HandleUnsaved(q) \/ CrashInSave(q)
    \/ Crash
    \/ Start

Spec == Init /\ [][Next]_vars
-----------------------------------------------------------------------------
Logs == Seq(Summaries)

(* Every variable has its type. *)
TypeOK ==
    /\ up \in BOOLEAN /\ lost \in BOOLEAN /\ behind \in BOOLEAN
    /\ summaries \in Logs /\ scored \in Logs /\ graph \in Logs
    /\ scores \in {NoFile, TornFile} \cup [state : {Whole}, of : Logs]
    /\ graphFile \in {Absent, Torn, Whole}
    /\ sent \in [Summaries -> Nat] /\ \A s \in Summaries : sent[s] <= MaxSends[s]
    /\ requests \subseteq Summaries \X Nat
    /\ told \in [Summaries -> {"nothing", "waiting", "synced", "unsynced"}]
    /\ faults \in 0..MaxFaults /\ restarts \in 0..MaxRestarts
=============================================================================
