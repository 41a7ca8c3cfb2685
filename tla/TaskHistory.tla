---------------------------- MODULE TaskHistory -----------------------------
(***************************************************************************)
(* What an agent that gives out tasks keeps of another that takes them     *)
(* (src/bin/atel.mjs).  `atel task` checks the trust file, sends its task  *)
(* and counts the outcome in the file: sent directly, the answer to the    *)
(* task itself is the outcome; sent by a relay, the command waits two      *)
(* minutes for a result in the inbox, where the runtime puts what comes,   *)
(* late, twice or never.                                                   *)
(*                                                                         *)
(* A command runs alone from one await to the next, but another process    *)
(* may come in between the reading, the truncation and the writing of the  *)
(* trust file.                                                             *)
(***************************************************************************)
EXTENDS Integers, FiniteSetsExt, FiniteSets, Sequences

(* Whether an agent may be given a task of some risk, judged by what the   *)
(* file tells of it: checkTrust decides for `atel task`, `atel check`      *)
(* tells the user, by rules of its own.  Scores are in hundredths of a     *)
(* point; the code rounds where this truncates.                            *)
Risks == {"low", "medium", "high", "critical"}

RISK_ORDER == [low |-> 0, medium |-> 1, high |-> 2, critical |-> 3]

(* trustPolicy.newAgentPolicy; any other value allows like the last one.   *)
Policies == {"deny", "allow_low_risk", "allow_all"}

(* What the file tells of an agent. *)
Tallies == [tasks : Nat, successes : Nat, proofs : Nat, verified : Nat]

MaxScore  == 10000
FullTasks == 30   \* from here on more tasks do not count
BonusAt   == 5    \* verified proofs that earn the bonus
ForProofs == 2000 \* points for verified proofs

(* These points times the square root of the share of the full tasks. *)
ProofPoints ==
    LET IsRoot(n, tasks) == /\ n * n * FullTasks <= ForProofs * ForProofs * tasks
                            /\ ForProofs * ForProofs * tasks < (n + 1) * (n + 1) * FullTasks
    IN  [tasks \in 0..FullTasks |-> CHOOSE n \in 0..ForProofs : IsRoot(n, tasks)]

computeTrustScore(h) ==
    LET volume == Min({h.tasks, FullTasks})
    IN  IF h.tasks = 0 THEN 0 ELSE
        Min({MaxScore,
             (4000 * h.successes) \div h.tasks + (3000 * volume) \div FullTasks
             + (IF h.proofs = 0 THEN 0 ELSE (ProofPoints[volume] * h.verified) \div h.proofs)
             + (IF h.verified >= BonusAt THEN 1000 ELSE 0)})

(* The level, which is also the highest risk it allows. *)
computeTrustLevel(score) ==
    CASE score >= 9000 -> 3
      [] score >= 6500 /\ score < 9000 -> 2
      [] score >= 3000 /\ score < 6500 -> 1
      [] OTHER -> 0

riskAllowed(score, risk) == RISK_ORDER[risk] <= computeTrustLevel(score)

Admits(policy, risk) ==
    /\ policy # "deny"
    /\ policy = "allow_low_risk" => risk \notin {"high", "critical"}

(* trustPolicy.riskThresholds of the default policy. *)
riskThresholds == [low |-> 0, medium |-> 5000, high |-> 7500, critical |-> 9000]

checkTrust(h, risk, policy, force) ==
    LET score == computeTrustScore(h)
    IN  force \/ /\ IF h.tasks = 0 THEN Admits(policy, risk) ELSE score >= riskThresholds[risk]
                 /\ riskAllowed(score, risk)

RISK_THRESHOLDS == [low |-> 0, medium |-> 3000, high |-> 5000, critical |-> 7500]

(* What the platform tells: whether it knows the agent, and its score,     *)
(* NoScore when it cannot be reached, does not know the agent or has none  *)
(* for it.  A profile without the field decides as a score of 0.           *)
NoScore == -1

Profiles(scores) ==
    [known : {FALSE}, score : {NoScore}] \cup [known : {TRUE}, score : {NoScore} \cup scores]

(* Mutant: the score of the profile, if the platform knows the agent. *)
effectiveOfKnown(h, profile) ==
    IF profile.known THEN profile.score ELSE computeTrustScore(h)

effectiveScore(h, profile) ==
    IF profile.score # NoScore THEN profile.score ELSE computeTrustScore(h)

cmdCheck(h, profile, risk, policy) ==
    LET score == effectiveScore(h, profile)
    IN  IF ~profile.known /\ h.tasks = 0 THEN Admits(policy, risk)
        ELSE score >= RISK_THRESHOLDS[risk] /\ riskAllowed(score, risk)

-----------------------------------------------------------------------------

CONSTANTS
    Tasks,      \* the tasks of the executor for this agent
    Sends,      \* the runs of `atel task`, all to the same executor
    Task,       \* the task that is accepted for each
    Direct,     \* those sent directly
    Risk,       \* the risk each names
    Policy,     \* newAgentPolicy
    Before,     \* what the trust file tells of the executor at the beginning
    Outcomes,   \* the outcomes of the tasks to choose from
    Scores,     \* the scores the platform may tell
    None

Outcome == [status : {"completed", "failed"}, anchored : BOOLEAN]

ASSUME TaskHistoryAssumption ==
    /\ Task \in [Sends -> Tasks] /\ Direct \subseteq Sends
    /\ Risk \in [Sends -> Risks] /\ Policy \in Policies
    /\ Before \in Tallies /\ Outcomes \subseteq [Tasks -> Outcome]
    /\ Scores \subseteq Nat
    /\ None \notin Sends \cup Tasks

VARIABLES
    outcome,  \* what the executor makes of each task
    taken,    \* the tasks the executor has accepted
    inbox,    \* the tasks whose results are in inbox.jsonl, in the order of
              \* the newest of each
    phase,    \* where each command has come
    taskId,   \* the task the relay's answer named to each
    entry,    \* what each command counts
    trust,    \* the file: what was counted for the executor, None if it cannot be read
    seen,     \* what each command has read of it
    counted,  \* history: those that counted the file
    overtaken \* history: those that wrote while another command had what was there
              \* before, or that were there when the file could not be read

executor == <<outcome, taken>>
commands == <<phase, taskId, entry, trust, seen, counted, overtaken>>

Entry0 == [send |-> None, success |-> TRUE, proof |-> "none"]

Init ==
    /\ outcome \in Outcomes
    /\ taken = Tasks \ {Task[s] : s \in Sends}
    /\ inbox = <<>>
    /\ phase = [s \in Sends |-> "idle"]
    /\ taskId = [s \in Sends |-> None]
    /\ entry = [s \in Sends |-> None]
    /\ trust = {Entry0} /\ seen = [s \in Sends |-> None]
    /\ counted = {None} /\ overtaken = {}

-----------------------------------------------------------------------------
(* What a reader makes of the file. *)
Content(f) == IF f = None THEN {} ELSE f

(* The tally of what was counted: Entry0 stands for what was before.       *)
Tally(entries) ==
    LET new    == {e \in entries : e.send # None}
        old(n) == IF Entry0 \in entries THEN n ELSE 0
    IN  [tasks     |-> old(Before.tasks) + Cardinality(new),
         successes |-> old(Before.successes) + Cardinality({e \in new : e.success}),
         proofs    |-> old(Before.proofs) + Cardinality({e \in new : e.proof # "none"}),
         verified  |-> old(Before.verified) + Cardinality({e \in new : e.proof = "anchored"})]

Trusted(s) == checkTrust(Tally(Content(trust)), Risk[s], Policy, FALSE)

Goes(s, to) == phase' = [phase EXCEPT ![s] = to]

(* The agent is looked up and checked, then its candidates are tried. *)
Check(s) ==
    /\ phase[s] = "idle"
    /\ Goes(s, IF Trusted(s) THEN "checked" ELSE "done")
    /\ UNCHANGED <<executor, inbox, taskId, entry, trust, seen, counted, overtaken>>

(* A direct task is checked once more before the handshake. *)
Connect(s) ==
    /\ phase[s] = "checked"
    /\ Goes(s, IF s \in Direct /\ ~Trusted(s) THEN "done" ELSE "sending")
    /\ UNCHANGED <<executor, inbox, taskId, entry, trust, seen, counted, overtaken>>

(* Whatever fails ends the command, and counts nothing, although the task  *)
(* may have been accepted.                                                 *)
SendFails(s) ==
    /\ phase[s] = "sending"
    /\ Goes(s, "done")
    /\ taken' \in {taken, taken \cup {Task[s]}}
    /\ UNCHANGED <<outcome, inbox, taskId, entry, trust, seen, counted, overtaken>>

(* Relayed: the answer names the task if it was accepted. *)
SendRelayed(s) ==
    /\ phase[s] = "sending" /\ s \notin Direct
    /\ Goes(s, "waiting")
    /\ \/ taken' = taken \cup {Task[s]} /\ taskId' = [taskId EXCEPT ![s] = Task[s]]
       \/ UNCHANGED <<taken, taskId>>
    /\ UNCHANGED <<outcome, inbox, entry, trust, seen, counted, overtaken>>

(* The command has something to count: it reads the file. *)
Counts(s, success, proof) ==
    /\ entry' = [entry EXCEPT ![s] = [send |-> s, success |-> success, proof |-> proof]]
    /\ seen' = [seen EXCEPT ![s] = Content(trust)]
    /\ overtaken' = IF trust = None THEN overtaken \cup counted ELSE overtaken
    /\ Goes(s, "read")
    /\ UNCHANGED <<outcome, inbox, taskId, trust, counted>>

(* Direct: the endpoint answers "accepted" whatever its handler returned,  *)
(* and the answer carries no proof.                                        *)
SendDirect(s) ==
    /\ phase[s] = "sending" /\ s \in Direct
    /\ taken' \in {taken, taken \cup {Task[s]}}
    /\ Counts(s, TRUE, "none")

-----------------------------------------------------------------------------
(* Mutant: any result of that agent. *)
MatchesAgent(s, t) == TRUE

(* A result of the task, or any of that agent when the task has no name.   *)
Matches(s, t) == taskId[s] \in {None, t}

Matching(s) == {i \in DOMAIN inbox : Matches(s, inbox[i])}

(* The newest result that matches, if the inbox has one ... *)
Find(s) ==
    /\ phase[s] = "waiting"
    /\ \E i \in Matching(s) :
           /\ \A k \in Matching(s) : k <= i
           /\ LET o == outcome[inbox[i]]
              IN  Counts(s, o.status = "completed", IF o.anchored THEN "anchored" ELSE "claimed")
    /\ UNCHANGED taken

(* ... and if it has none after two minutes that is a failure. *)
Timeout(s) ==
    /\ phase[s] = "waiting" /\ Matching(s) = {}
    /\ Counts(s, FALSE, "none")
    /\ UNCHANGED taken

Interrupt(s) ==
    /\ phase[s] = "waiting"
    /\ Goes(s, "done")
    /\ UNCHANGED <<executor, inbox, taskId, entry, trust, seen, counted, overtaken>>

(* updateTrustHistory writes the file: it is truncated, then filled. *)
Truncate(s) ==
    /\ phase[s] = "read"
    /\ Goes(s, "truncated") /\ trust' = None
    /\ UNCHANGED <<executor, inbox, taskId, entry, seen, counted, overtaken>>

(* Mutant: the entry takes the place of what is there. *)
FilledWith(s) == {entry[s]}

Filled(s) == seen[s] \cup {entry[s]}

(* A file that another has filled since may keep the end of what that wrote*)
(* and is no JSON then.                                                    *)
Fill(s) ==
    LET others == {d \in Sends \ {s} : phase[d] \in {"read", "truncated"}}
    IN  /\ phase[s] = "truncated"
        /\ Goes(s, "done")
        /\ \/ trust' = Filled(s)
           \/ trust # None /\ trust' = None
        /\ seen' = [seen EXCEPT ![s] = None]
        /\ counted' = counted \cup {s}
        /\ overtaken' = IF others = {} THEN overtaken ELSE overtaken \cup {s}
        /\ UNCHANGED <<executor, inbox, taskId, entry>>

Command(s) ==
    \/ Check(s) \/ Connect(s) \/ SendFails(s) \/ SendRelayed(s) \/ SendDirect(s)
    \/ Find(s) \/ Timeout(s) \/ Interrupt(s) \/ Truncate(s) \/ Fill(s)

-----------------------------------------------------------------------------
(* onTask of the runtime writes every result it is sent to the inbox. *)
Arrives(t) ==
    /\ inbox' = Append(SelectSeq(inbox, LAMBDA u : u # t), t)
    /\ UNCHANGED <<executor, commands>>

Next ==
    \/ \E s \in Sends : Command(s)
    \/ \E t \in taken : Arrives(t)

Spec == Init /\ [][Next]_<<executor, inbox, commands>>

-----------------------------------------------------------------------------
Phases  == {"idle", "checked", "sending", "waiting", "read", "truncated", "done"}

Entries == [send : Sends \cup {None}, success : BOOLEAN, proof : {"none", "claimed", "anchored"}]

(* Every variable has its type. *)
TypeOK ==
    /\ outcome \in [Tasks -> Outcome] /\ taken \subseteq Tasks
    /\ inbox \in Seq(Tasks)
    /\ phase \in [Sends -> Phases]
    /\ taskId \in [Sends -> Tasks \cup {None}]
    /\ entry \in [Sends -> Entries \cup {None}]
    /\ trust \in (SUBSET Entries) \cup {None}
    /\ seen \in [Sends -> (SUBSET Entries) \cup {None}]
    /\ counted \subseteq Sends \cup {None} /\ overtaken \subseteq Sends \cup {None}

(* A relayed task that the answer named counts as a success only when the  *)
(* executor reported it completed, and its proof as verified only when it  *)
(* had a transaction, although results come late, twice and beside those of*)
(* other tasks (atel.mjs:7839-7880).                                       *)
CountedAsReported ==
    \A s \in Sends : entry[s] # None /\ taskId[s] # None =>
        /\ entry[s].success => outcome[Task[s]].status = "completed"
        /\ entry[s].proof = "anchored" => outcome[Task[s]].anchored

(* What a command counted stays in the trust file, and so does what was    *)
(* there before, unless commands overlapped between reading and writing    *)
(* (atel.mjs:7768-7779).                                                   *)
HistoryKept == trust # None => counted \ overtaken \subseteq {e.send : e \in trust}

(* A task that `atel task` would send is one that `atel check` would have  *)
(* allowed, whatever the trust file has come to.  The two decide by rules  *)
(* of their own, though a comment calls checkTrust the "single function    *)
(* used by all code paths" (3589), and only the check asks the platform:   *)
(* if the platform's score, which goes before the file, is below the one   *)
(* the file gives, the check may deny what is sent (atel.mjs:3590-3622,    *)
(* 7943-8025).                                                             *)
CheckAgrees ==
    LET h     == Tally(Content(trust))
        local == computeTrustScore(h)
    IN  \A risk \in Risks, policy \in Policies :
            checkTrust(h, risk, policy, FALSE) =>
                \A profile \in Profiles(Scores) :
                    \/ profile.score # NoScore /\ profile.score < local
                    \/ cmdCheck(h, profile, risk, policy)
=============================================================================
