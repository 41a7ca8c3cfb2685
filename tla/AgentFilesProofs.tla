-------------------------- MODULE AgentFilesProofs --------------------------
(***************************************************************************)
(* For any number of commands, tasks and results: what was counted stays   *)
(* in the trust file unless commands overlapped, a relayed task counts as  *)
(* the executor reported it, checkTrust is never laxer than `atel check`;  *)
(* a record that was saved stays in the score file unless another process  *)
(* held it, and an auditor finds the trace of what was proved.             *)
(***************************************************************************)
EXTENDS AgentFiles, FiniteSetTheorems, TLAPS

hvars == <<executor, inbox, commands>>

(* The part of the types the proofs need. *)
Typed ==
    /\ phase \in [Sends -> Phases]
    /\ taskId \in [Sends -> Tasks \cup {None}]
    /\ entry \in [Sends -> Entries \cup {None}]
    /\ trust \in (SUBSET Entries) \cup {None}
    /\ seen \in [Sends -> (SUBSET Entries) \cup {None}]
    /\ counted \subseteq Sends \cup {None}

Holding(s) == phase[s] \in {"read", "truncated"}

(* A command that holds what it read also has an entry of its own.         *)
Held == \A s \in Sends : Holding(s) => /\ entry[s] \in Entries /\ entry[s].send = s
                                       /\ seen[s] \in SUBSET Entries

TInv == Typed /\ Held

SendsIn(entries) == {e.send : e \in entries}

LEMMA TInvInit == Init => TInv
<1> SUFFICES ASSUME Init PROVE TInv
  OBVIOUS
<1>1. Entry0 \in Entries
  BY DEF Entry0, Entries
<1>2. Typed
  BY <1>1 DEF Init, Typed, Phases
<1>3. Held
  BY DEF Init, Held, Holding
<1> QED
  BY <1>2, <1>3 DEF TInv

LEMMA TInvCounts ==
  ASSUME TInv, NEW s \in Sends, NEW ok \in BOOLEAN,
         NEW proof \in {"none", "claimed", "anchored"}, Counts(s, ok, proof)
  PROVE  TInv'
<1> DEFINE e == [send |-> s, success |-> ok, proof |-> proof]
<1>1. e \in Entries
  BY DEF Entries
<1>2. Content(trust) \in SUBSET Entries
  BY DEF Content, TInv, Typed
<1>3. Typed'
  BY <1>1, <1>2 DEF TInv, Typed, Counts, Goes, Phases
<1>4. Held'
  <2> SUFFICES ASSUME NEW d \in Sends, Holding(d)'
               PROVE  (entry[d] \in Entries /\ entry[d].send = d /\ seen[d] \in SUBSET Entries)'
    BY DEF Held
  <2>1. CASE d = s
    BY <2>1, <1>1, <1>2 DEF TInv, Typed, Counts
  <2>2. CASE d # s
    BY <2>2 DEF TInv, Typed, Held, Holding, Counts, Goes
  <2> QED
    BY <2>1, <2>2
<1> QED
  BY <1>3, <1>4 DEF TInv

LEMMA FindCounts ==
  ASSUME NEW s \in Sends, Find(s)
  PROVE  \E i \in Matching(s) :
            LET o == outcome[inbox[i]]
            IN  Counts(s, o.status = "completed", IF o.anchored THEN "anchored" ELSE "claimed")
BY DEF Find

LEMMA TInvCommand ==
  ASSUME TInv, NEW s \in Sends, Command(s)
  PROVE  TInv'
<1> USE DEF TInv, Typed, Held, Holding, Phases, Goes
<1>1. CASE Check(s) \/ Connect(s) \/ SendFails(s) \/ SendRelayed(s) \/ Interrupt(s)
  <2>1. taskId' \in [Sends -> Tasks \cup {None}]
    BY <1>1, TaskHistoryAssumption DEF Check, Connect, SendFails, SendRelayed, Interrupt
  <2>2. phase' \in [Sends -> Phases] /\ UNCHANGED <<entry, trust, seen, counted>>
    BY <1>1 DEF Check, Connect, SendFails, SendRelayed, Interrupt
  <2>3. \A d \in Sends : Holding(d)' => Holding(d)
    BY <1>1 DEF Check, Connect, SendFails, SendRelayed, Interrupt
  <2> QED
    BY <2>1, <2>2, <2>3
<1>2. CASE SendDirect(s) \/ Timeout(s)
  BY <1>2, TInvCounts DEF SendDirect, Timeout
<1>3. CASE Find(s)
  BY <1>3, FindCounts, TInvCounts
<1>4. CASE Truncate(s)
  BY <1>4 DEF Truncate
<1>5. CASE Fill(s)
  <2>1. Filled(s) \in SUBSET Entries
    BY <1>5 DEF Fill, Filled
  <2>2. Typed'
    BY <1>5, <2>1 DEF Fill
  <2>3. Held'
    BY <1>5 DEF Fill
  <2> QED
    BY <2>2, <2>3
<1> QED
  BY <1>1, <1>2, <1>3, <1>4, <1>5 DEF Command

LEMMA TInvNext ==
  ASSUME TInv, [Next]_hvars
  PROVE  TInv'
<1>1. ASSUME NEW s \in Sends, Command(s) PROVE TInv'
  BY <1>1, TInvCommand
<1>2. ASSUME NEW t \in taken, Arrives(t) PROVE TInv'
  BY <1>2 DEF Arrives, commands, TInv, Typed, Held, Holding
<1>3. CASE UNCHANGED hvars
  BY <1>3 DEF hvars, commands, TInv, Typed, Held, Holding
<1> QED
  BY <1>1, <1>2, <1>3 DEF Next

-----------------------------------------------------------------------------
(* Whoever holds what it read holds all that was not overtaken. *)
Kept(entries) == counted \ overtaken \subseteq SendsIn(entries)

AllHeld == \A s \in Sends : Holding(s) => Kept(seen[s])

HInv == TInv /\ HistoryKept /\ AllHeld

LEMMA HInvCounts ==
  ASSUME HInv, NEW s \in Sends, NEW ok \in BOOLEAN,
         NEW proof \in {"none", "claimed", "anchored"}, Counts(s, ok, proof)
  PROVE  HistoryKept' /\ AllHeld'
<1>1. HistoryKept'
  BY DEF HInv, HistoryKept, Counts
<1>2. ASSUME NEW d \in Sends, Holding(d)' PROVE Kept(seen[d])'
  <2>1. CASE d = s
    <3>1. seen'[s] = Content(trust)
      BY DEF HInv, TInv, Typed, Counts
    <3>2. CASE trust = None
      BY <2>1, <3>2 DEF Kept, Counts
    <3>3. CASE trust # None
      BY <2>1, <3>1, <3>3 DEF Kept, Counts, Content, HInv, HistoryKept, SendsIn
    <3> QED
      BY <3>2, <3>3
  <2>2. CASE d # s
    <3>1. Holding(d) /\ seen'[d] = seen[d]
      BY <1>2, <2>2 DEF HInv, TInv, Typed, Holding, Counts, Goes
    <3>2. Kept(seen[d])
      BY <3>1 DEF HInv, AllHeld
    <3> QED
      BY <3>1, <3>2 DEF Kept, Counts
  <2> QED
    BY <2>1, <2>2
<1> QED
  BY <1>1, <1>2 DEF AllHeld

(* What the command fills in is all that it read and its own entry; the    *)
(* others that hold what they read have overtaken it.                      *)
LEMMA HInvFill ==
  ASSUME HInv, NEW s \in Sends, Fill(s)
  PROVE  HistoryKept' /\ AllHeld'
<1>1. Holding(s) /\ entry[s].send = s /\ Kept(seen[s])
  BY DEF Fill, Holding, HInv, TInv, Held, AllHeld
<1>2. HistoryKept'
  <2> SUFFICES ASSUME trust' # None
               PROVE  (counted \ overtaken)' \subseteq SendsIn(Filled(s))
    BY DEF Fill, HistoryKept, SendsIn
  <2>1. SendsIn(Filled(s)) = SendsIn(seen[s]) \cup {s}
    BY <1>1 DEF SendsIn, Filled
  <2> QED
    BY <1>1, <2>1 DEF Fill, Kept
<1>3. ASSUME NEW d \in Sends, Holding(d)' PROVE Kept(seen[d])'
  <2>1. d # s /\ Holding(d) /\ seen'[d] = seen[d]
    BY <1>3 DEF Fill, Goes, Holding, HInv, TInv, Typed
  <2>2. Kept(seen[d])
    BY <2>1 DEF HInv, AllHeld
  <2>3. s \in overtaken' /\ counted' = counted \cup {s} /\ overtaken \subseteq overtaken'
    BY <2>1 DEF Fill, Holding
  <2> QED
    BY <2>1, <2>2, <2>3 DEF Kept
<1> QED
  BY <1>2, <1>3 DEF AllHeld

LEMMA HInvNext ==
  ASSUME HInv, [Next]_hvars
  PROVE  HInv'
<1>1. TInv'
  BY TInvNext DEF HInv
<1>2. ASSUME NEW s \in Sends, Command(s) PROVE HistoryKept' /\ AllHeld'
  <2>1. CASE Check(s) \/ Connect(s) \/ SendFails(s) \/ SendRelayed(s) \/ Interrupt(s)
    <3>1. UNCHANGED <<trust, seen, counted, overtaken>>
      BY <2>1 DEF Check, Connect, SendFails, SendRelayed, Interrupt
    <3>2. \A d \in Sends : Holding(d)' => Holding(d)
      BY <2>1 DEF Check, Connect, SendFails, SendRelayed, Interrupt, Goes, Holding, HInv, TInv, Typed
    <3> QED
      BY <3>1, <3>2 DEF HInv, HistoryKept, AllHeld, Kept
  <2>2. CASE SendDirect(s) \/ Timeout(s)
    BY <2>2, HInvCounts DEF SendDirect, Timeout
  <2>3. CASE Find(s)
    BY <2>3, FindCounts, HInvCounts
  <2>4. CASE Truncate(s)
    BY <2>4 DEF Truncate, Goes, Holding, HInv, TInv, Typed, HistoryKept, AllHeld, Kept
  <2>5. CASE Fill(s)
    BY <2>5, HInvFill
  <2> QED
    BY <1>2, <2>1, <2>2, <2>3, <2>4, <2>5 DEF Command
<1>3. CASE (\E t \in taken : Arrives(t)) \/ UNCHANGED hvars
  <2>1. UNCHANGED <<phase, trust, seen, counted, overtaken>>
    BY <1>3 DEF Arrives, hvars, commands
  <2>2. HistoryKept'
    BY <2>1 DEF HInv, HistoryKept
  <2>3. AllHeld'
    BY <2>1 DEF HInv, AllHeld, Kept, Holding
  <2> QED
    BY <1>1, <2>2, <2>3 DEF HInv
<1>4. ASSUME NEW s \in Sends, Command(s) PROVE HInv'
  BY <1>1, <1>2, <1>4 DEF HInv
<1> QED
  BY <1>3, <1>4 DEF Next

(* What a command counted stays in the trust file unless commands          *)
(* overlapped between reading and writing it (atel.mjs:7768-7779), for any *)
(* number of commands.                                                     *)
THEOREM CountedStays == Spec => []HistoryKept
<1>1. Init => HInv
  <2> SUFFICES ASSUME Init PROVE HInv
    OBVIOUS
  <2>1. TInv
    BY TInvInit
  <2>2. HistoryKept
    BY DEF Init, HistoryKept, Entry0
  <2>3. AllHeld
    BY DEF Init, AllHeld, Holding
  <2> QED
    BY <2>1, <2>2, <2>3 DEF HInv
<1>2. HInv /\ [Next]_hvars => HInv'
  BY HInvNext
<1>3. HInv => HistoryKept
  BY DEF HInv
<1> QED
  BY <1>1, <1>2, <1>3, PTL DEF Spec, hvars

-----------------------------------------------------------------------------
(* The relay's answer names the command's own task, and comes before there *)
(* is anything to count.                                                   *)
Named ==
    \A s \in Sends : /\ taskId[s] \in {None, Task[s]}
                     /\ s \in Direct => taskId[s] = None
                     /\ entry[s] # None => Holding(s) \/ phase[s] = "done"

CInv == TInv /\ Named /\ CountedAsReported

LEMMA CInvCounts ==
  ASSUME CInv, NEW s \in Sends, NEW ok \in BOOLEAN,
         NEW proof \in {"none", "claimed", "anchored"}, Counts(s, ok, proof),
         taskId[s] # None =>
            /\ ok => outcome[Task[s]].status = "completed"
            /\ proof = "anchored" => outcome[Task[s]].anchored
  PROVE  Named' /\ CountedAsReported'
<1>1. entry' = [entry EXCEPT ![s] = [send |-> s, success |-> ok, proof |-> proof]]
  BY DEF Counts
<1>2. UNCHANGED <<taskId, outcome>> /\ phase' = [phase EXCEPT ![s] = "read"]
  BY DEF Counts, Goes
<1>3. Named'
  BY <1>1, <1>2 DEF CInv, TInv, Typed, Named, Holding
<1>4. ASSUME NEW d \in Sends, entry'[d] # None, taskId'[d] # None
      PROVE  /\ entry'[d].success => outcome'[Task[d]].status = "completed"
             /\ entry'[d].proof = "anchored" => outcome'[Task[d]].anchored
  <2>1. CASE d = s
    BY <2>1, <1>1, <1>2, <1>4 DEF CInv, TInv, Typed
  <2>2. CASE d # s
    BY <2>2, <1>1, <1>2, <1>4 DEF CInv, TInv, Typed, CountedAsReported
  <2> QED
    BY <2>1, <2>2
<1> QED
  BY <1>3, <1>4 DEF CountedAsReported

(* A result that matches a named task is a result of that task. *)
LEMMA CInvFind ==
  ASSUME CInv, NEW s \in Sends, Find(s)
  PROVE  Named' /\ CountedAsReported'
<1>1. PICK i \in Matching(s) :
         Counts(s, outcome[inbox[i]].status = "completed",
                IF outcome[inbox[i]].anchored THEN "anchored" ELSE "claimed")
  BY FindCounts
<1>2. taskId[s] # None => inbox[i] = Task[s]
  BY DEF Matching, Matches, CInv, Named
<1> QED
  BY <1>1, <1>2, CInvCounts

LEMMA CInvNext ==
  ASSUME CInv, [Next]_hvars
  PROVE  CInv'
<1>1. TInv'
  BY TInvNext DEF CInv
<1>2. ASSUME NEW s \in Sends, Command(s) PROVE Named' /\ CountedAsReported'
  <2>1. CASE SendRelayed(s)
    <3>1. /\ taskId' \in {taskId, [taskId EXCEPT ![s] = Task[s]]}
          /\ UNCHANGED <<entry, outcome>> /\ phase' = [phase EXCEPT ![s] = "waiting"]
          /\ s \notin Direct
      BY <2>1 DEF SendRelayed, Goes
    <3>2. entry[s] = None
      BY <2>1 DEF SendRelayed, CInv, Named, Holding
    <3>3. Named'
      BY <3>1, <3>2 DEF CInv, TInv, Typed, Named, Holding
    <3>4. CountedAsReported'
      BY <3>1, <3>2 DEF CInv, TInv, Typed, CountedAsReported
    <3> QED
      BY <3>3, <3>4
  <2>2. CASE Check(s) \/ Connect(s) \/ SendFails(s) \/ Interrupt(s) \/ Truncate(s) \/ Fill(s)
    <3>1. UNCHANGED <<taskId, entry, outcome>>
      BY <2>2 DEF Check, Connect, SendFails, Interrupt, Truncate, Fill, executor
    <3>2. /\ \A d \in Sends \ {s} : phase'[d] = phase[d]
          /\ entry[s] # None => phase'[s] \in {"read", "truncated", "done"}
      BY <2>2 DEF Check, Connect, SendFails, Interrupt, Truncate, Fill, Goes, CInv, TInv, Typed, Named, Holding
    <3> QED
      BY <3>1, <3>2 DEF CInv, Named, CountedAsReported, Holding
  <2>3. CASE SendDirect(s)
    <3>1. taskId[s] = None
      BY <2>3 DEF SendDirect, CInv, Named
    <3> QED
      BY <2>3, <3>1, CInvCounts DEF SendDirect
  <2>4. CASE Timeout(s)
    BY <2>4, CInvCounts DEF Timeout
  <2>5. CASE Find(s)
    BY <2>5, CInvFind
  <2> QED
    BY <1>2, <2>1, <2>2, <2>3, <2>4, <2>5 DEF Command
<1>3. CASE (\E t \in taken : Arrives(t)) \/ UNCHANGED hvars
  <2>1. UNCHANGED <<phase, taskId, entry, outcome>>
    BY <1>3 DEF Arrives, hvars, commands, executor
  <2> QED
    BY <1>1, <2>1 DEF CInv, Named, CountedAsReported, Holding
<1>4. ASSUME NEW s \in Sends, Command(s) PROVE CInv'
  BY <1>1, <1>2, <1>4 DEF CInv
<1> QED
  BY <1>3, <1>4 DEF Next

(* A relayed task that was named counts as the executor reported it, and   *)
(* its proof as verified only with a transaction (atel.mjs:7839-7880), for *)
(* any number of tasks and results.                                        *)
THEOREM CountsWhatWasReported == Spec => []CountedAsReported
<1>1. Init => CInv
  BY TInvInit DEF Init, CInv, Named, CountedAsReported
<1>2. CInv /\ [Next]_hvars => CInv'
  BY CInvNext
<1>3. CInv => CountedAsReported
  BY DEF CInv
<1> QED
  BY <1>1, <1>2, <1>3, PTL DEF Spec, hvars
-----------------------------------------------------------------------------
(* The square roots of the table, one for each number of tasks. *)
LEMMA RootsExist ==
  ASSUME NEW t \in 0..FullTasks
  PROVE  \E n \in 0..ForProofs : /\ n * n * FullTasks <= ForProofs * ForProofs * t
                                /\ ForProofs * ForProofs * t < (n + 1) * (n + 1) * FullTasks
<1> DEFINE roots == <<0, 365, 516, 632, 730, 816, 894, 966, 1032, 1095, 1154, 1211, 1264,
                   1316, 1366, 1414, 1460, 1505, 1549, 1591, 1632,
                   1673, 1712, 1751, 1788, 1825, 1861, 1897, 1932,
                   1966, 2000>>
           n == roots[t + 1]
<1>1. /\ n \in 0..2000
      /\ n * n * 30 <= 4000000 * t
      /\ 4000000 * t < (n + 1) * (n + 1) * 30
  BY SMT DEF FullTasks
<1> HIDE DEF n
<1> QED
  BY <1>1, SMT DEF FullTasks, ForProofs

LEMMA ProofPointsType == ASSUME NEW t \in 0..FullTasks PROVE ProofPoints[t] \in Nat
<1>1. ProofPoints[t] \in 0..ForProofs
  BY RootsExist DEF ProofPoints
<1>2. \A n \in 0..ForProofs : n \in Nat
  BY DEF ForProofs
<1> QED
  BY <1>1, <1>2

LEMMA MinOfTwo == ASSUME NEW a \in Int, NEW b \in Int
                  PROVE  Min({a, b}) = IF a <= b THEN a ELSE b
BY DEF Min

LEMMA ScoreType == ASSUME NEW h \in Tallies PROVE computeTrustScore(h) \in Int
<1> DEFINE volume == Min({h.tasks, FullTasks})
<1>1. /\ h.tasks \in Nat /\ h.successes \in Nat
      /\ h.proofs \in Nat /\ h.verified \in Nat
  BY DEF Tallies
<1>2. volume \in 0..FullTasks
  BY <1>1, MinOfTwo DEF FullTasks
<1>3. ProofPoints[volume] \in Nat
  BY <1>2, ProofPointsType
<1> HIDE DEF volume
<1> DEFINE points == IF h.proofs = 0 THEN 0 ELSE (ProofPoints[volume] * h.verified) \div h.proofs
           rate   == (4000 * h.successes) \div h.tasks
           share  == (3000 * volume) \div FullTasks
<1>4. ProofPoints[volume] * h.verified \in Int
  BY <1>1, <1>3
<1>5. points \in Int
  BY <1>1, <1>4
<1>6. share \in Int
  BY <1>2 DEF FullTasks
<1>7. h.tasks # 0 => rate \in Int
  BY <1>1
<1> HIDE DEF points, rate, share
<1>8. computeTrustScore(h) =
        IF h.tasks = 0 THEN 0
        ELSE Min({MaxScore, rate + share + points + (IF h.verified >= BonusAt THEN 1000 ELSE 0)})
  BY DEF computeTrustScore, points, rate, share, volume
<1> QED
  BY <1>5, <1>6, <1>7, <1>8, MinOfTwo DEF MaxScore

(* Whatever the file tells: each threshold of checkTrust is at least that  *)
(* of cmdCheck, a higher score is allowed no less, and a new agent, whose  *)
(* score is 0, is only sent tasks of the lowest risk.                      *)
LEMMA NeverLaxer ==
  ASSUME NEW h \in Tallies, NEW risk \in Risks, NEW policy, checkTrust(h, risk, policy, FALSE),
         NEW profile \in Profiles(Nat)
  PROVE  \/ cmdCheck(h, profile, risk, policy)
         \/ profile.score # NoScore /\ profile.score < computeTrustScore(h)
<1>1. RISK_THRESHOLDS[risk] \in Int /\ riskThresholds[risk] \in Int
      /\ RISK_THRESHOLDS[risk] <= riskThresholds[risk]
  BY DEF Risks, RISK_THRESHOLDS, riskThresholds
<1>2. PICK local : local = computeTrustScore(h)
  OBVIOUS
<1>3. PICK score : score = effectiveScore(h, profile)
  OBVIOUS
<1>4. local \in Int /\ profile.score \in Int /\ (~profile.known => profile.score = NoScore)
  <2>1. local \in Int
    BY <1>2, ScoreType
  <2>2. profile.score \in Int /\ (~profile.known => profile.score = NoScore)
    <3>1. NoScore \in Int
      BY DEF NoScore
    <3>2. PICK n : n = NoScore
      OBVIOUS
    <3>3. profile \in [known : {FALSE}, score : {n}] \/ profile \in [known : {TRUE}, score : {n} \cup Nat]
      BY <3>2 DEF Profiles
    <3>4. profile.score \in {n} \cup Nat /\ (~profile.known => profile.score = n)
      BY <3>3
    <3> QED
      BY <3>1, <3>2, <3>4
  <2> QED
    BY <2>1, <2>2
<1>5. CASE profile.score # NoScore /\ profile.score < local
  BY <1>2, <1>5
<1>6. CASE ~(profile.score # NoScore /\ profile.score < local)
  <2>1. score \in Int /\ local <= score
    BY <1>2, <1>3, <1>4, <1>6 DEF effectiveScore
  <2>2. riskAllowed(local, risk)
    BY <1>2 DEF checkTrust
  <2>3. riskAllowed(score, risk)
    BY <1>4, <2>1, <2>2 DEF riskAllowed, computeTrustLevel, Risks, RISK_ORDER
  <2>4. CASE h.tasks = 0
    <3>1. Admits(policy, risk) /\ local = 0
      BY <1>2, <2>4 DEF checkTrust, computeTrustScore
    <3>2. RISK_THRESHOLDS[risk] = 0
      BY <2>2, <3>1 DEF riskAllowed, computeTrustLevel, Risks, RISK_ORDER, RISK_THRESHOLDS
    <3>3. score >= RISK_THRESHOLDS[risk]
      BY <2>1, <3>1, <3>2
    <3> QED
      BY <1>3, <2>3, <3>1, <3>3 DEF cmdCheck
  <2>5. CASE h.tasks # 0
    <3>1. local >= riskThresholds[risk]
      BY <1>2, <2>5 DEF checkTrust
    <3>2. score >= RISK_THRESHOLDS[risk]
      BY <1>1, <1>4, <2>1, <3>1
    <3> QED
      BY <1>3, <2>3, <2>5, <3>2 DEF cmdCheck
  <2> QED
    BY <2>4, <2>5
<1> QED
  BY <1>5, <1>6

(* There is a number of entries to count. *)
FiniteFiles ==
    /\ trust # None => IsFiniteSet(trust)
    /\ \A s \in Sends : Holding(s) => IsFiniteSet(seen[s])

FInv == TInv /\ FiniteFiles

LEMMA FInvNext ==
  ASSUME FInv, [Next]_hvars
  PROVE  FInv'
<1>1. TInv'
  BY TInvNext DEF FInv
<1>2. ASSUME NEW s \in Sends, NEW ok, NEW proof, Counts(s, ok, proof)
      PROVE  FiniteFiles'
  <2>1. IsFiniteSet(Content(trust))
    BY FS_EmptySet DEF FInv, FiniteFiles, Content
  <2>2. UNCHANGED trust /\ seen' = [seen EXCEPT ![s] = Content(trust)]
        /\ phase' = [phase EXCEPT ![s] = "read"]
    BY <1>2 DEF Counts, Goes
  <2> QED
    BY <2>1, <2>2 DEF FInv, FiniteFiles, TInv, Typed, Holding
<1>3. ASSUME NEW s \in Sends, Command(s) PROVE FiniteFiles'
  <2>1. CASE Check(s) \/ Connect(s) \/ SendFails(s) \/ SendRelayed(s) \/ Interrupt(s) \/ Truncate(s)
    <3>1. UNCHANGED seen /\ trust' \in {trust, None}
      BY <2>1 DEF Check, Connect, SendFails, SendRelayed, Interrupt, Truncate
    <3>2. \A d \in Sends : Holding(d)' => Holding(d)
      BY <2>1 DEF Check, Connect, SendFails, SendRelayed, Interrupt, Truncate, Goes, Holding,
                  FInv, TInv, Typed
    <3> QED
      BY <3>1, <3>2 DEF FInv, FiniteFiles
  <2>2. CASE SendDirect(s) \/ Timeout(s)
    BY <2>2, <1>2 DEF SendDirect, Timeout
  <2>3. CASE Find(s)
    BY <2>3, FindCounts, <1>2
  <2>4. CASE Fill(s)
    <3>1. IsFiniteSet(Filled(s))
      BY <2>4, FS_AddElement DEF Filled, Fill, Holding, FInv, FiniteFiles
    <3>2. trust' \in {Filled(s), None} /\ seen' = [seen EXCEPT ![s] = None]
          /\ phase' = [phase EXCEPT ![s] = "done"]
      BY <2>4 DEF Fill, Goes
    <3> QED
      BY <3>1, <3>2 DEF FInv, FiniteFiles, TInv, Typed, Holding
  <2> QED
    BY <1>3, <2>1, <2>2, <2>3, <2>4 DEF Command
<1>4. CASE (\E t \in taken : Arrives(t)) \/ UNCHANGED hvars
  <2>1. UNCHANGED <<phase, trust, seen>>
    BY <1>4 DEF Arrives, hvars, commands
  <2> QED
    BY <1>1, <2>1 DEF FInv, FiniteFiles, Holding
<1>5. ASSUME NEW s \in Sends, Command(s) PROVE FInv'
  BY <1>1, <1>3, <1>5 DEF FInv
<1> QED
  BY <1>4, <1>5 DEF Next

LEMMA TallyType == ASSUME NEW entries, IsFiniteSet(entries) PROVE Tally(entries) \in Tallies
<1> DEFINE new == {e \in entries : e.send # None}
<1>1. IsFiniteSet(new) /\ IsFiniteSet({e \in new : e.success})
      /\ IsFiniteSet({e \in new : e.proof # "none"}) /\ IsFiniteSet({e \in new : e.proof = "anchored"})
  BY FS_Subset
<1>2. /\ Cardinality(new) \in Nat /\ Cardinality({e \in new : e.success}) \in Nat
      /\ Cardinality({e \in new : e.proof # "none"}) \in Nat
      /\ Cardinality({e \in new : e.proof = "anchored"}) \in Nat
  BY <1>1, FS_CardinalityType
<1>3. Before.tasks \in Nat /\ Before.successes \in Nat /\ Before.proofs \in Nat /\ Before.verified \in Nat
  BY TaskHistoryAssumption DEF Tallies
<1> HIDE DEF new
<1> QED
  BY <1>2, <1>3 DEF Tally, Tallies, new

(* A task that `atel task` would send is one that `atel check` would have  *)
(* allowed, unless the platform's score is below the one of the file       *)
(* (3590-3622, 7943-8025): for every history, risk, policy and profile.    *)
THEOREM CheckNeverStricter == Spec => []CheckAgrees
<1>1. Init => FInv
  <2> SUFFICES ASSUME Init PROVE FInv
    OBVIOUS
  <2>1. FiniteFiles
    BY FS_Singleton DEF Init, FiniteFiles, Holding
  <2> QED
    BY <2>1, TInvInit DEF FInv
<1>2. FInv /\ [Next]_hvars => FInv'
  BY FInvNext
<1>3. FInv => CheckAgrees
  <2> SUFFICES ASSUME FInv PROVE CheckAgrees
    OBVIOUS
  <2>1. IsFiniteSet(Content(trust))
    BY FS_EmptySet DEF FInv, FiniteFiles, Content
  <2>2. Tally(Content(trust)) \in Tallies
    BY <2>1, TallyType
  <2>3. Profiles(Scores) \subseteq Profiles(Nat)
    BY TaskHistoryAssumption DEF Profiles
  <2> QED
    BY <2>2, <2>3, NeverLaxer DEF CheckAgrees
<1> QED
  BY <1>1, <1>2, <1>3, PTL DEF Spec, hvars
-----------------------------------------------------------------------------
(* The executor's files. *)
evars == Executor!vars

Jobs == Executor!Jobs

OfRuntime == Executor!OfRuntime

Orders == Executor!Orders

Steps == {"idle", "fetched", "proved", "anchored", "read", "pushing", "posting", "auditing", "done"}

(* The part of the types the proofs need. *)
ETyped ==
    /\ step \in [Jobs -> Steps]
    /\ success \in [Jobs -> BOOLEAN] /\ anchored \in [Jobs -> BOOLEAN]
    /\ file \in ScoreFile \cup {None} /\ memory \in ScoreFile \cup {None}
    /\ copy \in [Completes -> ScoreFile \cup {None}]

(* A job of the runtime is under way only while the runtime is up, and a   *)
(* command that has read the file has what it read.                        *)
RunsUp == \A j \in OfRuntime : Executor!UnderWay(j) => memory # None

HasRead == \A c \in Completes : step[c] = "read" => copy[c] # None

EInv == ETyped /\ RunsUp /\ HasRead

LEMMA RecordedType ==
  ASSUME ETyped, NEW kept \in ScoreFile, NEW j \in Jobs
  PROVE  /\ Executor!Recorded(kept, j) \in ScoreFile
         /\ Executor!Recording(Executor!Recorded(kept, j)) = Executor!Recording(kept) \cup {j}
<1> DEFINE e == Executor!Entry(j)
           r == Executor!Recorded(kept, j)
<1>1. e \in ScoreRecord /\ e.job = j
  BY DEF Executor!Entry, ScoreRecord, ETyped, Jobs
<1>2. kept = [records |-> kept.records, summaries |-> kept.summaries]
      /\ kept.records \in Seq(ScoreRecord) /\ kept.summaries \in Seq(ScoreRecord)
  BY DEF ScoreFile
<1>3. r = IF anchored[j] THEN [records |-> Append(kept.records, e), summaries |-> kept.summaries]
          ELSE [records |-> kept.records, summaries |-> Append(kept.summaries, e)]
  <2>1. \A x : [kept EXCEPT !.records = x] = [records |-> x, summaries |-> kept.summaries]
    BY DEF ScoreFile
  <2>2. \A x : [kept EXCEPT !.summaries = x] = [records |-> kept.records, summaries |-> x]
    BY DEF ScoreFile
  <2> QED
    BY <2>1, <2>2 DEF Executor!Recorded
<1> HIDE DEF e, r
<1>4. \A s \in Seq(ScoreRecord) : /\ Append(s, e) \in Seq(ScoreRecord)
                                 /\ Executor!ToSet(Append(s, e)) = Executor!ToSet(s) \cup {e}
  <2> SUFFICES ASSUME NEW s \in Seq(ScoreRecord)
               PROVE  /\ Append(s, e) \in Seq(ScoreRecord)
                      /\ Executor!ToSet(Append(s, e)) = Executor!ToSet(s) \cup {e}
    OBVIOUS
  <2>1. /\ Append(s, e) \in Seq(ScoreRecord) /\ Len(Append(s, e)) = Len(s) + 1
        /\ Append(s, e)[Len(s) + 1] = e /\ \A i \in 1..Len(s) : Append(s, e)[i] = s[i]
    BY <1>1
  <2>2. DOMAIN s = 1..Len(s) /\ DOMAIN Append(s, e) = 1..(Len(s) + 1) /\ Len(s) \in Nat
    BY <2>1
  <2>3. Executor!ToSet(Append(s, e)) = Executor!ToSet(s) \cup {e}
    BY <2>1, <2>2 DEF Executor!ToSet
  <2> QED
    BY <2>1, <2>3
<1>5. r \in ScoreFile
  BY <1>2, <1>3, <1>4 DEF ScoreFile
<1>6. CASE anchored[j]
  <2>1. Executor!ToSet(r.records) = Executor!ToSet(kept.records) \cup {e} /\ r.summaries = kept.summaries
    BY <1>2, <1>3, <1>4, <1>6
  <2> QED
    BY <1>1, <1>5, <2>1 DEF Executor!Recording, r
<1>7. CASE ~anchored[j]
  <2>1. Executor!ToSet(r.summaries) = Executor!ToSet(kept.summaries) \cup {e} /\ r.records = kept.records
    BY <1>2, <1>3, <1>4, <1>7
  <2> QED
    BY <1>1, <1>5, <2>1 DEF Executor!Recording, r
<1> QED
  BY <1>5, <1>6, <1>7 DEF r

LEMMA ContentType ==
  ASSUME NEW f \in ScoreFile \cup {None}
  PROVE  Executor!Content(f) \in ScoreFile /\ Executor!Content(f) # None
<1>1. Executor!Nothing \in ScoreFile
  BY DEF Executor!Nothing, ScoreFile
<1> QED
  BY <1>1, AgentFilesAssumption DEF Executor!Content

Quiet == UNCHANGED <<file, memory, copy, wrote, exposed>>

(* The steps that touch neither the score file nor what is held of it.     *)
QuietStep(j) ==
    \/ j \in Completes /\ (Executor!Kill(j) \/ Executor!FetchOrder(j) \/ Executor!Complete(j))
    \/ Executor!Prove(j) \/ Executor!anchorOnChain(j) \/ Executor!RegistryTakes(j)
    \/ Executor!EndPush(j) \/ Executor!Audit(j)

(* One job goes on, but does not come to read the file. *)
MovesOn(j) ==
    /\ step' \in [Jobs -> Steps]
    /\ \A k \in Jobs \ {j} : step'[k] = step[k]
    /\ step'[j] = "read" => step[j] = "read"
    /\ j \in OfRuntime /\ Executor!UnderWay(j)' => Executor!UnderWay(j) \/ memory # None

LEMMA QuietSteps ==
  ASSUME EInv, NEW j \in Jobs, QuietStep(j)
  PROVE  /\ Quiet /\ MovesOn(j)
         /\ success' \in [Jobs -> BOOLEAN] /\ anchored' \in [Jobs -> BOOLEAN]
<1> USE DEF EInv, ETyped, Steps, Quiet, MovesOn, Executor!Goes, Executor!scores, Executor!history,
            Executor!UnderWay
<1> DEFINE Goal == /\ Quiet /\ MovesOn(j)
                   /\ success' \in [Jobs -> BOOLEAN] /\ anchored' \in [Jobs -> BOOLEAN]
<1>1. ASSUME j \in Completes, Executor!Kill(j) PROVE Goal
  BY <1>1 DEF Executor!Kill, Executor!Ended, Jobs
<1>2. ASSUME j \in Completes, Executor!FetchOrder(j) PROVE Goal
  BY <1>2, AgentFilesAssumption DEF Executor!FetchOrder, OfRuntime, Executor!OfRuntime
<1>3. ASSUME j \in Completes, Executor!Complete(j) PROVE Goal
  BY <1>3 DEF Executor!Complete
<1>4. ASSUME Executor!Prove(j) PROVE Goal
  BY <1>4, AgentFilesAssumption DEF Executor!Prove, OfRuntime, Executor!OfRuntime
<1>5. ASSUME Executor!anchorOnChain(j) PROVE Goal
  BY <1>5 DEF Executor!anchorOnChain
<1>6. ASSUME Executor!RegistryTakes(j) PROVE Goal
  BY <1>6 DEF Executor!RegistryTakes, Executor!work
<1>7. ASSUME Executor!EndPush(j) PROVE Goal
  BY <1>7 DEF Executor!EndPush
<1>8. ASSUME Executor!Audit(j) PROVE Goal
  BY <1>8 DEF Executor!Audit
<1> QED
  BY <1>1, <1>2, <1>3, <1>4, <1>5, <1>6, <1>7, <1>8 DEF QuietStep

(* Whether a save succeeds or not, the file is of its type. *)
LEMMA SavedType ==
  ASSUME EInv, NEW kept \in ScoreFile, NEW j, Executor!Saved(kept, j)
  PROVE  file' \in ScoreFile \cup {None}
BY DEF Executor!Saved, EInv, ETyped

LEMMA EInvInit == Executor!Init => EInv
BY AgentFilesAssumption DEF Executor!Init, EInv, ETyped, RunsUp, HasRead, Executor!UnderWay, Steps,
   Jobs, OfRuntime, Executor!OfRuntime, Executor!Jobs

LEMMA EInvNext ==
  ASSUME EInv, [Executor!Next]_(Executor!vars)
  PROVE  EInv'
<1>1. ASSUME NEW j \in Jobs, QuietStep(j) PROVE EInv'
  <2>1. Quiet /\ MovesOn(j) /\ ETyped'
    BY <1>1, QuietSteps DEF EInv, ETyped, MovesOn, Quiet
  <2>2. RunsUp'
    BY <2>1 DEF EInv, RunsUp, MovesOn, Quiet, Executor!UnderWay, Jobs, OfRuntime, Executor!OfRuntime,
       Executor!Jobs
  <2>3. HasRead'
    BY <2>1 DEF EInv, HasRead, MovesOn, Quiet, Jobs, Executor!Jobs
  <2> QED
    BY <2>1, <2>2, <2>3 DEF EInv
<1>2. CASE Executor!Start
  <2>1. /\ memory' = Executor!Content(file) /\ memory' \in ScoreFile
        /\ UNCHANGED <<step, success, anchored, file, copy>>
    BY <1>2, ContentType DEF Executor!Start, Executor!Loaded, Executor!work, EInv, ETyped
  <2> QED
    BY <2>1, AgentFilesAssumption DEF EInv, ETyped, RunsUp, HasRead, Executor!UnderWay
<1>3. CASE Executor!Stop
  <2>1. /\ memory' = None /\ UNCHANGED <<success, anchored, file, copy>>
        /\ step' = [j \in Jobs |-> IF j \in OfRuntime /\ Executor!UnderWay(j) THEN "done" ELSE step[j]]
    BY <1>3 DEF Executor!Stop, Executor!Ended, Jobs, OfRuntime
  <2>2. ETyped'
    BY <2>1 DEF EInv, ETyped, Steps
  <2>3. RunsUp'
    BY <2>1 DEF EInv, ETyped, RunsUp, Executor!UnderWay, OfRuntime, Executor!OfRuntime, Jobs, Executor!Jobs
  <2>4. HasRead'
    BY <2>1 DEF EInv, ETyped, HasRead, Jobs, Executor!Jobs
  <2> QED
    BY <2>2, <2>3, <2>4 DEF EInv
<1>4. ASSUME NEW j \in Jobs, Executor!Record(j) PROVE EInv'
  <2>1. j \in OfRuntime /\ memory \in ScoreFile
    BY <1>4 DEF Executor!Record, EInv, ETyped, RunsUp, Executor!UnderWay, OfRuntime
  <2>2. memory' \in ScoreFile
    BY <1>4, <2>1, RecordedType DEF Executor!Record, EInv
  <2>3. file' \in ScoreFile \cup {None}
    BY <1>4, <2>2, SavedType DEF Executor!Record
  <2>4. /\ UNCHANGED <<success, anchored, copy>>
        /\ step' \in {[step EXCEPT ![j] = "done"], [step EXCEPT ![j] = "pushing"]}
    BY <1>4 DEF Executor!Record, Executor!Goes
  <2>5. ETyped'
    BY <2>2, <2>3, <2>4 DEF EInv, ETyped, Steps
  <2>6. RunsUp'
    BY <2>2, AgentFilesAssumption DEF RunsUp
  <2>7. HasRead'
    BY <2>4 DEF EInv, ETyped, HasRead, Jobs, Executor!Jobs
  <2> QED
    BY <2>5, <2>6, <2>7 DEF EInv
<1>5. ASSUME NEW c \in Completes, Executor!ReadScores(c) PROVE EInv'
  <2>1. Executor!Content(file) \in ScoreFile
    BY ContentType DEF EInv, ETyped
  <2>2. /\ step' = [step EXCEPT ![c] = "read"] /\ copy' = [copy EXCEPT ![c] = Executor!Content(file)]
        /\ UNCHANGED <<success, anchored, file, memory>>
    BY <1>5 DEF Executor!ReadScores, Executor!Goes
  <2>3. ETyped'
    BY <2>1, <2>2 DEF EInv, ETyped, Steps
  <2>4. RunsUp'
    BY <2>2, AgentFilesAssumption DEF EInv, ETyped, RunsUp, Executor!UnderWay, OfRuntime, Executor!OfRuntime
  <2>5. HasRead'
    BY <2>1, <2>2, AgentFilesAssumption DEF EInv, ETyped, HasRead
  <2> QED
    BY <2>3, <2>4, <2>5 DEF EInv
<1>6. ASSUME NEW c \in Completes, Executor!WriteScores(c) PROVE EInv'
  <2>1. copy[c] \in ScoreFile /\ c \in Jobs
    BY <1>6 DEF Executor!WriteScores, EInv, ETyped, HasRead, Jobs, Executor!Jobs
  <2>2. file' \in ScoreFile \cup {None}
    BY <1>6, <2>1, RecordedType, SavedType DEF Executor!WriteScores, EInv
  <2>3. /\ step' = [step EXCEPT ![c] = "pushing"] /\ copy' = [copy EXCEPT ![c] = None]
        /\ UNCHANGED <<success, anchored, memory>>
    BY <1>6 DEF Executor!WriteScores, Executor!Goes
  <2>4. ETyped'
    BY <2>2, <2>3 DEF EInv, ETyped, Steps
  <2>5. RunsUp'
    BY <2>3, AgentFilesAssumption DEF EInv, ETyped, RunsUp, Executor!UnderWay, OfRuntime, Executor!OfRuntime
  <2>6. HasRead'
    BY <2>3 DEF EInv, ETyped, HasRead, Jobs, Executor!Jobs
  <2> QED
    BY <2>4, <2>5, <2>6 DEF EInv
<1>7. ASSUME NEW o \in Orders, Executor!Disputed(o) PROVE EInv'
  BY <1>7 DEF Executor!Disputed, Executor!work, Executor!scores, EInv, ETyped, RunsUp, HasRead, Executor!UnderWay
<1>8. CASE UNCHANGED Executor!vars
  BY <1>8 DEF Executor!vars, Executor!work, Executor!scores, EInv, ETyped, RunsUp, HasRead, Executor!UnderWay
<1> QED
  BY <1>1, <1>2, <1>3, <1>4, <1>5, <1>6, <1>7, <1>8 DEF Executor!Next, QuietStep, Jobs, Executor!Jobs, Orders

-----------------------------------------------------------------------------
(* Whoever holds what the score file was holds all that was not exposed:   *)
(* the runtime in memory, if it has jobs that would save it, and each      *)
(* command between reading and writing.                                    *)
Sound(kept) == wrote \ exposed \subseteq Executor!Recording(kept)

RuntimeHolds == memory # None /\ OfRuntime # {} => Sound(memory)

CommandsHold == \A c \in Completes : step[c] = "read" => Sound(copy[c])

RInv == EInv /\ RecordsKept /\ RuntimeHolds /\ CommandsHold

(* A save by a job that wrote what it held and its own record. *)
LEMMA SaveKeeps ==
  ASSUME RInv, NEW j \in Jobs, NEW held \in ScoreFile, Sound(held),
         Executor!Saved(Executor!Recorded(held, j), j)
  PROVE  /\ RecordsKept'
         /\ wrote' \ exposed' \subseteq Executor!Recording(Executor!Recorded(held, j))
         /\ Executor!Holders(j) # {} => wrote' \ exposed' \subseteq wrote \ exposed
<1> DEFINE kept == Executor!Recorded(held, j)
<1>1. kept \in ScoreFile /\ Executor!Recording(kept) = Executor!Recording(held) \cup {j}
  BY RecordedType DEF RInv, EInv
<1>2. Executor!Content(kept) = kept
  BY <1>1, AgentFilesAssumption DEF Executor!Content
<1> HIDE DEF kept
<1>3. CASE /\ file' = kept /\ wrote' = wrote \cup {j}
           /\ exposed' = IF Executor!Holders(j) = {} THEN exposed ELSE exposed \cup {j}
  <2>1. wrote' \ exposed' \subseteq Executor!Recording(kept)
    BY <1>1, <1>3 DEF Sound
  <2>2. RecordsKept'
    BY <2>1, <1>2, <1>3 DEF RecordsKept, Executor!RecordsKept
  <2> QED
    BY <1>3, <2>1, <2>2 DEF kept
<1>4. CASE /\ file' \in {file, None} /\ wrote' = wrote
           /\ exposed' = IF file' = None THEN exposed \cup wrote ELSE exposed
  <2>1. RecordsKept'
    BY <1>4 DEF RInv, RecordsKept, Executor!RecordsKept
  <2>2. wrote' \ exposed' \subseteq wrote \ exposed
    BY <1>4
  <2> QED
    BY <1>1, <2>1, <2>2 DEF Sound, kept
<1> QED
  BY <1>3, <1>4 DEF Executor!Saved, kept

LEMMA RecordsQuiet ==
  ASSUME RInv, Quiet,
         \A c \in Completes : step'[c] = "read" => step[c] = "read"
  PROVE  RecordsKept' /\ RuntimeHolds' /\ CommandsHold'
<1>1. RecordsKept'
  BY DEF Quiet, RInv, RecordsKept, Executor!RecordsKept
<1>2. RuntimeHolds'
  BY DEF Quiet, RInv, RuntimeHolds, Sound
<1>3. CommandsHold'
  BY DEF Quiet, RInv, CommandsHold, Sound
<1> QED
  BY <1>1, <1>2, <1>3

(* The runtime saves its arrays: it holds what it wrote, and so do the     *)
(* commands that read the file before, for the record is exposed then.     *)
LEMMA RecordsRecord ==
  ASSUME RInv, NEW j \in Jobs, Executor!Record(j)
  PROVE  RecordsKept' /\ RuntimeHolds' /\ CommandsHold'
<1>1. j \in OfRuntime /\ memory \in ScoreFile /\ Sound(memory)
  BY DEF Executor!Record, RInv, EInv, ETyped, RunsUp, Executor!UnderWay, OfRuntime, RuntimeHolds
<1>2. memory' = Executor!Recorded(memory, j) /\ Executor!Saved(Executor!Recorded(memory, j), j)
  BY DEF Executor!Record
<1>3. /\ RecordsKept'
      /\ wrote' \ exposed' \subseteq Executor!Recording(memory')
      /\ Executor!Holders(j) # {} => wrote' \ exposed' \subseteq wrote \ exposed
  BY <1>1, <1>2, SaveKeeps
<1>4. RuntimeHolds'
  BY <1>3 DEF RuntimeHolds, Sound
<1>5. ASSUME NEW c \in Completes, step'[c] = "read" PROVE Sound(copy[c])'
  <2>1. c # j /\ step[c] = "read" /\ copy' = copy
    BY <1>1, <1>5, AgentFilesAssumption
       DEF Executor!Record, Executor!Goes, RInv, EInv, ETyped, OfRuntime, Executor!OfRuntime, Jobs, Executor!Jobs
  <2>2. Executor!Holders(j) # {}
    BY <2>1 DEF Executor!Holders
  <2>3. Sound(copy[c])
    BY <2>1 DEF RInv, CommandsHold
  <2> QED
    BY <1>3, <2>1, <2>2, <2>3 DEF Sound
<1> QED
  BY <1>3, <1>4, <1>5 DEF CommandsHold

(* The same for the command that writes back what it read. *)
LEMMA RecordsWrite ==
  ASSUME RInv, NEW c \in Completes, Executor!WriteScores(c)
  PROVE  RecordsKept' /\ RuntimeHolds' /\ CommandsHold'
<1>1. c \in Jobs /\ copy[c] \in ScoreFile /\ Sound(copy[c])
  BY DEF Executor!WriteScores, RInv, EInv, ETyped, HasRead, CommandsHold, Jobs, Executor!Jobs
<1>2. /\ RecordsKept'
      /\ Executor!Holders(c) # {} => wrote' \ exposed' \subseteq wrote \ exposed
  BY <1>1, SaveKeeps DEF Executor!WriteScores
<1>3. RuntimeHolds'
  <2> SUFFICES ASSUME memory' # None, OfRuntime # {} PROVE Sound(memory)'
    BY DEF RuntimeHolds
  <2>1. memory' = memory /\ Sound(memory)
    BY DEF Executor!WriteScores, RInv, RuntimeHolds
  <2>2. Executor!Holders(c) # {}
    BY <2>1 DEF Executor!Holders, OfRuntime
  <2> QED
    BY <1>2, <2>1, <2>2 DEF Sound
<1>4. ASSUME NEW d \in Completes, step'[d] = "read" PROVE Sound(copy[d])'
  <2>1. d # c /\ step[d] = "read" /\ copy'[d] = copy[d]
    BY <1>1, <1>4 DEF Executor!WriteScores, Executor!Goes, RInv, EInv, ETyped, Jobs, Executor!Jobs
  <2>2. Executor!Holders(c) # {}
    BY <2>1 DEF Executor!Holders
  <2>3. Sound(copy[d])
    BY <2>1 DEF RInv, CommandsHold
  <2> QED
    BY <1>2, <2>1, <2>2, <2>3 DEF Sound
<1> QED
  BY <1>2, <1>3, <1>4 DEF CommandsHold

LEMMA RInvNext ==
  ASSUME RInv, [Executor!Next]_(Executor!vars)
  PROVE  RInv'
<1>1. EInv'
  BY EInvNext DEF RInv
<1> DEFINE Parts == RecordsKept /\ RuntimeHolds /\ CommandsHold
<1>2. ASSUME NEW j \in Jobs, QuietStep(j) PROVE Parts'
  <2>1. Quiet /\ MovesOn(j)
    BY <1>2, QuietSteps DEF RInv
  <2>2. \A c \in Completes : step'[c] = "read" => step[c] = "read"
    BY <2>1 DEF MovesOn, Jobs, Executor!Jobs
  <2> QED
    BY <2>1, <2>2, RecordsQuiet
<1>3. ASSUME Executor!Start PROVE Parts'
  <2>1. memory' = Executor!Content(file) /\ UNCHANGED <<step, file, copy, wrote, exposed>>
    BY <1>3 DEF Executor!Start, Executor!Loaded, Executor!work, Executor!history
  <2>2. RecordsKept'
    BY <2>1 DEF RInv, RecordsKept, Executor!RecordsKept
  <2>3. RuntimeHolds'
    BY <2>1 DEF RInv, RecordsKept, Executor!RecordsKept, RuntimeHolds, Sound
  <2>4. CommandsHold'
    BY <2>1 DEF RInv, CommandsHold, Sound
  <2> QED
    BY <2>2, <2>3, <2>4
<1>4. ASSUME Executor!Stop PROVE Parts'
  <2>1. /\ memory' = None /\ UNCHANGED <<file, copy, wrote, exposed>>
        /\ \A c \in Completes : step'[c] = "read" => step[c] = "read"
    BY <1>4, AgentFilesAssumption DEF Executor!Stop, Executor!Ended, Executor!history, Jobs, Executor!Jobs
  <2>2. RecordsKept'
    BY <2>1 DEF RInv, RecordsKept, Executor!RecordsKept
  <2>3. CommandsHold'
    BY <2>1 DEF RInv, CommandsHold, Sound
  <2> QED
    BY <2>1, <2>2, <2>3 DEF RuntimeHolds
<1>5. ASSUME NEW c \in Completes, Executor!ReadScores(c) PROVE Parts'
  <2>1. /\ copy' = [copy EXCEPT ![c] = Executor!Content(file)]
        /\ UNCHANGED <<file, memory, wrote, exposed>> /\ step' = [step EXCEPT ![c] = "read"]
    BY <1>5 DEF Executor!ReadScores, Executor!Goes, Executor!history
  <2>2. RecordsKept'
    BY <2>1 DEF RInv, RecordsKept, Executor!RecordsKept
  <2>3. RuntimeHolds'
    BY <2>1 DEF RInv, RuntimeHolds, Sound
  <2>4. ASSUME NEW d \in Completes, step'[d] = "read" PROVE Sound(copy[d])'
    <3>1. CASE d = c
      BY <2>1, <3>1 DEF RInv, EInv, ETyped, RecordsKept, Executor!RecordsKept, Sound
    <3>2. CASE d # c
      <4>1. copy'[d] = copy[d] /\ step[d] = "read"
        BY <2>1, <2>4, <3>2 DEF RInv, EInv, ETyped, Jobs, Executor!Jobs
      <4> QED
        BY <2>1, <4>1 DEF RInv, CommandsHold, Sound
    <3> QED
      BY <3>1, <3>2
  <2> QED
    BY <2>2, <2>3, <2>4 DEF CommandsHold
<1>6. ASSUME UNCHANGED Executor!vars PROVE Parts'
  BY <1>6, RecordsQuiet DEF Executor!vars, Executor!work, Executor!scores, Executor!history, Quiet
<1>7. ASSUME NEW o \in Orders, Executor!Disputed(o) PROVE Parts'
  BY <1>7, RecordsQuiet DEF Executor!Disputed, Executor!work, Executor!scores, Executor!history, Quiet
<1>8. Parts'
  BY <1>2, <1>3, <1>4, <1>5, <1>6, <1>7, RecordsRecord, RecordsWrite
     DEF Executor!Next, QuietStep, Jobs, Executor!Jobs, Orders
<1> QED
  BY <1>1, <1>8 DEF RInv

(* A record that was saved stays in the score file, unless another process *)
(* held what the file was before (4545-4555, 9186-9207): for any number of *)
(* results, echoes, commands, starts and faults.                           *)
THEOREM ScoresStay == Executor!Spec => []RecordsKept
<1>1. Executor!Init => RInv
  <2> SUFFICES ASSUME Executor!Init PROVE RInv
    OBVIOUS
  <2>1. wrote = {} /\ EInv
    BY EInvInit DEF Executor!Init
  <2>2. RecordsKept
    BY <2>1 DEF RecordsKept, Executor!RecordsKept
  <2> QED
    BY <2>1, <2>2 DEF RInv, RuntimeHolds, CommandsHold, Sound
<1>2. RInv /\ [Executor!Next]_(Executor!vars) => RInv'
  BY RInvNext
<1>3. RInv => RecordsKept
  BY DEF RInv
<1> QED
  BY <1>1, <1>2, <1>3, PTL DEF Executor!Spec

-----------------------------------------------------------------------------
(* What the audit of an order or of a result rests on: of two commands     *)
(* under way on one order each has met the other; a command under way on   *)
(* an order that is completed could not fetch it, or met the one that      *)
(* completed it; and what has proved something finds its own trace, or     *)
(* that of such a command.                                                 *)
Proved(j) == step[j] \in {"proved", "anchored", "read", "pushing", "posting", "auditing"}

Excused == blind \cup met

SameTask(r) == {k \in Results : Subject[k] = Subject[r]}

ATyped == /\ order \in [Orders -> Completes \cup {None}]
          /\ DOMAIN traces = {Subject[j] : j \in Jobs}
          /\ DOMAIN told = Results

Met == \A c, d \in Completes :
          c # d /\ Subject[c] = Subject[d] /\ Executor!UnderWay(c) /\ Executor!UnderWay(d) => c \in met

Late == \A c \in Completes : Executor!UnderWay(c) /\ order[Subject[c]] # None => c \in Excused

OwnTrace == \A c \in Completes : Proved(c) => traces[Subject[c]] \in {c} \cup Excused

Accepted == \A o \in Orders : order[o] # None /\ traces[o] # order[o] => traces[o] \in Excused

TaskTrace ==
    \A r \in Results : Proved(r) \/ told[r] = "completed" => traces[Subject[r]] \in SameTask(r)

OnChain == \A j \in Jobs : anchored[j] => j \in chain

AInv == EInv /\ ATyped /\ Met /\ Late /\ OwnTrace /\ Accepted /\ TaskTrace /\ OnChain

(* Jobs that go on or end, and nothing else. *)
LEMMA AuditQuiet ==
  ASSUME AInv, EInv', UNCHANGED <<traces, order, blind, met, told, anchored, chain>>,
         \A j \in Jobs : /\ Executor!UnderWay(j)' => Executor!UnderWay(j)
                         /\ Proved(j)' => Proved(j)
  PROVE  AInv'
<1>1. ATyped' /\ Accepted' /\ OnChain'
  BY DEF AInv, ATyped, Accepted, OnChain, Excused
<1>2. Met' /\ Late' /\ OwnTrace'
  BY DEF AInv, Met, Late, OwnTrace, Excused, Jobs, Executor!Jobs
<1>3. TaskTrace'
  BY DEF AInv, TaskTrace, SameTask, Jobs, Executor!Jobs
<1> QED
  BY <1>1, <1>2, <1>3 DEF AInv

LEMMA AuditFetch ==
  ASSUME AInv, EInv', NEW c \in Completes, Executor!FetchOrder(c)
  PROVE  AInv'
<1>1. /\ UNCHANGED <<traces, order, told, anchored, chain>>
      /\ blind \subseteq blind' /\ met \subseteq met'
      /\ step' \in {[step EXCEPT ![c] = "fetched"], [step EXCEPT ![c] = "done"]}
      /\ step[c] = "idle"
  BY DEF Executor!FetchOrder, Executor!Goes, Executor!proofs
<1>2. \A j \in Jobs : /\ Proved(j)' => Proved(j)
                      /\ j # c => step'[j] = step[j]
  BY <1>1 DEF AInv, EInv, ETyped, Proved
<1>3. ATyped' /\ Accepted' /\ OnChain'
  BY <1>1 DEF AInv, ATyped, Accepted, OnChain, Excused
<1>4. OwnTrace'
  BY <1>1, <1>2 DEF AInv, OwnTrace, Excused, Jobs, Executor!Jobs
<1>5. TaskTrace'
  BY <1>1, <1>2 DEF AInv, TaskTrace, SameTask, Jobs, Executor!Jobs
<1>6. Met'
  <2> SUFFICES ASSUME NEW d \in Completes, NEW e \in Completes, d # e, Subject[d] = Subject[e],
                      Executor!UnderWay(d)', Executor!UnderWay(e)'
               PROVE  d \in met'
    BY DEF Met
  <2> DEFINE others == {b \in Completes \ {c} : Subject[b] = Subject[c] /\ Executor!UnderWay(b)}
  <2>1. others # {} => c \in met' /\ others \subseteq met'
    BY DEF Executor!FetchOrder
  <2>2. CASE d = c
    BY <1>2, <2>1, <2>2 DEF Executor!UnderWay, Jobs, Executor!Jobs
  <2>3. CASE e = c
    BY <1>2, <2>1, <2>3 DEF Executor!UnderWay, Jobs, Executor!Jobs
  <2>4. CASE d # c /\ e # c
    BY <1>1, <1>2, <2>4 DEF AInv, Met, Executor!UnderWay, Jobs, Executor!Jobs
  <2> QED
    BY <2>2, <2>3, <2>4
<1>7. Late'
  <2> SUFFICES ASSUME NEW d \in Completes, Executor!UnderWay(d)', order[Subject[d]] # None
               PROVE  d \in Excused'
    BY <1>1 DEF Late
  <2>1. CASE d = c
    BY <2>1 DEF Executor!FetchOrder, Executor!MayComplete, Executor!UnderWay, Executor!Goes, Excused,
       AInv, EInv, ETyped, Jobs, Executor!Jobs
  <2>2. CASE d # c
    BY <1>1, <1>2, <2>2 DEF AInv, Late, Excused, Executor!UnderWay, Jobs, Executor!Jobs
  <2> QED
    BY <2>1, <2>2
<1> QED
  BY <1>3, <1>4, <1>5, <1>6, <1>7 DEF AInv

(* A trace is written over that of another job of the same task or order:  *)
(* of an order, by a command that met the other or comes late; of a task,  *)
(* by another post of it.                                                  *)
LEMMA AuditProve ==
  ASSUME AInv, EInv', NEW j \in Jobs, Executor!Prove(j)
  PROVE  AInv'
<1>1. /\ UNCHANGED <<order, told, anchored, chain, blind, met>>
      /\ traces' = [traces EXCEPT ![Subject[j]] = j]
      /\ step' = [step EXCEPT ![j] = "proved"]
  BY DEF Executor!Prove, Executor!Goes, Executor!history
<1>2. traces'[Subject[j]] = j /\ \A s \in {Subject[k] : k \in Jobs} \ {Subject[j]} : traces'[s] = traces[s]
  BY <1>1 DEF AInv, ATyped
<1>3. step'[j] = "proved" /\ \A k \in Jobs \ {j} : step'[k] = step[k]
  BY <1>1 DEF AInv, EInv, ETyped
<1>4. j \in Completes => Executor!UnderWay(j)
  BY DEF Executor!Prove, Executor!UnderWay
<1>5. ATyped' /\ OnChain'
  BY <1>1 DEF AInv, ATyped, OnChain
<1>6. Met' /\ Late'
  BY <1>1, <1>3, <1>4 DEF AInv, Met, Late, Excused, Executor!UnderWay, Jobs, Executor!Jobs
<1>7. OwnTrace'
  <2> SUFFICES ASSUME NEW c \in Completes, Proved(c)' PROVE traces'[Subject[c]] \in {c} \cup Excused
    BY <1>1 DEF OwnTrace, Excused
  <2>1. CASE c = j
    BY <1>2, <2>1
  <2>2. CASE c # j /\ Subject[c] = Subject[j]
    <3>1. j \in Completes
      BY <2>2, AgentFilesAssumption DEF Jobs, Executor!Jobs
    <3>2. Executor!UnderWay(c) /\ Executor!UnderWay(j)
      BY <1>3, <1>4, <2>2, <3>1 DEF Proved, Executor!UnderWay, Jobs, Executor!Jobs
    <3>3. j \in met
      BY <2>2, <3>1, <3>2 DEF AInv, Met
    <3> QED
      BY <1>2, <2>2, <3>3 DEF Excused
  <2>3. CASE c # j /\ Subject[c] # Subject[j]
    <3>1. Proved(c) /\ c \in Jobs
      BY <1>3, <2>3 DEF Proved, Jobs, Executor!Jobs
    <3>2. traces'[Subject[c]] = traces[Subject[c]]
      BY <1>2, <2>3, <3>1
    <3> QED
      BY <3>1, <3>2 DEF AInv, OwnTrace
  <2> QED
    BY <2>1, <2>2, <2>3
<1>8. Accepted'
  <2> SUFFICES ASSUME NEW o \in Orders, order[o] # None, traces'[o] # order[o]
               PROVE  traces'[o] \in Excused
    BY <1>1 DEF Accepted, Excused
  <2>1. PICK c \in Completes : o = Subject[c]
    BY DEF Orders, Executor!Orders
  <2>2. CASE o = Subject[j]
    <3>1. j \in Completes
      BY <2>1, <2>2, AgentFilesAssumption DEF Jobs, Executor!Jobs
    <3> QED
      BY <1>2, <1>4, <2>2, <3>1 DEF AInv, Late
  <2>3. CASE o # Subject[j]
    <3>1. traces'[o] = traces[o]
      BY <1>2, <2>1, <2>3 DEF Jobs, Executor!Jobs
    <3> QED
      BY <3>1 DEF AInv, Accepted
  <2> QED
    BY <2>2, <2>3
<1>9. TaskTrace'
  <2> SUFFICES ASSUME NEW r \in Results, Proved(r)' \/ told[r] = "completed"
               PROVE  traces'[Subject[r]] \in SameTask(r)
    BY <1>1 DEF TaskTrace, SameTask
  <2>1. CASE Subject[r] = Subject[j]
    <3>1. j \in Results
      BY <2>1, AgentFilesAssumption DEF Jobs, Executor!Jobs
    <3> QED
      BY <1>2, <2>1, <3>1 DEF SameTask
  <2>2. CASE Subject[r] # Subject[j]
    <3>1. traces'[Subject[r]] = traces[Subject[r]] /\ (Proved(r)' => Proved(r))
      BY <1>2, <1>3, <2>2 DEF Proved, Jobs, Executor!Jobs
    <3> QED
      BY <3>1 DEF AInv, TaskTrace
  <2> QED
    BY <2>1, <2>2
<1> QED
  BY <1>5, <1>6, <1>7, <1>8, <1>9 DEF AInv

LEMMA AuditAnchor ==
  ASSUME AInv, EInv', NEW j \in Jobs, Executor!anchorOnChain(j)
  PROVE  AInv'
<1>1. /\ UNCHANGED <<traces, order, told, blind, met>>
      /\ step' = [step EXCEPT ![j] = "anchored"] /\ step[j] = "proved"
      /\ chain \subseteq chain'
      /\ anchored' = anchored \/ (anchored' = [anchored EXCEPT ![j] = TRUE] /\ j \in chain')
  BY DEF Executor!anchorOnChain, Executor!Goes, Executor!history
<1>2. \A k \in Jobs : /\ Executor!UnderWay(k)' => Executor!UnderWay(k)
                      /\ Proved(k)' => Proved(k)
  BY <1>1 DEF AInv, EInv, ETyped, Proved, Executor!UnderWay
<1>3. OnChain'
  BY <1>1 DEF AInv, EInv, ETyped, OnChain
<1>4. ATyped' /\ Accepted'
  BY <1>1 DEF AInv, ATyped, Accepted, Excused
<1>5. Met' /\ Late' /\ OwnTrace'
  BY <1>1, <1>2 DEF AInv, Met, Late, OwnTrace, Excused, Jobs, Executor!Jobs
<1>6. TaskTrace'
  BY <1>1, <1>2 DEF AInv, TaskTrace, SameTask, Jobs, Executor!Jobs
<1> QED
  BY <1>3, <1>4, <1>5, <1>6 DEF AInv

LEMMA AuditAudit ==
  ASSUME AInv, EInv', NEW j \in Jobs, Executor!Audit(j)
  PROVE  AInv'
<1>1. /\ UNCHANGED <<traces, order, blind, met, anchored, chain>>
      /\ step' = [step EXCEPT ![j] = "done"] /\ step[j] = "auditing" /\ j \in Results
      /\ \E a : told' = [told EXCEPT ![j] = a]
  BY DEF Executor!Audit, Executor!Goes, Executor!history, Executor!proofs
<1>2. \A k \in Jobs : /\ Executor!UnderWay(k)' => Executor!UnderWay(k)
                      /\ Proved(k)' => Proved(k)
  BY <1>1 DEF AInv, EInv, ETyped, Proved, Executor!UnderWay
<1>3. ATyped' /\ Accepted' /\ OnChain'
  BY <1>1 DEF AInv, ATyped, Accepted, OnChain, Excused
<1>4. Met' /\ Late' /\ OwnTrace'
  BY <1>1, <1>2 DEF AInv, Met, Late, OwnTrace, Excused, Jobs, Executor!Jobs
<1>5. TaskTrace'
  <2> SUFFICES ASSUME NEW r \in Results, Proved(r)' \/ told'[r] = "completed"
               PROVE  traces[Subject[r]] \in SameTask(r)
    BY <1>1 DEF TaskTrace, SameTask
  <2>1. CASE r = j
    BY <1>1, <2>1 DEF AInv, TaskTrace, Proved
  <2>2. CASE r # j
    BY <1>1, <1>2, <2>2 DEF AInv, ATyped, TaskTrace, Jobs, Executor!Jobs
  <2> QED
    BY <2>1, <2>2
<1> QED
  BY <1>3, <1>4, <1>5 DEF AInv

(* The platform accepts the proof of a command, whose trace is its own or  *)
(* that of one it met; the others under way on the order have met it.      *)
LEMMA AuditComplete ==
  ASSUME AInv, EInv', NEW c \in Completes, Executor!Complete(c)
  PROVE  AInv'
<1> DEFINE o == Subject[c]
<1>1. /\ UNCHANGED <<traces, told, anchored, chain, blind, met>>
      /\ step' = [step EXCEPT ![c] = "done"] /\ step[c] = "posting"
      /\ order' = order \/ (order[o] = None /\ order' = [order EXCEPT ![o] = c])
  <2>1. order' = [order EXCEPT ![o] = IF order[o] = None THEN c ELSE order[o]] \/ order' = order
    BY DEF Executor!Complete
  <2>2. [order EXCEPT ![o] = order[o]] = order
    BY DEF AInv, ATyped
  <2>3. order' = order \/ (order[o] = None /\ order' = [order EXCEPT ![o] = c])
    BY <2>1, <2>2
  <2> QED
    BY <2>3 DEF Executor!Complete, Executor!Goes, Executor!history
<1>2. /\ o \in Orders /\ c \in Jobs
      /\ Executor!UnderWay(c) /\ ~Executor!UnderWay(c)' /\ Proved(c)
      /\ \A k \in Jobs : /\ Executor!UnderWay(k)' => Executor!UnderWay(k)
                         /\ Proved(k)' => Proved(k)
  BY <1>1 DEF AInv, EInv, ETyped, Proved, Executor!UnderWay, Orders, Executor!Orders, Jobs, Executor!Jobs
<1>3. CASE order' = order
  BY <1>1, <1>2, <1>3, AuditQuiet
<1>4. CASE order[o] = None /\ order' = [order EXCEPT ![o] = c]
  <2>1. order'[o] = c /\ \A q \in Orders \ {o} : order'[q] = order[q]
    BY <1>2, <1>4 DEF AInv, ATyped
  <2>2. ATyped' /\ OnChain'
    BY <1>1, <1>4 DEF AInv, ATyped, OnChain
  <2>3. Met' /\ OwnTrace'
    BY <1>1, <1>2 DEF AInv, Met, OwnTrace, Excused, Jobs, Executor!Jobs
  <2>4. TaskTrace'
    BY <1>1, <1>2 DEF AInv, TaskTrace, SameTask, Jobs, Executor!Jobs
  <2>5. Accepted'
    BY <1>1, <1>2, <2>1 DEF AInv, Accepted, OwnTrace, Excused
  <2>6. Late'
    <3> SUFFICES ASSUME NEW d \in Completes, Executor!UnderWay(d)', order'[Subject[d]] # None
                 PROVE  d \in Excused
      BY <1>1 DEF Late, Excused
    <3>1. Executor!UnderWay(d) /\ d # c /\ Subject[d] \in Orders
      BY <1>2 DEF Jobs, Executor!Jobs, Orders, Executor!Orders
    <3>2. CASE Subject[d] = o
      BY <1>2, <3>1, <3>2 DEF AInv, Met, Excused
    <3>3. CASE Subject[d] # o
      BY <2>1, <3>1, <3>3 DEF AInv, Late
    <3> QED
      BY <3>2, <3>3
  <2> QED
    BY <2>2, <2>3, <2>4, <2>5, <2>6 DEF AInv
<1> QED
  BY <1>1, <1>3, <1>4

LEMMA AInvNext ==
  ASSUME AInv, [Executor!Next]_(Executor!vars)
  PROVE  AInv'
<1>1. EInv'
  BY EInvNext DEF AInv
<1> DEFINE Still == /\ UNCHANGED <<traces, order, blind, met, told, anchored, chain>>
                    /\ \A j \in Jobs : /\ Executor!UnderWay(j)' => Executor!UnderWay(j)
                                       /\ Proved(j)' => Proved(j)
<1> USE DEF Executor!Goes, Executor!work, Executor!scores, Executor!proofs, Executor!history
<1>2. ASSUME Executor!Start PROVE Still
  BY <1>2 DEF Executor!Start, Executor!UnderWay, Proved
<1>3. ASSUME Executor!Stop PROVE Still
  BY <1>3 DEF Executor!Stop, Executor!Ended, Executor!UnderWay, Proved, Jobs
<1>4. ASSUME NEW c \in Completes, Executor!Kill(c) PROVE Still
  BY <1>4 DEF Executor!Kill, Executor!Ended, Executor!UnderWay, Proved, Jobs
<1>5. ASSUME NEW c \in Completes, Executor!ReadScores(c) \/ Executor!WriteScores(c) PROVE Still
  BY <1>5 DEF Executor!ReadScores, Executor!WriteScores, Executor!UnderWay, Proved, AInv, EInv, ETyped
<1>6. ASSUME NEW j \in Jobs, Executor!Record(j) PROVE Still
  BY <1>6 DEF Executor!Record, Executor!UnderWay, Proved, AInv, EInv, ETyped
<1>7. ASSUME NEW j \in Jobs, Executor!RegistryTakes(j) PROVE Still
  BY <1>7 DEF Executor!RegistryTakes, Executor!UnderWay, Proved
<1>8. ASSUME NEW j \in Jobs, Executor!EndPush(j) PROVE Still
  BY <1>8 DEF Executor!EndPush, Executor!UnderWay, Proved, AInv, EInv, ETyped
<1>9. ASSUME UNCHANGED Executor!vars PROVE Still
  BY <1>9 DEF Executor!vars, Executor!UnderWay, Proved
<1>10. ASSUME Still PROVE AInv'
  BY <1>1, <1>10, AuditQuiet
<1>11. ASSUME NEW o \in Orders, Executor!Disputed(o) PROVE Still
  BY <1>11 DEF Executor!Disputed, Executor!UnderWay, Proved
<1> HIDE DEF Still
<1> QED
  BY <1>1, <1>2, <1>3, <1>4, <1>5, <1>6, <1>7, <1>8, <1>9, <1>10, <1>11,
     AuditFetch, AuditProve, AuditAnchor, AuditAudit, AuditComplete
     DEF Executor!Next, Jobs, Executor!Jobs, Orders

(* Whoever audits a completed order finds the trace of the proof that the  *)
(* platform accepted, unless a command met another, could not fetch the    *)
(* order or found it disputed; and whoever was told that a task is         *)
(* completed finds a trace of it, and its root on the chain if it was      *)
(* anchored (9053-9057, 9122-9159, 6489-6513): for any number of jobs on   *)
(* any tasks and orders.                                                   *)
THEOREM AuditsFindProofs == Executor!Spec => []AuditFindsProof
<1>1. Executor!Init => AInv
  <2> SUFFICES ASSUME Executor!Init PROVE AInv
    OBVIOUS
  <2>1. /\ \A j \in Jobs : ~Executor!UnderWay(j) /\ ~Proved(j) /\ ~anchored[j]
        /\ \A o \in Orders : order[o] = None
        /\ \A r \in Results : told[r] # "completed"
    BY AgentFilesAssumption
       DEF Executor!Init, Executor!UnderWay, Proved, Jobs, Executor!Jobs, Orders, Executor!Orders
  <2>2. ATyped
    BY DEF Executor!Init, ATyped, Jobs, Orders, Executor!Jobs, Executor!Orders
  <2> QED
    BY <2>1, <2>2, EInvInit DEF AInv, Met, Late, OwnTrace, Accepted, TaskTrace, OnChain, Jobs, Executor!Jobs
<1>2. AInv /\ [Executor!Next]_(Executor!vars) => AInv'
  BY AInvNext
<1>3. AInv => AuditFindsProof
  BY DEF AInv, Accepted, TaskTrace, OnChain, Excused, SameTask, AuditFindsProof, Executor!AuditFindsProof,
     Jobs, Orders, Executor!Jobs
<1> QED
  BY <1>1, <1>2, <1>3, PTL DEF Executor!Spec
=============================================================================
