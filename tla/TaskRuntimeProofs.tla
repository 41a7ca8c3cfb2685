------------------------- MODULE TaskRuntimeProofs --------------------------
(***************************************************************************)
(* Proofs about what `atel start` has under way, for any numbers and       *)
(* bounds.  TaskRuntime: its types, that an accepted task stays registered *)
(* until it is finished, and that the count of active tasks is the number  *)
(* of those that hold a slot.  TradeOrder: an order stays tracked until it *)
(* is closed.  AgentHooks: slots are what hooks hold, and an agent's       *)
(* conclusion goes astray only where something else acted on the order.    *)
(***************************************************************************)
EXTENDS TaskRuntime, TradePromises, HookPromises, FiniteSetTheorems, TLAPS

(* A result whose scores were updated has finished its task. *)
ScoredIsFinished ==
    \A p \in Posts : posts[p] # None /\ posts[p].scored => finished[posts[p].task] > 0

IInv == TypeOK /\ ScoredIsFinished /\ AcceptedTracked

-----------------------------------------------------------------------------
LEMMA ReleaseType == ASSUME active \in Nat PROVE TaskFinished \in Nat
BY DEF TaskFinished

(* Every step keeps the types. *)
LEMMA TypeStep == TypeOK /\ [Next]_vars => TypeOK'
<1> SUFFICES ASSUME TypeOK, [Next]_vars PROVE TypeOK'
  OBVIOUS
<1> USE TaskRuntimeAssumption
<1> USE DEF TypeOK, counts, Stages
<1>1. ASSUME NEW t \in Tasks, Refuse(t) PROVE TypeOK'
  BY <1>1 DEF Refuse, At
<1>2. ASSUME NEW t \in Tasks, Admit(t) PROVE TypeOK'
  <2>1. stage' \in [Tasks -> Stages] /\ active' \in Nat
    BY <1>2 DEF Admit, At
  <2>2. pending' \in [Tasks -> Statuses]
    BY <1>2 DEF Admit, Statuses
  <2>3. QED
    BY <1>2, <2>1, <2>2 DEF Admit
<1>3. ASSUME NEW t \in Tasks, Arrive(t) PROVE TypeOK'
  BY <1>2, <1>3 DEF Arrive, At
<1>4. ASSUME NEW t \in Tasks, Verified(t) PROVE TypeOK'
  BY <1>2, <1>4 DEF Verified
<1>5. ASSUME NEW t \in Tasks, Register(t) PROVE TypeOK'
  BY <1>5, ReleaseType DEF Register, At
<1>6. ASSUME NEW t \in Tasks, Echoed(t) PROVE TypeOK'
  BY <1>6 DEF Echoed, At
<1>7. ASSUME NEW t \in Tasks, Reject(t) PROVE TypeOK'
  BY <1>7 DEF Reject, Statuses
<1>8. ASSUME NEW c \in Approvals, NEW t \in Tasks, AskApproval(c, t) PROVE TypeOK'
  <2>1. [task |-> t, step |-> "asked", waits |-> TRUE, read |-> Forgotten, cli |-> pending]
            \in Approval
    BY DEF Approval, Forgotten, Statuses
  <2>2. asked' \in [Tasks -> Nat] /\ \A u \in Tasks : asked'[u] <= MaxAsks[u]
    BY <1>8 DEF AskApproval
  <2>3. QED
    BY <1>8, <2>1, <2>2 DEF AskApproval
<1>9. ASSUME NEW p \in Posts, NEW t \in Tasks, TakeResult(p, t) PROVE TypeOK'
  <2>1. [task |-> t, scored |-> FALSE] \in Post
    BY DEF Post
  <2>2. posted' \in [Tasks -> Nat] /\ \A u \in Tasks : posted'[u] <= MaxPosts[u]
    BY <1>9 DEF TakeResult
  <2>3. QED
    BY <1>9, <2>1, <2>2, ReleaseType DEF TakeResult
<1>10. ASSUME NEW c \in Approvals, RunApproval(c) PROVE TypeOK'
  <2>1. approvals[c] \in Approval
    BY <1>10 DEF RunApproval
  <2>2. [approvals[c] EXCEPT !.step = "running", !.read = pending] \in Approval
    BY <2>1 DEF Approval
  <2>3. approvals' = [approvals EXCEPT ![c] = [approvals[c] EXCEPT !.step = "running", !.read = pending]]
    BY <1>10 DEF RunApproval
  <2>4. approvals[c].task \in Tasks
    BY <2>1 DEF Approval
  <2>5. QED
    BY <1>10, <2>2, <2>3, <2>4 DEF RunApproval
<1>11. ASSUME NEW c \in Approvals, FailApproval(c) PROVE TypeOK'
  BY <1>11 DEF FailApproval
<1>12. ASSUME NEW c \in Approvals, Timeout(c) PROVE TypeOK'
  <2>1. approvals[c] \in Approval
    BY <1>12 DEF Timeout
  <2>2. [approvals[c] EXCEPT !.waits = FALSE, !.cli = Forgotten] \in Approval
    BY <2>1 DEF Approval, Forgotten, Statuses
  <2>3. approvals' = [approvals EXCEPT ![c] = [approvals[c] EXCEPT !.waits = FALSE, !.cli = Forgotten]]
    BY <1>12 DEF Timeout
  <2>4. QED
    BY <1>12, <2>2, <2>3 DEF Timeout
<1>13. ASSUME NEW c \in Approvals, EndApproval(c) PROVE TypeOK'
  <2>1. approvals[c] \in Approval
    BY <1>13 DEF EndApproval
  <2>2. [approvals[c] EXCEPT !.step = "answered", !.read = Forgotten] \in Approval
    BY <2>1 DEF Approval, Forgotten, Statuses
  <2>3. [approvals[c].read EXCEPT ![approvals[c].task] = "approved"] \in [Tasks -> Statuses]
    BY <2>1 DEF Approval, Statuses
  <2>4. approvals' \in [Approvals -> Approval \cup {None}]
    BY <1>13, <2>2 DEF EndApproval
  <2>5. QED
    BY <1>13, <2>3, <2>4 DEF EndApproval
<1>14. ASSUME NEW c \in Approvals, ConfirmApproval(c) PROVE TypeOK'
  <2>1. approvals[c] \in Approval
    BY <1>14 DEF ConfirmApproval
  <2>2. [approvals[c].cli EXCEPT ![approvals[c].task] = "approved"] \in [Tasks -> Statuses]
    BY <2>1 DEF Approval, Statuses
  <2>3. QED
    BY <1>14, <2>2 DEF ConfirmApproval
<1>15. ASSUME NEW p \in Posts, FailResult(p) PROVE TypeOK'
  BY <1>15 DEF FailResult
<1>16. ASSUME NEW p \in Posts, ScoreResult(p) PROVE TypeOK'
  <2>1. posts[p] \in Post
    BY <1>16 DEF ScoreResult
  <2>2. [posts[p] EXCEPT !.scored = TRUE] \in Post /\ posts[p].task \in Tasks
    BY <2>1 DEF Post
  <2>3. posts' = [posts EXCEPT ![p] = [posts[p] EXCEPT !.scored = TRUE]]
    BY <1>16 DEF ScoreResult
  <2>4. QED
    BY <1>16, <2>2, <2>3 DEF ScoreResult
<1>17. ASSUME NEW p \in Posts, CloseResult(p) PROVE TypeOK'
  BY <1>17 DEF CloseResult
<1>18. CASE Restart
  <2>1. tasks' \subseteq Tasks
    BY <1>18 DEF Restart, Reload
  <2>2. torn' \in BOOLEAN
    BY <1>18, Zenon DEF Restart, Reload
  <2>3. stage' \in [Tasks -> Stages]
    BY <1>18 DEF Restart
  <2>4. approvals' \in [Approvals -> Approval \cup {None}] /\ posts' \in [Posts -> Post \cup {None}]
    BY <1>18 DEF Restart
  <2>5. active' \in Nat /\ restarts' \in 0..MaxRestarts
    BY <1>18 DEF Restart
  <2>6. QED
    BY <1>18, <2>1, <2>2, <2>3, <2>4, <2>5 DEF Restart
<1>19. CASE UNCHANGED vars
  BY <1>19 DEF vars
<1>20. QED
  BY <1>1, <1>3, <1>4, <1>5, <1>6, <1>7, <1>8, <1>9, <1>10, <1>11, <1>12, <1>13, <1>14,
     <1>15, <1>16, <1>17, <1>18, <1>19 DEF Next

-----------------------------------------------------------------------------
(* A step that finishes nothing, accepts nothing, drops no task and marks  *)
(* no result as scored keeps the other two parts.                          *)
LEMMA QuietStep ==
    ASSUME IInv, TypeOK',
           \A t \in Tasks : stage'[t] = "accepted" => stage[t] = "accepted",
           tasks \subseteq tasks' \/ torn', torn => torn', UNCHANGED finished,
           \A p \in Posts : posts'[p] # None /\ posts'[p].scored => posts'[p] = posts[p]
    PROVE  IInv'
<1>1. ScoredIsFinished'
  BY DEF IInv, ScoredIsFinished
<1>2. AcceptedTracked'
  BY DEF IInv, AcceptedTracked
<1>3. QED
  BY <1>1, <1>2 DEF IInv

LEMMA InvStep == IInv /\ [Next]_vars => IInv'
<1> SUFFICES ASSUME IInv, [Next]_vars PROVE IInv'
  OBVIOUS
<1>0. TypeOK /\ TypeOK'
  BY TypeStep DEF IInv
<1>1. ASSUME NEW t \in Tasks, Refuse(t) \/ Reject(t) PROVE IInv'
  BY <1>0, <1>1, QuietStep DEF Refuse, Reject, At, counts, TypeOK
<1>2. ASSUME NEW t \in Tasks, Arrive(t) \/ Verified(t) PROVE IInv'
  BY <1>0, <1>2, QuietStep DEF Arrive, Verified, Admit, At, counts, TypeOK
<1>3. ASSUME NEW t \in Tasks, Register(t) PROVE IInv'
  <2>1. tasks' = tasks \cup {t} /\ UNCHANGED <<posts, finished, torn>>
        /\ \A u \in Tasks : u # t => stage'[u] = stage[u]
    BY <1>0, <1>3 DEF Register, At, counts, TypeOK
  <2>2. AcceptedTracked'
    BY <2>1 DEF IInv, AcceptedTracked
  <2>3. QED
    BY <1>0, <2>1, <2>2 DEF IInv, ScoredIsFinished
<1>4. ASSUME NEW t \in Tasks, Echoed(t) PROVE IInv'
  <2>1. /\ tasks' = tasks \ {t} /\ stage'[t] = "completed" /\ UNCHANGED <<posts, torn>>
        /\ \A u \in Tasks : u # t => stage'[u] = stage[u] /\ finished'[u] = finished[u]
        /\ \A u \in Tasks : finished'[u] >= finished[u]
        /\ \A u \in Tasks : finished[u] \in Nat /\ finished'[u] \in Nat
    BY <1>0, <1>4 DEF Echoed, At, TypeOK
  <2>2. AcceptedTracked'
    BY <2>1 DEF IInv, AcceptedTracked
  <2>3. ASSUME NEW p \in Posts, posts[p] # None PROVE posts[p].task \in Tasks
    BY <1>0, <2>3 DEF TypeOK, Post
  <2>4. ScoredIsFinished'
    BY <2>1, <2>3 DEF IInv, ScoredIsFinished
  <2>5. QED
    BY <1>0, <2>2, <2>4 DEF IInv
<1>5. ASSUME NEW c \in Approvals, NEW t \in Tasks, AskApproval(c, t) PROVE IInv'
  BY <1>0, <1>5, QuietStep DEF AskApproval
<1>6. ASSUME NEW c \in Approvals, RunApproval(c) PROVE IInv'
  BY <1>0, <1>6, QuietStep DEF RunApproval
<1>7. ASSUME NEW c \in Approvals,
             FailApproval(c) \/ Timeout(c) \/ EndApproval(c) \/ ConfirmApproval(c) PROVE IInv'
  BY <1>0, <1>7, QuietStep DEF FailApproval, Timeout, EndApproval, ConfirmApproval, counts
<1>8. ASSUME NEW p \in Posts, NEW t \in Tasks, TakeResult(p, t) PROVE IInv'
  <2>1. \A q \in Posts : posts'[q] # None /\ posts'[q].scored => posts'[q] = posts[q]
    BY <1>0, <1>8 DEF TakeResult, TypeOK
  <2>2. QED
    BY <1>0, <1>8, <2>1, QuietStep DEF TakeResult
<1>9. ASSUME NEW p \in Posts, FailResult(p) PROVE IInv'
  <2>1. \A q \in Posts : posts'[q] # None /\ posts'[q].scored => posts'[q] = posts[q]
    BY <1>0, <1>9 DEF FailResult, TypeOK
  <2>2. QED
    BY <1>0, <1>9, <2>1, QuietStep DEF FailResult, counts
<1>10. ASSUME NEW p \in Posts, ScoreResult(p) PROVE IInv'
  <2>1. posts[p] \in Post /\ posts[p].task \in Tasks
    BY <1>0, <1>10 DEF ScoreResult, TypeOK, Post
  <2>2. /\ finished'[posts[p].task] > 0
        /\ \A u \in Tasks : finished[u] \in Nat /\ finished'[u] \in Nat /\ finished'[u] >= finished[u]
    BY <1>0, <1>10, <2>1 DEF ScoreResult, TypeOK
  <2>3. /\ posts'[p].task = posts[p].task
        /\ \A q \in Posts : q # p => posts'[q] = posts[q]
        /\ UNCHANGED <<stage, tasks, torn>>
    BY <1>0, <1>10, <2>1 DEF ScoreResult, TypeOK, Post
  <2>4. ASSUME NEW q \in Posts, posts[q] # None PROVE posts[q].task \in Tasks
    BY <1>0, <2>4 DEF TypeOK, Post
  <2>5. ScoredIsFinished'
    BY <2>2, <2>3, <2>4 DEF IInv, ScoredIsFinished
  <2>6. AcceptedTracked'
    BY <2>2, <2>3 DEF IInv, AcceptedTracked
  <2>7. QED
    BY <1>0, <2>5, <2>6 DEF IInv
<1>11. ASSUME NEW p \in Posts, CloseResult(p) PROVE IInv'
  <2>1. /\ posts' = [posts EXCEPT ![p] = None] /\ tasks' = tasks \ {posts[p].task}
        /\ UNCHANGED <<stage, finished, torn>>
        /\ posts[p] \in Post /\ posts[p].scored /\ posts[p] # None
    BY <1>0, <1>11 DEF CloseResult, TypeOK, counts
  <2>2. finished[posts[p].task] > 0
    BY <2>1 DEF IInv, ScoredIsFinished
  <2>3. finished[posts[p].task] # 0
    BY <1>0, <2>1, <2>2 DEF TypeOK, Post
  <2>4. AcceptedTracked'
    BY <2>1, <2>3 DEF IInv, AcceptedTracked
  <2>5. ScoredIsFinished'
    BY <1>0, <2>1 DEF IInv, ScoredIsFinished, TypeOK
  <2>6. QED
    BY <1>0, <2>4, <2>5 DEF IInv
<1>12. CASE Restart
  BY <1>0, <1>12, QuietStep DEF Restart, Reload, TypeOK
<1>13. CASE UNCHANGED vars
  BY <1>0, <1>13, QuietStep DEF vars, counts
<1>14. QED
  BY <1>1, <1>2, <1>3, <1>4, <1>5, <1>6, <1>7, <1>8, <1>9, <1>10, <1>11, <1>12, <1>13 DEF Next

LEMMA InvInit == Init => IInv
<1> SUFFICES ASSUME Init PROVE IInv
  OBVIOUS
<1>1. TypeOK
  <2>1. Forgotten \in [Tasks -> Statuses]
    BY DEF Forgotten, Statuses
  <2>2. executor \in BOOLEAN /\ torn \in BOOLEAN
    BY Zenon DEF Init
  <2>3. stage \in [Tasks -> Stages]
    BY DEF Init, Stages
  <2>4. QED
    BY <2>1, <2>2, <2>3, TaskRuntimeAssumption DEF Init, TypeOK
<1>2. ScoredIsFinished
  BY DEF Init, ScoredIsFinished
<1>3. AcceptedTracked
  BY DEF Init, AcceptedTracked
<1>4. QED
  BY <1>1, <1>2, <1>3 DEF IInv

-----------------------------------------------------------------------------
(* The inductive invariant, from which both results follow. *)
THEOREM Invariance == Spec => []IInv
BY InvInit, InvStep, PTL DEF Spec

(* Every variable keeps its type. *)
THEOREM TypeCorrect == Spec => []TypeOK
<1>1. IInv => TypeOK
  BY DEF IInv
<1>2. QED
  BY <1>1, Invariance, PTL

(* A task that was answered as accepted is registered until its result is  *)
(* finished, whatever handlers overlap and whenever the runtime restarts,  *)
(* as long as no restart cuts a save short (POST /atel/v1/result and the   *)
(* handler of tasks in atel.mjs).                                          *)
THEOREM AcceptedStaysTracked == Spec => []AcceptedTracked
<1>1. IInv => AcceptedTracked
  BY DEF IInv
<1>2. QED
  BY <1>1, Invariance, PTL

-----------------------------------------------------------------------------
(* Slots.  SlotsMatch alone is not inductive: that a task which starts,    *)
(* or is approved, is not counted yet depends on what the queue's file,    *)
(* its copies and the table may hold, each at a stage of the task's life.  *)

(* Only what was queued for confirmation is in the file, or in a copy that *)
(* an approval will write back.                                            *)
QueuedOnFile ==
    restarts = 0 =>
        /\ \A t \in Tasks : pending[t] # None => stage[t] = "queued"
        /\ \A c \in Approvals : approvals[c] # None =>
               /\ stage[approvals[c].task] = "queued"
               /\ \A t \in Tasks :
                      approvals[c].read[t] # None \/ approvals[c].cli[t] # None =>
                          stage[t] = "queued"

(* What is registered, or has been reported, was accepted or approved.     *)
Engaged(t) == stage[t] = "accepted" \/ (stage[t] = "queued" /\ runs[t] > 0)

RegisteredIsEngaged ==
    restarts = 0 =>
        /\ \A t \in tasks : Engaged(t) \/ stage[t] = "echo"
        /\ \A t \in Tasks : posted[t] > 0 => Engaged(t)
        /\ \A p \in Posts : posts[p] # None => posted[posts[p].task] > 0

(* The tasks that hold a slot. *)
Starting == {t \in Tasks : stage[t] = "started"}
Owing == {t \in tasks : stage[t] # "echo" /\ posted[t] = 0}

SlotsInv == TypeOK /\ QueuedOnFile /\ RegisteredIsEngaged /\ SlotsMatch

LEMMA NoRestart ==
    ASSUME TypeOK, [Next]_vars, restarts' = 0
    PROVE  restarts = 0 /\ ~Restart
<1>1. restarts \in Nat
  BY TaskRuntimeAssumption DEF TypeOK
<1>2. Restart => restarts' = restarts + 1
  BY DEF Restart
<1>3. Restart \/ UNCHANGED restarts
  BY DEF Next, vars, Refuse, Arrive, Admit, Verified, Register, Echoed, Reject, AskApproval,
         TakeResult, RunApproval, FailApproval, Timeout, EndApproval, ConfirmApproval,
         FailResult, ScoreResult, CloseResult
<1>4. QED
  BY <1>1, <1>2, <1>3

(* A task is queued only when it arrives, and stays queued. *)
LEMMA QueuedStays ==
    ASSUME TypeOK, [Next]_vars, NEW t \in Tasks, stage[t] = "queued"
    PROVE  stage'[t] = "queued"
BY DEF Next, vars, Refuse, Arrive, Admit, Verified, Register, Echoed, Reject, AskApproval,
       TakeResult, RunApproval, FailApproval, Timeout, EndApproval, ConfirmApproval,
       FailResult, ScoreResult, CloseResult, Restart, At, TypeOK

(* The file is only ever rewritten with what it held before. *)
LEMMA FileStep ==
    ASSUME TypeOK, QueuedOnFile, [Next]_vars
    PROVE  QueuedOnFile'
<1> SUFFICES ASSUME restarts' = 0
             PROVE  /\ \A t \in Tasks : pending'[t] # None => stage'[t] = "queued"
                    /\ \A c \in Approvals : approvals'[c] # None =>
                           /\ stage'[approvals'[c].task] = "queued"
                           /\ \A t \in Tasks :
                                  approvals'[c].read[t] # None \/ approvals'[c].cli[t] # None =>
                                      stage'[t] = "queued"
  BY DEF QueuedOnFile
<1>0. /\ \A t \in Tasks : pending[t] # None => stage[t] = "queued"
      /\ \A c \in Approvals : approvals[c] # None =>
             /\ approvals[c] \in Approval
             /\ stage[approvals[c].task] = "queued"
             /\ \A t \in Tasks :
                    approvals[c].read[t] # None \/ approvals[c].cli[t] # None => stage[t] = "queued"
  BY NoRestart DEF QueuedOnFile, TypeOK
<1>q. \A t \in Tasks : stage[t] = "queued" => stage'[t] = "queued"
  BY QueuedStays
<1> USE DEF Approval
<1>1. CASE UNCHANGED <<pending, approvals>>
  BY <1>0, <1>q, <1>1
<1>2. ASSUME NEW t \in Tasks, Admit(t) PROVE QueuedOnFile'
  BY <1>0, <1>q, <1>2 DEF QueuedOnFile, Admit, At, TypeOK
<1>3. ASSUME NEW t \in Tasks, Arrive(t) \/ Verified(t) PROVE QueuedOnFile'
  BY <1>0, <1>q, <1>2, <1>3 DEF Arrive, Verified, QueuedOnFile
<1>4. ASSUME NEW t \in Tasks, Reject(t) PROVE QueuedOnFile'
  BY <1>0, <1>q, <1>4, TaskRuntimeAssumption DEF QueuedOnFile, Reject, TypeOK
<1>5. ASSUME NEW c \in Approvals, NEW t \in Tasks, AskApproval(c, t) PROVE QueuedOnFile'
  BY <1>0, <1>q, <1>5, TaskRuntimeAssumption DEF QueuedOnFile, AskApproval, Forgotten, TypeOK
<1>6. ASSUME NEW c \in Approvals,
             RunApproval(c) \/ FailApproval(c) \/ Timeout(c) \/ EndApproval(c) \/ ConfirmApproval(c)
      PROVE  QueuedOnFile'
  <2>1. approvals[c] \in Approval /\ approvals[c].task \in Tasks /\ approvals[c] # None
    BY <1>0, <1>6 DEF RunApproval, FailApproval, Timeout, EndApproval, ConfirmApproval
  <2>2. \A d \in Approvals : d # c => approvals'[d] = approvals[d]
    BY <1>6 DEF RunApproval, FailApproval, Timeout, EndApproval, ConfirmApproval, TypeOK
  <2>3. approvals'[c] # None =>
            /\ approvals'[c].task = approvals[c].task
            /\ \A t \in Tasks : approvals'[c].read[t] # None =>
                   approvals[c].read[t] # None \/ pending[t] # None
            /\ \A t \in Tasks : approvals'[c].cli[t] # None => approvals[c].cli[t] # None
    <3>1. CASE FailApproval(c) \/ ConfirmApproval(c)
      BY <3>1 DEF FailApproval, ConfirmApproval, TypeOK
    <3>2. CASE RunApproval(c)
      <4>1. approvals' = [approvals EXCEPT ![c] =
                             [approvals[c] EXCEPT !.step = "running", !.read = pending]]
        BY <3>2 DEF RunApproval
      <4>2. QED
        BY <2>1, <4>1 DEF TypeOK
    <3>3. CASE Timeout(c)
      <4>1. approvals' = [approvals EXCEPT ![c] =
                             [approvals[c] EXCEPT !.waits = FALSE, !.cli = Forgotten]]
        BY <3>3 DEF Timeout
      <4>2. QED
        BY <2>1, <4>1 DEF TypeOK, Forgotten
    <3>4. CASE EndApproval(c)
      BY <2>1, <3>4 DEF EndApproval, TypeOK, Forgotten
    <3>5. QED
      BY <1>6, <3>1, <3>2, <3>3, <3>4
  <2>4. \A t \in Tasks : pending'[t] # None =>
            \/ pending[t] # None \/ approvals[c].read[t] # None
            \/ approvals[c].cli[t] # None \/ t = approvals[c].task
    BY <1>6, <2>1 DEF RunApproval, FailApproval, Timeout, EndApproval, ConfirmApproval, TypeOK
  <2>5. QED
    BY <1>0, <1>q, <2>1, <2>2, <2>3, <2>4 DEF QueuedOnFile
<1>7. QED
  <2>1. ~Restart
    BY NoRestart
  <2>2. QED
    BY <1>1, <1>3, <1>4, <1>5, <1>6, <2>1
       DEF Next, vars, Refuse, Register, Echoed, TakeResult, FailResult, ScoreResult, CloseResult,
           QueuedOnFile

LEMMA EngagedStays ==
    ASSUME TypeOK, [Next]_vars, NEW t \in Tasks, Engaged(t)
    PROVE  Engaged(t)'
<1>1. runs'[t] = runs[t] \/ runs'[t] = runs[t] + 1
  <2>1. ASSUME NEW c \in Approvals, RunApproval(c)
        PROVE  runs'[t] = runs[t] \/ runs'[t] = runs[t] + 1
    BY <2>1 DEF RunApproval, TypeOK
  <2>2. UNCHANGED runs \/ \E c \in Approvals : RunApproval(c)
    BY DEF Next, vars, counts, Refuse, Arrive, Admit, Verified, Register, Echoed, Reject,
           AskApproval, TakeResult, FailApproval, Timeout, EndApproval, ConfirmApproval,
           FailResult, ScoreResult, CloseResult, Restart
  <2>3. QED
    BY <2>1, <2>2
<1>2. stage[t] = "accepted" => stage'[t] = "accepted"
  BY DEF Next, vars, Refuse, Arrive, Admit, Verified, Register, Echoed, Reject, AskApproval,
         TakeResult, RunApproval, FailApproval, Timeout, EndApproval, ConfirmApproval,
         FailResult, ScoreResult, CloseResult, Restart, At, TypeOK
<1>3. runs[t] \in Nat
  BY DEF TypeOK
<1>4. QED
  BY <1>1, <1>2, <1>3, QueuedStays DEF Engaged

LEMMA RegisteredStep ==
    ASSUME TypeOK, QueuedOnFile, RegisteredIsEngaged, [Next]_vars
    PROVE  RegisteredIsEngaged'
<1> SUFFICES ASSUME restarts' = 0
             PROVE  /\ \A t \in tasks' : Engaged(t)' \/ stage'[t] = "echo"
                    /\ \A t \in Tasks : posted'[t] > 0 => Engaged(t)'
                    /\ \A p \in Posts : posts'[p] # None => posted'[posts'[p].task] > 0
  BY DEF RegisteredIsEngaged
<1>0. /\ \A t \in tasks : Engaged(t) \/ stage[t] = "echo"
      /\ \A t \in Tasks : posted[t] > 0 => Engaged(t)
      /\ \A p \in Posts : posts[p] # None => posts[p].task \in Tasks /\ posted[posts[p].task] > 0
      /\ tasks \subseteq Tasks
  BY NoRestart DEF RegisteredIsEngaged, TypeOK, Post
<1>e. \A t \in Tasks : Engaged(t) => Engaged(t)'
  BY EngagedStays
<1>s. ASSUME \A t \in tasks' : Engaged(t)' \/ stage'[t] = "echo",
             \A t \in Tasks : posted'[t] > 0 => Engaged(t)',
             \A p \in Posts : posts'[p] # None => posted'[posts'[p].task] > 0
      PROVE  RegisteredIsEngaged'
  BY <1>s DEF RegisteredIsEngaged
<1>1. ASSUME UNCHANGED <<tasks, posted, posts>>,
             \A t \in Tasks : stage[t] = "echo" => stage'[t] = "echo"
      PROVE  RegisteredIsEngaged'
  BY <1>0, <1>1, <1>e DEF RegisteredIsEngaged
<1>2. ASSUME NEW t \in Tasks, Refuse(t) \/ Arrive(t) \/ Verified(t) \/ Reject(t)
      PROVE  RegisteredIsEngaged'
  BY <1>1, <1>2 DEF Refuse, Arrive, Verified, Reject, Admit, At, counts, TypeOK
<1>3. ASSUME NEW t \in Tasks, Register(t) PROVE RegisteredIsEngaged'
  <2>1. /\ tasks' = tasks \cup {t} /\ UNCHANGED <<posted, posts>>
        /\ stage'[t] = "accepted" \/ stage'[t] = "echo"
        /\ \A u \in Tasks : u # t => stage'[u] = stage[u]
    BY <1>3 DEF Register, At, counts, TypeOK
  <2>2. Engaged(t)' \/ stage'[t] = "echo"
    BY <2>1 DEF Engaged
  <2>3. QED
    BY <1>0, <1>e, <2>1, <2>2 DEF RegisteredIsEngaged
<1>4. ASSUME NEW t \in Tasks, Echoed(t) PROVE RegisteredIsEngaged'
  <2>1. /\ tasks' = tasks \ {t} /\ UNCHANGED <<posted, posts>>
        /\ \A u \in Tasks : u # t => stage'[u] = stage[u]
    BY <1>4 DEF Echoed, At, TypeOK
  <2>2. QED
    BY <1>0, <1>e, <2>1 DEF RegisteredIsEngaged
<1>5. ASSUME NEW c \in Approvals, RunApproval(c) PROVE RegisteredIsEngaged'
  <2>1. PICK t \in Tasks :
            /\ t = approvals[c].task /\ stage[t] = "queued"
            /\ tasks' = tasks \cup {t} /\ UNCHANGED <<stage, posted, posts>>
            /\ runs' = [runs EXCEPT ![t] = @ + 1]
    <3>1. approvals[c] # None
      BY <1>5 DEF RunApproval
    <3>2. approvals[c].task \in Tasks /\ stage[approvals[c].task] = "queued"
      BY <3>1, NoRestart DEF QueuedOnFile, TypeOK, Approval
    <3>3. QED
      BY <1>5, <3>2 DEF RunApproval
  <2>2. runs[t] \in Nat
    BY DEF TypeOK
  <2>3. runs'[t] > 0
    BY <2>1, <2>2 DEF TypeOK
  <2>4. Engaged(t)'
    BY <2>1, <2>2, <2>3 DEF Engaged
  <2>5. \A u \in tasks' : Engaged(u)' \/ stage'[u] = "echo"
    BY <1>0, <1>e, <2>1, <2>4
  <2>6. \A u \in Tasks : posted'[u] > 0 => Engaged(u)'
    BY <1>0, <1>e, <2>1
  <2>7. QED
    BY <1>0, <1>s, <2>1, <2>5, <2>6
<1>6. ASSUME NEW p \in Posts, NEW t \in Tasks, TakeResult(p, t) PROVE RegisteredIsEngaged'
  <2>1. /\ t \in tasks /\ stage[t] # "echo" /\ UNCHANGED <<stage, tasks>>
        /\ posts' = [posts EXCEPT ![p] = [task |-> t, scored |-> FALSE]]
        /\ posted' = [posted EXCEPT ![t] = @ + 1]
    BY <1>6 DEF TakeResult
  <2>2. Engaged(t)
    BY <1>0, <2>1
  <2>3. posted'[t] > 0 /\ \A u \in Tasks : u # t => posted'[u] = posted[u]
    <3>1. posted[t] \in Nat /\ posted'[t] = posted[t] + 1
      BY <2>1 DEF TypeOK
    <3>2. \A u \in Tasks : u # t => posted'[u] = posted[u]
      BY <2>1 DEF TypeOK
    <3>3. QED
      BY <3>1, <3>2
  <2>4. posts'[p].task = t /\ \A q \in Posts : q # p => posts'[q] = posts[q]
    BY <2>1 DEF TypeOK
  <2>5. \A q \in Posts : posts'[q] # None => posted'[posts'[q].task] > 0
    BY <1>0, <2>3, <2>4
  <2>6. \A u \in tasks' : Engaged(u)' \/ stage'[u] = "echo"
    BY <1>0, <1>e, <2>1
  <2>7. \A u \in Tasks : posted'[u] > 0 => Engaged(u)'
    BY <1>0, <1>e, <2>2, <2>3
  <2>8. QED
    BY <1>s, <2>5, <2>6, <2>7
<1>7. ASSUME NEW p \in Posts, FailResult(p) \/ ScoreResult(p) \/ CloseResult(p)
      PROVE  RegisteredIsEngaged'
  <2>1. /\ tasks' \subseteq tasks /\ UNCHANGED <<stage, posted>>
        /\ posts[p] # None /\ posts[p] \in Post
        /\ posts' = [posts EXCEPT ![p] = None]
             \/ posts' = [posts EXCEPT ![p] = [posts[p] EXCEPT !.scored = TRUE]]
    BY <1>7 DEF FailResult, ScoreResult, CloseResult, counts, TypeOK
  <2>2. \A q \in Posts : posts'[q] # None =>
            posts[q] # None /\ posts'[q].task = posts[q].task
    BY <2>1 DEF TypeOK, Post
  <2>3. QED
    BY <1>0, <1>e, <2>1, <2>2 DEF RegisteredIsEngaged
<1>8. ASSUME NEW c \in Approvals, FailApproval(c) \/ Timeout(c) \/ EndApproval(c) \/ ConfirmApproval(c)
      PROVE  RegisteredIsEngaged'
  BY <1>1, <1>8 DEF FailApproval, Timeout, EndApproval, ConfirmApproval, counts
<1>9. ASSUME NEW c \in Approvals, NEW t \in Tasks, AskApproval(c, t) PROVE RegisteredIsEngaged'
  BY <1>1, <1>9 DEF AskApproval
<1>10. ASSUME UNCHANGED vars PROVE RegisteredIsEngaged'
  BY <1>1, <1>10 DEF vars, counts
<1>11. RegisteredIsEngaged'
  <2>1. ~Restart
    BY NoRestart
  <2>2. QED
    BY <1>2, <1>3, <1>4, <1>5, <1>6, <1>7, <1>8, <1>9, <1>10, <2>1 DEF Next
<1>12. QED
  BY <1>11 DEF RegisteredIsEngaged

-----------------------------------------------------------------------------
LEMMA SlotsFinite ==
    ASSUME TypeOK
    PROVE  /\ IsFiniteSet(Starting) /\ Cardinality(Starting) \in Nat
           /\ IsFiniteSet(Owing) /\ Cardinality(Owing) \in Nat
<1>1. Starting \in SUBSET Tasks /\ Owing \in SUBSET Tasks
  BY DEF Starting, Owing, TypeOK
<1>2. IsFiniteSet(Starting) /\ IsFiniteSet(Owing)
  BY <1>1, TaskRuntimeAssumption, FS_Subset
<1>3. QED
  BY <1>2, FS_CardinalityType

(* The condition of SlotsMatch: nothing is approved or reported twice. *)
Plainly == restarts = 0 /\ \A t \in Tasks : runs[t] <= 1 /\ posted[t] <= 1

SlotsEqual == active = Cardinality(Starting) + Cardinality(Owing)

LEMMA SlotsMatchEquals == SlotsMatch <=> (Plainly => SlotsEqual)
BY DEF SlotsMatch, Plainly, SlotsEqual, Starting, Owing

LEMMA PlainlyBefore ==
    ASSUME TypeOK, [Next]_vars, Plainly'
    PROVE  Plainly
<1>1. restarts = 0
  BY NoRestart DEF Plainly
<1>2. ASSUME NEW t \in Tasks PROVE runs[t] <= 1
  <2>1. runs'[t] = runs[t] \/ runs'[t] = runs[t] + 1
    <3>1. ASSUME NEW c \in Approvals, RunApproval(c)
          PROVE  runs'[t] = runs[t] \/ runs'[t] = runs[t] + 1
      BY <3>1 DEF RunApproval, TypeOK
    <3>2. UNCHANGED runs \/ \E c \in Approvals : RunApproval(c)
      BY DEF Next, vars, counts, Refuse, Arrive, Admit, Verified, Register, Echoed, Reject,
             AskApproval, TakeResult, FailApproval, Timeout, EndApproval, ConfirmApproval,
             FailResult, ScoreResult, CloseResult, Restart
    <3>3. QED
      BY <3>1, <3>2
  <2>2. runs[t] \in Nat /\ runs'[t] <= 1
    BY DEF TypeOK, Plainly
  <2>3. QED
    BY <2>1, <2>2
<1>3. ASSUME NEW t \in Tasks PROVE posted[t] <= 1
  <2>1. posted'[t] = posted[t] \/ posted'[t] = posted[t] + 1
    <3>1. ASSUME NEW p \in Posts, NEW u \in Tasks, TakeResult(p, u)
          PROVE  posted'[t] = posted[t] \/ posted'[t] = posted[t] + 1
      BY <3>1 DEF TakeResult, TypeOK
    <3>2. UNCHANGED posted \/ \E p \in Posts, u \in Tasks : TakeResult(p, u)
      BY DEF Next, vars, counts, Refuse, Arrive, Admit, Verified, Register, Echoed, Reject,
             AskApproval, RunApproval, FailApproval, Timeout, EndApproval, ConfirmApproval,
             FailResult, ScoreResult, CloseResult, Restart
    <3>3. QED
      BY <3>1, <3>2
  <2>2. posted[t] \in Nat /\ posted'[t] <= 1
    BY DEF TypeOK, Plainly
  <2>3. QED
    BY <2>1, <2>2
<1>4. QED
  BY <1>1, <1>2, <1>3 DEF Plainly

(* What a step does to the slots it counts. *)
LEMMA CountStarts ==
    ASSUME TypeOK, SlotsEqual, NEW t, t \notin Starting, Starting' = Starting \cup {t},
           Owing' = Owing, active' = active + 1
    PROVE  SlotsEqual'
<1>1. /\ Cardinality(Starting) \in Nat /\ Cardinality(Owing) \in Nat
      /\ Cardinality(Starting') = Cardinality(Starting) + 1
  BY SlotsFinite, FS_AddElement
<1>2. Cardinality(Owing') = Cardinality(Owing)
  OBVIOUS
<1>3. QED
  BY <1>1, <1>2 DEF SlotsEqual

LEMMA CountOwes ==
    ASSUME TypeOK, SlotsEqual, NEW t, t \notin Owing, Owing' = Owing \cup {t},
           Starting' = Starting, active' = active + 1
    PROVE  SlotsEqual'
<1>1. /\ Cardinality(Starting) \in Nat /\ Cardinality(Owing) \in Nat
      /\ Cardinality(Owing') = Cardinality(Owing) + 1
  BY SlotsFinite, FS_AddElement
<1>2. Cardinality(Starting') = Cardinality(Starting)
  OBVIOUS
<1>3. QED
  BY <1>1, <1>2 DEF SlotsEqual

LEMMA CountRegisters ==
    ASSUME TypeOK, SlotsEqual, NEW t, t \in Starting, Starting' = Starting \ {t},
           t \notin Owing, Owing' = Owing \cup {t}, active' = active
    PROVE  SlotsEqual'
<1>1. /\ Cardinality(Starting) \in Nat /\ Cardinality(Owing) \in Nat
      /\ Cardinality(Owing') = Cardinality(Owing) + 1
  BY SlotsFinite, FS_AddElement
<1>2. Cardinality(Starting') = Cardinality(Starting) - 1
  BY SlotsFinite, FS_RemoveElement
<1>3. QED
  BY <1>1, <1>2 DEF SlotsEqual

LEMMA CountEchoes ==
    ASSUME TypeOK, SlotsEqual, NEW t, t \in Starting, Starting' = Starting \ {t},
           Owing' = Owing, active' = TaskFinished
    PROVE  SlotsEqual'
<1>1. /\ Cardinality(Starting) \in Nat /\ Cardinality(Owing) \in Nat
      /\ Cardinality(Starting') = Cardinality(Starting) - 1
      /\ Cardinality(Starting) # 0
  BY SlotsFinite, FS_RemoveElement, FS_EmptySet
<1>2. Cardinality(Owing') = Cardinality(Owing)
  OBVIOUS
<1>3. QED
  BY <1>1, <1>2 DEF SlotsEqual, TaskFinished

LEMMA CountPaid ==
    ASSUME TypeOK, SlotsEqual, NEW t, t \in Owing, Owing' = Owing \ {t},
           Starting' = Starting, active' = TaskFinished
    PROVE  SlotsEqual'
<1>1. /\ Cardinality(Starting) \in Nat /\ Cardinality(Owing) \in Nat
      /\ Cardinality(Owing') = Cardinality(Owing) - 1
      /\ Cardinality(Owing) # 0
  BY SlotsFinite, FS_RemoveElement, FS_EmptySet
<1>2. Cardinality(Starting') = Cardinality(Starting)
  OBVIOUS
<1>3. QED
  BY <1>1, <1>2 DEF SlotsEqual, TaskFinished

(* A step that starts, engages and releases nothing. *)
LEMMA CountQuiet ==
    ASSUME SlotsEqual, active' = active, UNCHANGED posted,
           \A t \in Tasks : stage[t] = "started" <=> stage'[t] = "started",
           \A t \in Tasks : t \in Owing <=> t \in tasks' /\ stage'[t] # "echo" /\ posted[t] = 0,
           tasks \subseteq Tasks, tasks' \subseteq Tasks
    PROVE  SlotsEqual'
<1>1. Starting' = Starting
  BY DEF Starting
<1>2. Owing' = Owing
  BY DEF Owing
<1>3. QED
  BY <1>1, <1>2 DEF SlotsEqual

LEMMA SlotsStep ==
    ASSUME TypeOK, TypeOK', QueuedOnFile, RegisteredIsEngaged, SlotsMatch, [Next]_vars
    PROVE  SlotsMatch'
<1> SUFFICES ASSUME Plainly' PROVE SlotsEqual'
  BY DEF SlotsMatch, Plainly, SlotsEqual, Starting, Owing
<1>0. Plainly /\ SlotsEqual /\ restarts = 0 /\ restarts' = 0
  BY PlainlyBefore, SlotsMatchEquals DEF Plainly
<1>r. /\ \A t \in tasks : Engaged(t) \/ stage[t] = "echo"
      /\ \A t \in Tasks : posted[t] \in Nat /\ (posted[t] > 0 => Engaged(t))
      /\ \A p \in Posts : posts[p] # None => posts[p].task \in Tasks /\ posted[posts[p].task] > 0
      /\ tasks \subseteq Tasks /\ tasks' \subseteq Tasks
  BY <1>0 DEF RegisteredIsEngaged, TypeOK, Post
<1>n. \A t \in Tasks : stage[t] \in {"new", "verifying", "started"} =>
          t \notin tasks /\ posted[t] = 0
  BY <1>r DEF Engaged
<1>1. ASSUME UNCHANGED <<stage, tasks, active, posted>> PROVE SlotsEqual'
  BY <1>0, <1>1 DEF SlotsEqual, Starting, Owing
<1>2. ASSUME NEW t \in Tasks, stage[t] \in {"new", "verifying"}, NEW s, At(t, s), s # "started",
             UNCHANGED <<tasks, active, posted>>
      PROVE  SlotsEqual'
  <2>1. \A u \in Tasks : stage[u] = "started" <=> stage'[u] = "started"
    BY <1>2 DEF At, TypeOK
  <2>2. \A u \in tasks : stage'[u] = stage[u]
    BY <1>2, <1>n, <1>r DEF At, TypeOK
  <2>3. \A u \in Tasks : u \in Owing <=> u \in tasks' /\ stage'[u] # "echo" /\ posted[u] = 0
    BY <1>2, <2>2 DEF Owing
  <2>4. QED
    BY <1>0, <1>2, <1>r, <2>1, <2>3, CountQuiet
<1>3. ASSUME NEW t \in Tasks, stage[t] \in {"new", "verifying"}, Admit(t) PROVE SlotsEqual'
  <2>1. CASE At(t, "queued") /\ UNCHANGED active
    BY <1>2, <1>3, <2>1 DEF Admit, counts
  <2>2. CASE At(t, "started") /\ active' = active + 1
    <3>1. t \notin Starting /\ Starting' = Starting \cup {t}
      BY <1>3, <2>2 DEF At, TypeOK, Starting
    <3>2. \A u \in tasks : stage'[u] = stage[u]
      BY <1>3, <2>2, <1>n, <1>r DEF At, TypeOK
    <3>3. UNCHANGED <<tasks, posted>>
      BY <1>3 DEF Admit, counts
    <3>4. Owing' = Owing
      BY <3>2, <3>3 DEF Owing
    <3>5. QED
      BY <1>0, <2>2, <3>1, <3>4, CountStarts
  <2>3. QED
    BY <1>3, <2>1, <2>2 DEF Admit
<1>4. ASSUME NEW t \in Tasks, Refuse(t) \/ Arrive(t) \/ Verified(t) PROVE SlotsEqual'
  BY <1>2, <1>3, <1>4 DEF Refuse, Arrive, Verified, counts
<1>5. ASSUME NEW t \in Tasks, Register(t) PROVE SlotsEqual'
  <2>1. /\ stage[t] = "started" /\ tasks' = tasks \cup {t} /\ UNCHANGED posted
        /\ \A u \in Tasks : u # t => stage'[u] = stage[u]
        /\ \/ stage'[t] = "accepted" /\ active' = active
           \/ stage'[t] = "echo" /\ active' = TaskFinished
    BY <1>5 DEF Register, At, counts, TypeOK
  <2>2. t \in Starting /\ Starting' = Starting \ {t}
    BY <2>1 DEF Starting
  <2>3. t \notin tasks /\ posted[t] = 0
    BY <1>n, <2>1
  <2>4. CASE stage'[t] = "accepted" /\ active' = active
    <3>1. t \notin Owing /\ Owing' = Owing \cup {t}
      BY <1>r, <2>1, <2>3, <2>4 DEF Owing
    <3>2. QED
      BY <1>0, <2>2, <2>4, <3>1, CountRegisters
  <2>5. CASE stage'[t] = "echo" /\ active' = TaskFinished
    <3>1. Owing' = Owing
      BY <1>r, <2>1, <2>3, <2>5 DEF Owing
    <3>2. QED
      BY <1>0, <2>2, <2>5, <3>1, CountEchoes
  <2>6. QED
    BY <2>1, <2>4, <2>5
<1>6. ASSUME NEW t \in Tasks, Echoed(t) PROVE SlotsEqual'
  <2>1. /\ stage[t] = "echo" /\ stage'[t] = "completed" /\ tasks' = tasks \ {t}
        /\ \A u \in Tasks : u # t => stage'[u] = stage[u]
        /\ UNCHANGED <<posted, active>>
    BY <1>6 DEF Echoed, At, TypeOK
  <2>2. \A u \in Tasks : stage[u] = "started" <=> stage'[u] = "started"
    BY <2>1
  <2>3. \A u \in Tasks : u \in Owing <=> u \in tasks' /\ stage'[u] # "echo" /\ posted[u] = 0
    BY <2>1 DEF Owing
  <2>4. QED
    BY <1>0, <1>r, <2>1, <2>2, <2>3, CountQuiet
<1>7. ASSUME NEW c \in Approvals, RunApproval(c) PROVE SlotsEqual'
  <2>1. PICK t \in Tasks :
            /\ t = approvals[c].task /\ stage[t] = "queued"
            /\ tasks' = tasks \cup {t} /\ active' = active + 1 /\ UNCHANGED <<stage, posted>>
            /\ runs' = [runs EXCEPT ![t] = @ + 1]
    <3>1. approvals[c] # None
      BY <1>7 DEF RunApproval
    <3>2. approvals[c].task \in Tasks /\ stage[approvals[c].task] = "queued"
      BY <1>0, <3>1 DEF QueuedOnFile, TypeOK, Approval
    <3>3. QED
      BY <1>7, <3>2 DEF RunApproval
  <2>2. ~(runs[t] > 0)
    <3>1. runs[t] \in Nat /\ runs'[t] = runs[t] + 1
      BY <2>1 DEF TypeOK
    <3>2. runs'[t] <= 1
      BY DEF Plainly
    <3>3. QED
      BY <3>1, <3>2
  <2>3. t \notin tasks /\ posted[t] = 0
    BY <1>r, <2>1, <2>2 DEF Engaged
  <2>4. t \notin Owing /\ Owing' = Owing \cup {t}
    BY <2>1, <2>3 DEF Owing
  <2>5. Starting' = Starting
    BY <2>1 DEF Starting
  <2>6. QED
    BY <1>0, <2>1, <2>4, <2>5, CountOwes
<1>8. ASSUME NEW p \in Posts, NEW t \in Tasks, TakeResult(p, t) PROVE SlotsEqual'
  <2>1. /\ t \in tasks /\ stage[t] # "echo" /\ active' = TaskFinished
        /\ posted' = [posted EXCEPT ![t] = @ + 1] /\ UNCHANGED <<stage, tasks>>
    BY <1>8 DEF TakeResult
  <2>2. posted[t] \in Nat /\ posted'[t] = posted[t] + 1
    BY <2>1 DEF TypeOK
  <2>3. \A u \in Tasks : u # t => posted'[u] = posted[u]
    BY <2>1 DEF TypeOK
  <2>4. posted'[t] <= 1
    BY DEF Plainly
  <2>5. posted[t] = 0 /\ posted'[t] # 0
    BY <2>2, <2>4
  <2>6. t \in Owing /\ Owing' = Owing \ {t}
    BY <1>r, <2>1, <2>3, <2>5 DEF Owing
  <2>7. Starting' = Starting
    BY <2>1 DEF Starting
  <2>8. QED
    BY <1>0, <2>1, <2>6, <2>7, CountPaid
<1>9. ASSUME NEW p \in Posts, CloseResult(p) PROVE SlotsEqual'
  <2>1. /\ posts[p] # None /\ tasks' = tasks \ {posts[p].task}
        /\ UNCHANGED <<stage, active, posted>>
    BY <1>9 DEF CloseResult, counts
  <2>2. posted[posts[p].task] # 0
    BY <1>r, <2>1
  <2>3. \A u \in Tasks : u \in Owing <=> u \in tasks' /\ stage'[u] # "echo" /\ posted[u] = 0
    BY <2>1, <2>2 DEF Owing
  <2>4. QED
    BY <1>0, <1>r, <2>1, <2>3, CountQuiet
<1>10. ASSUME NEW t \in Tasks, Reject(t) \/ \E c \in Approvals : AskApproval(c, t) PROVE SlotsEqual'
  BY <1>1, <1>10 DEF Reject, AskApproval, counts
<1>11. ASSUME NEW c \in Approvals, FailApproval(c) \/ Timeout(c) \/ EndApproval(c) \/ ConfirmApproval(c)
       PROVE  SlotsEqual'
  BY <1>1, <1>11 DEF FailApproval, Timeout, EndApproval, ConfirmApproval, counts
<1>12. ASSUME NEW p \in Posts, FailResult(p) \/ ScoreResult(p) PROVE SlotsEqual'
  BY <1>1, <1>12 DEF FailResult, ScoreResult, counts
<1>13. ASSUME UNCHANGED vars PROVE SlotsEqual'
  BY <1>1, <1>13 DEF vars, counts
<1>14. ~Restart
  BY <1>0, NoRestart
<1>15. QED
  BY <1>4, <1>5, <1>6, <1>7, <1>8, <1>9, <1>10, <1>11, <1>12, <1>13, <1>14 DEF Next

LEMMA SlotsInit == Init => SlotsInv
<1> SUFFICES ASSUME Init PROVE SlotsInv
  OBVIOUS
<1>1. TypeOK
  BY InvInit DEF IInv
<1>2. QueuedOnFile
  BY DEF Init, Forgotten, QueuedOnFile
<1>3. RegisteredIsEngaged
  BY DEF Init, RegisteredIsEngaged
<1>4. SlotsMatch
  <2>1. active = 0 /\ Starting = {} /\ Owing = {}
    BY DEF Init, Starting, Owing
  <2>2. SlotsEqual
    BY <2>1, FS_EmptySet DEF SlotsEqual
  <2>3. QED
    BY <2>2, SlotsMatchEquals
<1>5. QED
  BY <1>1, <1>2, <1>3, <1>4 DEF SlotsInv

(* The policy's count of active tasks is the number of tasks that are      *)
(* started or owe their first result, as long as the runtime does not      *)
(* restart and no task is approved or reported twice: whatever handlers,   *)
(* commands and result posts overlap, no slot leaks and none is given back *)
(* twice (PolicyEnforcer.check, taskFinished; the handlers in atel.mjs).   *)
THEOREM SlotsAreCounted == Spec => []SlotsMatch
<1>1. SlotsInv /\ [Next]_vars => SlotsInv'
  BY TypeStep, FileStep, RegisteredStep, SlotsStep DEF SlotsInv
<1>2. SlotsInv => SlotsMatch
  BY DEF SlotsInv
<1>3. QED
  BY <1>1, <1>2, SlotsInit, PTL DEF Spec

-----------------------------------------------------------------------------
(* TradeOrder: an order an agent tracks stays in its file, for any orders  *)
(* and any bounds.  Only what was closed when it was read is dropped, and  *)
(* what is closed stays closed.                                            *)

CONSTANTS Orders, RejectLimit, Keyed, Budgets, NoHook

VARIABLES sent, policy, processed, views, commands, edits, budget

Trade == INSTANCE TradeOrder

CommandNames ==
    {"order", "trade-task", "accept", "reject", "order-cancel", "escrow", "milestone-feedback",
     "milestone-submit", "milestone-verify", "milestone-arbitrate", "complete", "confirm"}

MsStates == {"pending", "submitted", "rejected"}

OrderType == [status : Trade!Statuses, agreed : SUBSET Trade!Agents, at : Nat,
              ms : MsStates, count : Nat, locked : BOOLEAN]

NoticeTypes == {"order_created", "order_accepted"} \cup Trade!Work

NoticeType == [to : Trade!Agents, type : NoticeTypes, order : Orders, at : Nat, count : Nat]

HookType == [by : Trade!Agents, order : Orders, type : NoticeTypes, at : Nat, count : Nat]

ViewType == [by : Trade!Agents, order : Orders, status : Trade!Statuses, ms : MsStates, at : Nat, count : Nat]

CommandType == [by : Trade!Agents, name : CommandNames, order : Orders, at : Nat, pass : BOOLEAN,
                from : {"user", "child", "timer"}, of : HookType \cup {NoHook},
                stage : {"check", "lock", "post", "poll"}]

EditType == [by : Trade!Agents, order : Orders, what : {"track", "untrack"}, via : {"command", "runtime"}, file : SUBSET Orders]

TradeTyped ==
    /\ order \in [Orders -> OrderType]
    /\ sent \subseteq NoticeType /\ hooks \subseteq HookType /\ views \subseteq ViewType
    /\ commands \subseteq CommandType /\ edits \subseteq EditType
    /\ tracked \in [Trade!Agents -> SUBSET Orders] /\ mine \in [Trade!Agents -> SUBSET Orders]
    /\ overlapped \in [Trade!Agents -> SUBSET Orders]

Closed(o) == order[o].status \in Trade!Terminal

(* An order that was fetched as closed is closed; only such an order, and  *)
(* one that was cancelled, is dropped from a file.                         *)
ClosedViews == \A v \in views : v.status \in Trade!Terminal => Closed(v.order)

DropsClosed == \A e \in edits : e.what = "untrack" => Closed(e.order)

TradeInv == TradeTyped /\ ClosedViews /\ DropsClosed /\ Trade!KeptTracked

LEMMA TradeInit == Trade!Init => TradeInv
<1> SUFFICES ASSUME Trade!Init PROVE TradeInv
  OBVIOUS
<1>1. [status |-> "none", agreed |-> {}, at |-> 0, ms |-> "pending", count |-> 0, locked |-> FALSE] \in OrderType
  BY DEF OrderType, MsStates, Trade!Statuses, Trade!Terminal, Trade!Listed
<1>2. TradeTyped
  BY <1>1 DEF Trade!Init, TradeTyped
<1>3. QED
  BY <1>2 DEF Trade!Init, TradeInv, ClosedViews, DropsClosed, Trade!KeptTracked

-----------------------------------------------------------------------------
(* What is closed stays closed: the platform takes nothing for it.         *)
OrdersGoOn == order' \in [Orders -> OrderType] /\ \A o \in Orders : Closed(o) => Closed(o)'

LEMMA OrderFields ==
    ASSUME NEW r \in OrderType
    PROVE  /\ \A s \in Trade!Statuses : [r EXCEPT !.status = s] \in OrderType
           /\ \A g \in SUBSET Trade!Agents : [r EXCEPT !.agreed = g] \in OrderType
           /\ \A n \in Nat : [r EXCEPT !.at = n] \in OrderType /\ [r EXCEPT !.count = n] \in OrderType
           /\ \A s \in MsStates : [r EXCEPT !.ms = s] \in OrderType
BY DEF OrderType

LEMMA AdvancedType ==
    ASSUME NEW r \in OrderType
    PROVE  Trade!Advanced(r) \in OrderType
<1>1. r.at + 1 \in Nat /\ "pending" \in MsStates /\ "settled" \in Trade!Statuses
  BY DEF OrderType, MsStates, Trade!Statuses, Trade!Terminal
<1> DEFINE settled == [r EXCEPT !.status = "settled"]
           Next1(q) == [q EXCEPT !.at = r.at + 1]
           Next2(q) == [Next1(q) EXCEPT !.ms = "pending"]
           Next3(q) == [Next2(q) EXCEPT !.count = 0]
<1>2. settled \in OrderType
  BY <1>1, OrderFields
<1>3. ASSUME NEW q \in OrderType PROVE Next3(q) \in OrderType
  <2>1. Next1(q) \in OrderType
    BY <1>1, OrderFields
  <2> HIDE DEF Next1
  <2>2. Next2(q) \in OrderType
    BY <1>1, <2>1, OrderFields
  <2> HIDE DEF Next2
  <2>3. QED
    BY <2>2, OrderFields
<1>4. Trade!Advanced(r) = Next3(settled) \/ Trade!Advanced(r) = Next3(r)
  BY DEF Trade!Advanced
<1> HIDE DEF settled, Next3
<1>5. QED
  BY <1>2, <1>3, <1>4

LEMMA ResultsType ==
    ASSUME TradeTyped, NEW c \in CommandType, Trade!Takes(c), NEW r \in Trade!Results(c)
    PROVE  /\ r \in OrderType /\ ~Closed(c.order)
           /\ c.name = "order-cancel" => r.status \in Trade!Terminal
<1> DEFINE old == order[c.order]
<1>1. old \in OrderType /\ c.order \in Orders /\ c.by \in Trade!Agents
  BY DEF TradeTyped, CommandType
<1>2. \A s \in Trade!Statuses : [old EXCEPT !.status = s] \in OrderType /\ [old EXCEPT !.status = s].status = s
  BY <1>1 DEF OrderType
<1>3. {"none", "created", "pending_escrow", "milestone_review", "rejected", "cancelled", "completed", "settled",
       "executing"} \subseteq Trade!Statuses
  BY DEF Trade!Statuses, Trade!Terminal, Trade!Listed
<1>4. Trade!Advanced(old) \in OrderType
  BY <1>1, AdvancedType
<1>5. CASE c.name \in {"order", "trade-task", "accept", "reject", "escrow", "complete", "confirm"}
  <2>1. ~Closed(c.order)
    BY <1>5 DEF Trade!Takes, Trade!Is, Closed, Trade!Terminal
  <2>2. \E s \in Trade!Statuses : r = [old EXCEPT !.status = s]
    BY <1>3, <1>5 DEF Trade!Results
  <2>3. QED
    BY <1>2, <1>5, <2>1, <2>2
<1>6. CASE c.name = "order-cancel"
  <2>1. ~Closed(c.order)
    BY <1>6 DEF Trade!Takes, Closed
  <2>2. r = [old EXCEPT !.status = "cancelled"]
    BY <1>6 DEF Trade!Results
  <2>3. "cancelled" \in Trade!Terminal
    BY DEF Trade!Terminal
  <2>4. QED
    BY <1>2, <1>3, <2>1, <2>2, <2>3
<1>7. CASE c.name = "milestone-feedback"
  <2>1. ~Closed(c.order)
    BY <1>7 DEF Trade!Takes, Trade!Is, Closed, Trade!Terminal
  <2>2. r \in {[old EXCEPT !.agreed = {}],
               [old EXCEPT !.agreed = Trade!Agents, !.status = "executing"],
               [old EXCEPT !.agreed = @ \cup {c.by}]}
    BY <1>7 DEF Trade!Results
  <2>3. [old EXCEPT !.agreed = Trade!Agents] \in OrderType
    BY <1>1, OrderFields
  <2>4. [old EXCEPT !.agreed = Trade!Agents, !.status = "executing"] \in OrderType
    BY <1>3, <2>3, OrderFields
  <2>5. [old EXCEPT !.agreed = {}] \in OrderType /\ [old EXCEPT !.agreed = @ \cup {c.by}] \in OrderType
    <3>1. old.agreed \cup {c.by} \in SUBSET Trade!Agents
      BY <1>1 DEF OrderType
    <3>2. QED
      BY <1>1, <3>1, OrderFields
  <2>6. QED
    BY <1>7, <2>1, <2>2, <2>4, <2>5
<1>8. CASE c.name \in {"milestone-submit", "milestone-verify", "milestone-arbitrate"}
  <2>1. ~Closed(c.order)
    BY <1>8 DEF Trade!Takes, Trade!Is, Closed, Trade!Terminal
  <2>2. r \in {[old EXCEPT !.ms = "submitted", !.count = @ + 1], [old EXCEPT !.ms = "rejected"],
               Trade!Advanced(old), [old EXCEPT !.status = "cancelled"]}
    BY <1>8 DEF Trade!Results
  <2>3. [old EXCEPT !.ms = "submitted"] \in OrderType /\ [old EXCEPT !.ms = "rejected"] \in OrderType
    BY <1>1, OrderFields DEF MsStates
  <2>4. [old EXCEPT !.ms = "submitted", !.count = @ + 1] \in OrderType
    <3>1. old.count + 1 \in Nat
      BY <1>1 DEF OrderType
    <3>2. QED
      BY <2>3, <3>1, OrderFields
  <2>5. QED
    BY <1>2, <1>3, <1>4, <1>8, <2>1, <2>2, <2>3, <2>4
<1>9. QED
  BY <1>5, <1>6, <1>7, <1>8 DEF CommandType, CommandNames

LEMMA NoticesType ==
    ASSUME NEW o \in Orders, NEW r \in OrderType, NEW s \in OrderType
    PROVE  Trade!Notices(o, r, s) \subseteq NoticeType
<1>1. ASSUME NEW to \in Trade!Agents, NEW type \in NoticeTypes
      PROVE  Trade!Notice(to, type, o, s) \in NoticeType
  BY DEF Trade!Notice, NoticeType, OrderType
<1>2. /\ {"requester", "executor"} = Trade!Agents
      /\ {"order_created", "order_accepted", "milestone_plan_confirmed", "milestone_submitted",
          "milestone_verified", "milestone_rejected"} \subseteq NoticeTypes
  BY DEF Trade!Agents, NoticeTypes, Trade!Work
<1>3. \A n \in Trade!Notices(o, r, s) : \E to \in Trade!Agents, type \in NoticeTypes :
          n = Trade!Notice(to, type, o, s)
  BY <1>2 DEF Trade!Notices
<1>4. QED
  BY <1>1, <1>3

LEMMA OrderChanges ==
    ASSUME TradeTyped, NEW o \in Orders, ~Closed(o), NEW r \in OrderType,
           order' = [order EXCEPT ![o] = r]
    PROVE  OrdersGoOn
<1>1. order' \in [Orders -> OrderType]
  BY DEF TradeTyped
<1>2. \A p \in Orders : p # o => order'[p] = order[p]
  BY DEF TradeTyped
<1>3. QED
  BY <1>1, <1>2 DEF OrdersGoOn, Closed

LEMMA OrdersSame == ASSUME TradeTyped, UNCHANGED order PROVE OrdersGoOn
BY DEF TradeTyped, OrdersGoOn, Closed

LEMMA LandsGoesOn ==
    ASSUME TradeTyped, NEW c \in CommandType, Trade!Takes(c), Trade!Lands(c)
    PROVE  /\ OrdersGoOn /\ sent' \subseteq NoticeType
           /\ c.name = "order-cancel" => Closed(c.order)'
<1>1. PICK r \in Trade!Results(c) : /\ order' = [order EXCEPT ![c.order] = r]
                                    /\ sent' = sent \cup Trade!Notices(c.order, order[c.order], r)
  BY DEF Trade!Lands
<1>2. /\ r \in OrderType /\ ~Closed(c.order)
      /\ c.name = "order-cancel" => r.status \in Trade!Terminal
  BY <1>1, ResultsType
<1>3. c.order \in Orders /\ order[c.order] \in OrderType
  BY DEF TradeTyped, CommandType
<1>4. OrdersGoOn
  BY <1>1, <1>2, <1>3, OrderChanges
<1>5. sent' \subseteq NoticeType
  BY <1>1, <1>2, <1>3, NoticesType DEF TradeTyped
<1>6. order'[c.order] = r
  BY <1>1, <1>3 DEF TradeTyped
<1>7. QED
  BY <1>2, <1>4, <1>5, <1>6 DEF Closed

-----------------------------------------------------------------------------
(* A step that leaves the files alone.                                     *)
LEMMA FilesAlone ==
    ASSUME TradeInv, OrdersGoOn,
           sent' \subseteq NoticeType, hooks' \subseteq HookType, commands' \subseteq CommandType,
           UNCHANGED <<tracked, mine, overlapped>>,
           \A v \in views' \ views : v \in ViewType /\ (v.status \in Trade!Terminal => Closed(v.order)'),
           \A e \in edits' \ edits : e \in EditType /\ (e.what = "untrack" => Closed(e.order)')
    PROVE  TradeInv'
<1>1. TradeTyped'
  BY DEF TradeInv, TradeTyped, OrdersGoOn
<1>2. ClosedViews'
  <2> SUFFICES ASSUME NEW v \in views', v.status \in Trade!Terminal PROVE Closed(v.order)'
    BY DEF ClosedViews
  <2>1. CASE v \in views
    BY <2>1 DEF TradeInv, TradeTyped, ClosedViews, OrdersGoOn, ViewType
  <2>2. CASE v \notin views
    BY <2>2
  <2>3. QED
    BY <2>1, <2>2
<1>3. DropsClosed'
  <2> SUFFICES ASSUME NEW e \in edits', e.what = "untrack" PROVE Closed(e.order)'
    BY DEF DropsClosed
  <2>1. CASE e \in edits
    BY <2>1 DEF TradeInv, TradeTyped, DropsClosed, OrdersGoOn, EditType
  <2>2. CASE e \notin edits
    BY <2>2
  <2>3. QED
    BY <2>1, <2>2
<1>4. Trade!KeptTracked'
  <2> SUFFICES ASSUME NEW a \in Trade!Agents, NEW o \in mine[a], order'[o].status \notin Trade!Terminal
               PROVE  o \in tracked[a] \cup overlapped[a]
    BY DEF Trade!KeptTracked
  <2>1. o \in Orders
    BY DEF TradeInv, TradeTyped
  <2>2. ~Closed(o)
    BY <2>1 DEF OrdersGoOn, Closed
  <2>3. QED
    BY <2>2 DEF TradeInv, Trade!KeptTracked, Closed
<1>5. QED
  BY <1>1, <1>2, <1>3, <1>4 DEF TradeInv

LEMMA SaveKeepsTracked ==
    ASSUME TradeInv, NEW e \in edits, Trade!Save(e)
    PROVE  TradeInv'
<1>1. /\ edits' = edits \ {e} /\ UNCHANGED <<order, sent, views, hooks, commands>>
      /\ tracked' = [tracked EXCEPT ![e.by] = Trade!Written(e)]
      /\ mine' = IF e.what = "track" THEN [mine EXCEPT ![e.by] = @ \cup {e.order}] ELSE mine
      /\ overlapped' = [overlapped EXCEPT ![e.by] = @ \cup ((tracked[e.by] \ e.file) \cup (e.file \ tracked[e.by]))]
  BY DEF Trade!Save, Trade!platform, Trade!runtime
<1>2. e \in EditType /\ e.by \in Trade!Agents /\ e.order \in Orders /\ e.file \subseteq Orders
  BY DEF TradeInv, TradeTyped, EditType
<1>3. Trade!Written(e) \subseteq Orders
  BY <1>2 DEF Trade!Written
<1>4. TradeTyped'
  BY <1>1, <1>2, <1>3 DEF TradeInv, TradeTyped
<1>5. ClosedViews' /\ DropsClosed'
  BY <1>1 DEF TradeInv, ClosedViews, DropsClosed, Closed
<1>6. Trade!KeptTracked'
  <2> SUFFICES ASSUME NEW a \in Trade!Agents, NEW o \in mine'[a], order'[o].status \notin Trade!Terminal
               PROVE  o \in tracked'[a] \cup overlapped'[a]
    BY DEF Trade!KeptTracked
  <2>1. ~Closed(o)
    BY <1>1 DEF Closed
  <2>2. CASE a # e.by
    <3>1. mine'[a] = mine[a] /\ tracked'[a] = tracked[a] /\ overlapped'[a] = overlapped[a]
      BY <1>1, <2>2 DEF TradeInv, TradeTyped
    <3>2. QED
      BY <2>1, <3>1 DEF TradeInv, Trade!KeptTracked, Closed
  <2>3. CASE a = e.by
    <3>1. /\ tracked'[a] = Trade!Written(e)
          /\ overlapped'[a] = overlapped[a] \cup ((tracked[a] \ e.file) \cup (e.file \ tracked[a]))
      BY <1>1, <1>2, <2>3 DEF TradeInv, TradeTyped
    <3>2. CASE o = e.order
      <4>1. e.what = "track"
        BY <1>2, <2>1, <3>2 DEF TradeInv, DropsClosed, EditType
      <4>2. QED
        BY <3>1, <3>2, <4>1 DEF Trade!Written
    <3>3. CASE o # e.order
      <4>1. o \in mine[a]
        BY <1>1, <1>2, <2>3, <3>3 DEF TradeInv, TradeTyped
      <4>2. o \in tracked[a] \cup overlapped[a]
        BY <2>1, <4>1 DEF TradeInv, Trade!KeptTracked, Closed
      <4>3. o \in e.file => o \in Trade!Written(e)
        BY <3>3 DEF Trade!Written
      <4>4. QED
        BY <3>1, <4>2, <4>3
    <3>4. QED
      BY <3>2, <3>3
  <2>4. QED
    BY <2>2, <2>3
<1>7. QED
  BY <1>4, <1>5, <1>6 DEF TradeInv

LEMMA CutKeepsTracked ==
    ASSUME TradeInv, NEW e \in edits, Trade!SaveCut(e)
    PROVE  TradeInv'
<1>1. /\ edits' = edits \ {e} /\ UNCHANGED <<order, sent, views, hooks, commands, mine>>
      /\ \/ UNCHANGED <<tracked, overlapped>>
         \/ /\ tracked' = [tracked EXCEPT ![e.by] = {}]
            /\ overlapped' = [overlapped EXCEPT ![e.by] = @ \cup tracked[e.by]]
  BY DEF Trade!SaveCut, Trade!platform, Trade!runtime
<1>2. e.by \in Trade!Agents
  BY DEF TradeInv, TradeTyped, EditType
<1>3. TradeTyped'
  BY <1>1, <1>2 DEF TradeInv, TradeTyped
<1>4. ClosedViews' /\ DropsClosed'
  BY <1>1 DEF TradeInv, ClosedViews, DropsClosed, Closed
<1>5. \A a \in Trade!Agents : tracked[a] \cup overlapped[a] \subseteq tracked'[a] \cup overlapped'[a]
  BY <1>1, <1>2 DEF TradeInv, TradeTyped
<1>6. Trade!KeptTracked'
  BY <1>1, <1>5 DEF TradeInv, Trade!KeptTracked
<1>7. QED
  BY <1>3, <1>4, <1>6 DEF TradeInv

-----------------------------------------------------------------------------
LEMMA CommandsType ==
    ASSUME NEW a \in Trade!Agents, NEW name \in CommandNames, NEW o \in Orders, NEW i \in Nat,
           NEW pass \in BOOLEAN, NEW from \in {"user", "child", "timer"}, NEW of \in HookType \cup {NoHook}
    PROVE  Trade!Command(a, name, o, i, pass, from, of) \in CommandType
BY DEF Trade!Command, CommandType

(* Nothing but well-formed commands is started.                            *)
LEMMA StartsType ==
    ASSUME TradeTyped, NEW c \in CommandType, Trade!Starts(c)
    PROVE  commands' \subseteq CommandType
BY DEF Trade!Starts, TradeTyped

LEMMA ChildStarts ==
    ASSUME TradeTyped, NEW a \in Trade!Agents, NEW o \in Orders,
           Trade!Accepts(o) \/ Trade!Approves(a, o)
    PROVE  commands' \subseteq CommandType
<1>1. /\ Trade!Child("executor", "accept", o) \in CommandType
      /\ Trade!Child(a, "milestone-feedback", o) \in CommandType
  BY CommandsType DEF Trade!Child, Trade!Agents, CommandNames
<1>2. QED
  BY <1>1, StartsType DEF Trade!Accepts, Trade!Approves, TradeTyped

LEMMA HookQueued ==
    ASSUME TradeTyped, NEW h \in HookType, Trade!queueAgentHook(h)
    PROVE  hooks' \subseteq HookType
BY DEF Trade!queueAgentHook, TradeTyped

LEMMA TypedCommands ==
    ASSUME TradeTyped, NEW o \in Orders
    PROVE  Trade!Typed(o) \subseteq CommandType
<1>1. order[o].at \in Nat
  BY DEF TradeTyped, OrderType
<1>2. \A a \in Trade!Agents, n \in CommandNames, p \in BOOLEAN :
          Trade!Command(a, n, o, order[o].at, p, "user", NoHook) \in CommandType
  BY <1>1, CommandsType
<1> DEFINE C(a, n, p) == Trade!Command(a, n, o, order[o].at, p, "user", NoHook)
<1>3. \A n \in {"accept", "reject", "milestone-submit", "complete", "milestone-arbitrate"} :
          C("executor", n, TRUE) \in CommandType
  BY <1>2 DEF Trade!Agents, CommandNames
<1>4. \A n \in {"order-cancel", "escrow", "confirm"} : C("requester", n, TRUE) \in CommandType
  BY <1>2 DEF Trade!Agents, CommandNames
<1>5. \A p \in BOOLEAN : C("requester", "milestone-verify", p) \in CommandType
  BY <1>2 DEF Trade!Agents, CommandNames
<1>6. \A a \in Trade!Agents, p \in BOOLEAN : C(a, "milestone-feedback", p) \in CommandType
  BY <1>2 DEF CommandNames
<1> HIDE DEF C
<1> DEFINE Work == {C("executor", n, TRUE) : n \in {"accept", "reject", "milestone-submit", "complete"}}
           Rest == {C("requester", n, TRUE) : n \in {"order-cancel", "escrow", "confirm"}}
           Reviews == {C("requester", "milestone-verify", p) : p \in BOOLEAN}
           Plans == {C(a, "milestone-feedback", p) : a \in Trade!Agents, p \in BOOLEAN}
           Verdicts == {C("executor", "milestone-arbitrate", TRUE)}
<1>7. Trade!Typed(o) = Work \cup Rest \cup Reviews \cup Plans \cup Verdicts
  BY DEF C, Trade!Typed
<1>8. Work \subseteq CommandType /\ Rest \subseteq CommandType /\ Verdicts \subseteq CommandType
  BY <1>3, <1>4
<1>9. Reviews \subseteq CommandType
  BY <1>5
<1>10. Plans \subseteq CommandType
  BY <1>6
<1> HIDE DEF Work, Rest, Reviews, Plans, Verdicts
<1>11. QED
  BY <1>7, <1>8, <1>9, <1>10

LEMMA CommandSteps ==
    ASSUME TradeInv, NEW c \in commands, Trade!CommandStep(c) \/ Trade!PostFails(c)
    PROVE  TradeInv'
<1> USE DEF Trade!platform, Trade!runtime, Trade!files
<1>1. TradeTyped /\ c \in CommandType /\ c.order \in Orders /\ c.by \in Trade!Agents
  BY DEF TradeInv, TradeTyped, CommandType
<1>2. sent \subseteq NoticeType /\ hooks \subseteq HookType /\ commands \subseteq CommandType
  BY <1>1 DEF TradeTyped
<1>3. Trade!Ends(c) => commands' \subseteq CommandType
  BY <1>2 DEF Trade!Ends
<1>4. ASSUME NEW s \in {"post", "lock", "poll"}, Trade!Stage(c, s) PROVE commands' \subseteq CommandType
  BY <1>1, <1>2, <1>4 DEF Trade!Stage, CommandType
<1>5. CASE Trade!ChecksCancel(c) \/ Trade!ChecksComplete(c) \/ Trade!ChecksEscrow(c)
  <2>1. /\ UNCHANGED <<order, sent, hooks, views, tracked, edits, mine, overlapped>>
        /\ Trade!Ends(c) \/ Trade!Stage(c, "post") \/ Trade!Stage(c, "lock")
    BY <1>5 DEF Trade!ChecksCancel, Trade!ChecksComplete, Trade!ChecksEscrow, Trade!Checks
  <2>2. OrdersGoOn /\ commands' \subseteq CommandType
    BY <1>1, <1>3, <1>4, <2>1, OrdersSame
  <2>3. QED
    BY <1>2, <2>1, <2>2, FilesAlone
<1>6. CASE Trade!Locks(c)
  <2>1. /\ UNCHANGED <<sent, hooks, views, tracked, edits, mine, overlapped>>
        /\ Trade!Ends(c) \/ Trade!Stage(c, "post")
        /\ UNCHANGED order \/ order' = [order EXCEPT ![c.order].locked = TRUE]
    BY <1>6 DEF Trade!Locks
  <2>2. OrdersGoOn
    <3>1. CASE UNCHANGED order
      BY <1>1, <3>1, OrdersSame
    <3>2. CASE order' = [order EXCEPT ![c.order].locked = TRUE]
      <4>1. PICK r : r = [order[c.order] EXCEPT !.locked = TRUE]
        OBVIOUS
      <4>2. r \in OrderType /\ r.status = order[c.order].status
        <5>1. order[c.order] \in OrderType
          BY <1>1 DEF TradeTyped
        <5>2. QED
          BY <4>1, <5>1 DEF OrderType
      <4>3. order' = [order EXCEPT ![c.order] = r] /\ order \in [Orders -> OrderType] /\ c.order \in Orders
        BY <1>1, <3>2, <4>1 DEF TradeTyped
      <4>4. order' \in [Orders -> OrderType] /\ \A o \in Orders : order'[o].status = order[o].status
        BY <4>2, <4>3
      <4>5. QED
        BY <4>4 DEF OrdersGoOn, Closed
    <3>3. QED
      BY <2>1, <3>1, <3>2
  <2>3. commands' \subseteq CommandType
    BY <1>3, <1>4, <2>1
  <2>4. QED
    BY <1>2, <2>1, <2>2, <2>3, FilesAlone
<1>7. CASE Trade!Polls(c)
  <2>1. Trade!Command(c.by, "confirm", c.order, 0, TRUE, "user", NoHook) \in CommandType
    BY <1>1, CommandsType DEF CommandNames
  <2>2. /\ UNCHANGED <<order, sent, hooks, views, tracked, edits, mine, overlapped>>
        /\ commands' \subseteq CommandType
    BY <1>2, <1>3, <1>7, <2>1 DEF Trade!Polls
  <2>3. QED
    BY <1>1, <1>2, <2>2, OrdersSame, FilesAlone
<1>8. CASE Trade!Posts(c)
  <2>1. UNCHANGED <<hooks, views, tracked, mine, overlapped>> /\ commands' \subseteq CommandType
    BY <1>3, <1>4, <1>8 DEF Trade!Posts
  <2>2. CASE ~Trade!Takes(c)
    BY <1>1, <1>2, <1>8, <2>1, <2>2, OrdersSame, FilesAlone DEF Trade!Posts
  <2>3. CASE Trade!Takes(c)
    <3>1. Trade!Lands(c)
      BY <1>8, <2>3 DEF Trade!Posts
    <3>2. /\ OrdersGoOn /\ sent' \subseteq NoticeType
          /\ c.name = "order-cancel" => Closed(c.order)'
      BY <1>1, <2>3, <3>1, LandsGoesOn
    <3>3. \A e \in edits' \ edits :
              \/ e = Trade!Edit(c.by, c.order, "track", "command")
              \/ c.name = "order-cancel" /\ e = Trade!Edit(c.by, c.order, "untrack", "command")
      BY <1>8, <2>3 DEF Trade!Posts
    <3>4. /\ Trade!Edit(c.by, c.order, "track", "command") \in EditType
          /\ Trade!Edit(c.by, c.order, "untrack", "command") \in EditType
          /\ Trade!Edit(c.by, c.order, "track", "command").what = "track"
          /\ Trade!Edit(c.by, c.order, "untrack", "command").order = c.order
      BY <1>1 DEF Trade!Edit, EditType, TradeTyped
    <3>5. \A e \in edits' \ edits : e \in EditType /\ (e.what = "untrack" => Closed(e.order)')
      BY <3>2, <3>3, <3>4
    <3>6. QED
      BY <1>2, <2>1, <3>2, <3>5, FilesAlone
  <2>4. QED
    BY <2>2, <2>3
<1>9. CASE Trade!PostFails(c)
  <2>1. /\ UNCHANGED <<hooks, views, tracked, edits, mine, overlapped>> /\ commands' \subseteq CommandType
        /\ (Trade!Takes(c) /\ Trade!Lands(c)) \/ UNCHANGED <<order, sent>>
    BY <1>3, <1>9 DEF Trade!PostFails
  <2>2. OrdersGoOn /\ sent' \subseteq NoticeType
    BY <1>1, <1>2, <2>1, OrdersSame, LandsGoesOn
  <2>3. QED
    BY <1>2, <2>1, <2>2, FilesAlone
<1>10. QED
  BY <1>5, <1>6, <1>7, <1>8, <1>9 DEF Trade!CommandStep

LEMMA NoticeSteps ==
    ASSUME TradeInv, NEW n \in sent,
           Trade!NotifyCreated(n) \/ Trade!NotifyAccepted(n) \/ Trade!NotifyWork(n)
    PROVE  TradeInv'
<1> USE DEF Trade!platform, Trade!runtime, Trade!files
<1>1. TradeTyped /\ n.order \in Orders /\ n.to \in Trade!Agents /\ n.at \in Nat /\ n.count \in Nat /\ n.type \in NoticeTypes
  BY DEF TradeInv, TradeTyped, NoticeType
<1>2. sent \subseteq NoticeType /\ hooks \subseteq HookType /\ commands \subseteq CommandType
  BY <1>1 DEF TradeTyped
<1>3. CASE Trade!NotifyCreated(n)
  <2>1. \A f \in {"child", "timer"} :
            Trade!Command("executor", "accept", n.order, 0, TRUE, f, NoHook) \in CommandType
    BY <1>1, CommandsType DEF CommandNames, Trade!Agents
  <2>2. commands' \subseteq CommandType
    BY <1>1, <1>2, <1>3, <2>1, ChildStarts DEF Trade!NotifyCreated
  <2>3. UNCHANGED <<order, sent, hooks, views, tracked, edits, mine, overlapped>>
    BY <1>3 DEF Trade!NotifyCreated
  <2>4. QED
    BY <1>1, <1>2, <2>2, <2>3, OrdersSame, FilesAlone
<1>4. CASE Trade!NotifyAccepted(n)
  <2>1. Trade!Command(n.to, "milestone-feedback", n.order, 0, TRUE, "timer", NoHook) \in CommandType
    BY <1>1, CommandsType DEF CommandNames
  <2>2. commands' \subseteq CommandType
    BY <1>1, <1>2, <1>4, <2>1, ChildStarts DEF Trade!NotifyAccepted
  <2>3. UNCHANGED <<order, sent, hooks, views, tracked, edits, mine, overlapped>>
    BY <1>4 DEF Trade!NotifyAccepted
  <2>4. QED
    BY <1>1, <1>2, <2>2, <2>3, OrdersSame, FilesAlone
<1>5. CASE Trade!NotifyWork(n)
  <2>1. Trade!Hook(n.to, n.order, n.type, n.at, n.count) \in HookType
    BY <1>1 DEF Trade!Hook, HookType
  <2>2. hooks' \subseteq HookType
    BY <1>1, <1>2, <1>5, <2>1, HookQueued DEF Trade!NotifyWork
  <2>3. UNCHANGED <<order, sent, commands, views, tracked, edits, mine, overlapped>>
    BY <1>5 DEF Trade!NotifyWork
  <2>4. QED
    BY <1>1, <1>2, <2>2, <2>3, OrdersSame, FilesAlone
<1>6. QED
  BY <1>3, <1>4, <1>5

LEMMA ViewSteps ==
    ASSUME TradeInv, NEW v \in views, Trade!ViewStep(v)
    PROVE  TradeInv'
<1> USE DEF Trade!platform, Trade!runtime, Trade!files
<1>1. TradeTyped /\ v.order \in Orders /\ v.by \in Trade!Agents /\ v.at \in Nat /\ v.count \in Nat /\ v.ms \in MsStates
  BY DEF TradeInv, TradeTyped, ViewType
<1>2. sent \subseteq NoticeType /\ hooks \subseteq HookType /\ commands \subseteq CommandType
  BY <1>1 DEF TradeTyped
<1>3. CASE Trade!ReconcileOrder(v)
  <2>1. commands' \subseteq CommandType
    BY <1>1, <1>2, <1>3, ChildStarts DEF Trade!ReconcileOrder
  <2>2. UNCHANGED <<order, sent, hooks, tracked, mine, overlapped>> /\ views' \subseteq views
    BY <1>3 DEF Trade!ReconcileOrder
  <2>3. OrdersGoOn
    BY <1>1, <2>2, OrdersSame
  <2>4. \A e \in edits' \ edits : v.status \in Trade!Terminal /\ e = Trade!Edit(v.by, v.order, "untrack", "runtime")
    BY <1>3 DEF Trade!ReconcileOrder
  <2>5. Trade!Edit(v.by, v.order, "untrack", "runtime") \in EditType
    BY <1>1 DEF Trade!Edit, EditType, TradeTyped
  <2>6. v.status \in Trade!Terminal => Closed(v.order)'
    BY <1>1, <2>3 DEF TradeInv, ClosedViews, OrdersGoOn
  <2>7. \A e \in edits' \ edits : e \in EditType /\ Closed(e.order)'
    BY <2>4, <2>5, <2>6 DEF Trade!Edit
  <2>8. QED
    BY <1>2, <2>1, <2>2, <2>3, <2>7, FilesAlone
<1>4. CASE Trade!ReconcileMilestone(v)
  <2>1. Trade!Event(v) \in NoticeTypes
    BY <1>1 DEF Trade!Event, MsStates, NoticeTypes, Trade!Work
  <2>2. Trade!Hook(v.by, v.order, Trade!Event(v), v.at, v.count) \in HookType
    BY <1>1, <2>1 DEF Trade!Hook, HookType
  <2>3. /\ UNCHANGED <<order, sent, commands, tracked, edits, mine, overlapped>> /\ views' \subseteq views
        /\ hooks' \subseteq HookType
    BY <1>1, <1>4, <2>2, HookQueued DEF Trade!ReconcileMilestone
  <2>4. QED
    BY <1>1, <1>2, <2>3, OrdersSame, FilesAlone
<1>5. QED
  BY <1>3, <1>4 DEF Trade!ViewStep

LEMMA HookSteps ==
    ASSUME TradeInv, NEW h \in hooks, Trade!HookActs(h) \/ Trade!HookFails(h)
    PROVE  TradeInv'
<1> USE DEF Trade!platform, Trade!runtime, Trade!files
<1>1. TradeTyped /\ h \in HookType /\ h.order \in Orders /\ h.by \in Trade!Agents /\ h.at \in Nat
  BY DEF TradeInv, TradeTyped, HookType
<1>2. sent \subseteq NoticeType /\ hooks \subseteq HookType /\ commands \subseteq CommandType
  BY <1>1 DEF TradeTyped
<1>3. UNCHANGED <<order, sent, views, tracked, edits, mine, overlapped>> /\ hooks' \subseteq hooks
  BY DEF Trade!HookActs, Trade!HookFails
<1>4. \A n \in {"milestone-verify", "milestone-submit"}, p \in BOOLEAN :
          Trade!Command(h.by, n, h.order, h.at, p, "child", h) \in CommandType
  BY <1>1, CommandsType DEF CommandNames
<1>5. commands' \subseteq CommandType
  <2>1. CASE Trade!HookActs(h)
    BY <1>1, <1>2, <1>4, <2>1, StartsType DEF Trade!HookActs
  <2>2. CASE Trade!HookFails(h)
    BY <1>2, <2>2 DEF Trade!HookFails
  <2>3. QED
    BY <2>1, <2>2
<1>6. QED
  BY <1>1, <1>2, <1>3, <1>5, OrdersSame, FilesAlone

LEMMA OrderSteps ==
    ASSUME TradeInv, NEW o \in Orders,
           Trade!UserOrders(o) \/ Trade!UserRuns(o) \/ Trade!Expires(o) \/ \E a \in Trade!Agents : Trade!Fetches(a, o)
    PROVE  TradeInv'
<1> USE DEF Trade!platform, Trade!runtime, Trade!files
<1>1. TradeTyped /\ order[o] \in OrderType
  BY DEF TradeInv, TradeTyped
<1>2. sent \subseteq NoticeType /\ hooks \subseteq HookType /\ commands \subseteq CommandType
  BY <1>1 DEF TradeTyped
<1>3. CASE Trade!UserOrders(o)
  <2>1. \A n \in {"order", "trade-task"} :
            Trade!Command("requester", n, o, 0, TRUE, "user", NoHook) \in CommandType
    BY CommandsType DEF CommandNames, Trade!Agents
  <2>2. /\ UNCHANGED <<order, sent, hooks, views, tracked, edits, mine, overlapped>>
        /\ commands' \subseteq CommandType
    BY <1>2, <1>3, <2>1 DEF Trade!UserOrders
  <2>3. QED
    BY <1>1, <1>2, <2>2, OrdersSame, FilesAlone
<1>4. CASE Trade!UserRuns(o)
  <2>1. /\ UNCHANGED <<order, sent, hooks, views, tracked, edits, mine, overlapped>>
        /\ commands' \subseteq CommandType
    BY <1>1, <1>2, <1>4, TypedCommands DEF Trade!UserRuns
  <2>2. QED
    BY <1>1, <1>2, <2>1, OrdersSame, FilesAlone
<1>5. CASE Trade!Expires(o)
  <2>1. /\ UNCHANGED <<sent, hooks, views, commands, tracked, edits, mine, overlapped>>
        /\ order' = [order EXCEPT ![o].status = "expired"] /\ ~Closed(o)
    BY <1>5 DEF Trade!Expires, Trade!Is, Closed, Trade!Terminal
  <2>2. [order[o] EXCEPT !.status = "expired"] \in OrderType
    BY <1>1 DEF OrderType, Trade!Statuses, Trade!Terminal
  <2>3. order' = [order EXCEPT ![o] = [order[o] EXCEPT !.status = "expired"]]
    BY <1>1, <2>1 DEF TradeTyped
  <2>4. OrdersGoOn
    BY <1>1, <2>1, <2>2, <2>3, OrderChanges
  <2>5. QED
    BY <1>2, <2>1, <2>4, FilesAlone
<1>6. ASSUME NEW a \in Trade!Agents, Trade!Fetches(a, o) PROVE TradeInv'
  <2> PICK v : v = [by |-> a, order |-> o, status |-> order[o].status, ms |-> order[o].ms,
                    at |-> order[o].at, count |-> order[o].count]
    OBVIOUS
  <2>1. /\ UNCHANGED <<order, sent, hooks, commands, tracked, edits, mine, overlapped>>
        /\ views' = views \cup {v}
    BY <1>6 DEF Trade!Fetches
  <2>2. v \in ViewType
    BY <1>1 DEF ViewType, OrderType
  <2>3. v.status \in Trade!Terminal => Closed(v.order)'
    BY <2>1 DEF Closed
  <2>4. OrdersGoOn
    BY <1>1, <2>1, OrdersSame
  <2>5. \A w \in views' \ views : w \in ViewType /\ (w.status \in Trade!Terminal => Closed(w.order)')
    BY <2>1, <2>2, <2>3
  <2>6. QED
    BY <1>2, <2>1, <2>4, <2>5, FilesAlone
<1>7. QED
  BY <1>3, <1>4, <1>5, <1>6

LEMMA RestartStep ==
    ASSUME TradeInv, NEW a \in Trade!Agents, Trade!Restart(a)
    PROVE  TradeInv'
<1>1. TradeTyped
  BY DEF TradeInv
<1>2. /\ UNCHANGED <<order, sent, tracked, mine, overlapped>>
      /\ hooks' \subseteq hooks /\ views' \subseteq views /\ edits' \subseteq edits
      /\ \A d \in commands' : \E c \in commands : d = c \/ d = [c EXCEPT !.from = "user", !.of = NoHook]
  BY DEF Trade!Restart, Trade!platform
<1>3. commands' \subseteq CommandType
  <2>1. \A c \in CommandType : [c EXCEPT !.from = "user", !.of = NoHook] \in CommandType
    BY DEF CommandType
  <2>2. QED
    BY <1>1, <1>2, <2>1 DEF TradeTyped
<1>4. sent' \subseteq NoticeType /\ hooks' \subseteq HookType
  BY <1>1, <1>2 DEF TradeTyped
<1>5. QED
  BY <1>1, <1>2, <1>3, <1>4, OrdersSame, FilesAlone

LEMMA TradeStep == TradeInv /\ [Trade!Next]_(Trade!vars) => TradeInv'
<1> SUFFICES ASSUME TradeInv, [Trade!Next]_(Trade!vars) PROVE TradeInv'
  OBVIOUS
<1>1. CASE Trade!PolicyEdited \/ UNCHANGED Trade!vars
  <2>1. UNCHANGED <<order, sent, hooks, views, commands, tracked, edits, mine, overlapped>>
    BY <1>1 DEF Trade!PolicyEdited, Trade!vars, Trade!platform, Trade!runtime, Trade!files
  <2>2. TradeTyped
    BY DEF TradeInv
  <2>3. OrdersGoOn
    BY <2>1, <2>2, OrdersSame
  <2>4. QED
    BY <2>1, <2>2, <2>3, FilesAlone DEF TradeTyped
<1>2. CASE Trade!Next
  BY <1>1, <1>2, OrderSteps, CommandSteps, SaveKeepsTracked, CutKeepsTracked, NoticeSteps, RestartStep,
     ViewSteps, HookSteps DEF Trade!Next
<1>3. QED
  BY <1>1, <1>2

(* For any orders, agents and budgets of commands, notifications and       *)
(* faults, an order an agent tracks stays in its file until it is closed,  *)
(* unless another process wrote the file between the read and the write of *)
(* the one that lost it, or a write was cut short.                         *)
THEOREM TrackedIsKept == Trade!Spec => []KeptTracked
<1>1. TradeInv => KeptTracked
  BY DEF TradeInv, KeptTracked, Agents, Terminal, Trade!KeptTracked, Trade!Agents, Trade!Terminal
<1>2. QED
  BY <1>1, TradeInit, TradeStep, PTL DEF Trade!Spec

-----------------------------------------------------------------------------
(* AgentHooks, in which TaskRuntime's Tasks are those of the hooks about   *)
(* tasks, for any number of hooks, slots, retries and callbacks.           *)
CONSTANTS MaxAttempts, MaxCallbacks

VARIABLES
    role, ms, answered, activeRecoveryKeys, hooked, pendingAgentCallbacks, persisted,
    inflight, asking, sessions, calls, orphans

Agent == INSTANCE AgentHooks

HookRecord ==
    [pc : Agent!Waiting \cup {"none", "queued", "done"}, on : Orders \cup Tasks \cup {"none"}, round : Int,
     via : {"none", "notify", "reconcile"}, verdict : Agent!Verdicts, attempt : Int, acted : BOOLEAN]

CallRecord ==
    [pc : {"none", "guard", "child", "post", "done"}, of : Agent!HookIds \cup {0},
     hook : Agent!HookIds \cup {0}, verdict : Agent!Verdicts]

AgentTyped ==
    /\ role \in [Orders -> {"requester", "executor"}]
    /\ ms \in [Orders -> [status : {"pending", "submitted", "rejected", "verified"}, round : Int]]
    /\ hooks \in [Agent!HookIds -> HookRecord] /\ calls \in [Agent!CallIds -> CallRecord]
    /\ asking \subseteq Agent!HookIds /\ sessions \subseteq Agent!HookIds
    /\ reboots \in Nat /\ excused \subseteq Orders /\ strays \subseteq Agent!HookIds

(* What is lined up in queue `q` and holds one of `a` slots, by hooks `f`. *)
Lined(q, a, f) ==
    /\ q \in Seq(Agent!HookIds)
    /\ \A i, j \in 1..Len(q) : q[i] = q[j] => i = j
    /\ \A h \in Agent!HookIds : f[h].pc = "queued" <=> \E i \in 1..Len(q) : q[i] = h
    /\ a \in Nat /\ a <= MAX_HOOK_CONCURRENCY
    /\ a = Cardinality({h \in Agent!HookIds : f[h].pc \in Agent!Waiting})

SlotsKept ==
    /\ Lined(hookQueue, activeHookWorkers, hooks)
    /\ hookQueue # <<>> => activeHookWorkers = MAX_HOOK_CONCURRENCY

(* Two callbacks are for one hook only if they are for one key.            *)
TablesSound ==
    /\ \A k \in DOMAIN pendingAgentCallbacks :
          LET w == pendingAgentCallbacks[k] IN
          w \in Agent!HookIds /\ hooks[w].pc # "none" /\ Agent!dedupeKey(w) = k
    /\ \A n \in Agent!CallIds :
          LET w == calls[n].hook
              s == calls[n].of IN
          w # 0 => s # 0 /\ hooks[w].pc # "none" /\ hooks[s].pc # "none" /\ Agent!dedupeKey(w) = Agent!dedupeKey(s)

(* Who calls back has a session, and had none while it was asked for.      *)
SessionsSound ==
    /\ \A h \in asking \cup sessions :
          hooks[h].pc \notin {"none", "queued", "start"} /\ (Agent!Reviews(h) \/ hooks[h].on \in Tasks)
    /\ asking \cap sessions = {}
    /\ \A n \in Agent!CallIds : calls[n].pc \in {"guard", "child", "post"} => calls[n].of \in sessions
    /\ \A n \in Agent!CallIds : calls[n].pc \in {"guard", "child"} => Agent!Reviews(calls[n].of)
    /\ \A n \in Agent!CallIds : calls[n].pc = "post" => hooks[calls[n].of].on \in Tasks
    /\ \A h \in Agent!HookIds : hooks[h].pc \in {"guard", "child"} => hooks[h].on \in Orders

(* One hook of a stage is live, and its key is taken.                      *)
KeysHeld ==
    /\ \A h \in Agent!Live : Agent!recoveryKey(h) \in activeRecoveryKeys
    /\ \A h, i \in Agent!Live : Agent!recoveryKey(h) = Agent!recoveryKey(i) => h = i

ActsFor(n, h) == calls[n].pc = "child" /\ calls[n].of = h

(* A hook that may still act, or whose action is under way.                *)
InCharge(h) ==
    \/ h \in Agent!Live /\ ~hooks[h].acted
    \/ hooks[h].pc = "child"
    \/ \E n \in Agent!CallIds : ActsFor(n, h)

Plain(h) == hooks[h].on \in Orders \ excused

(* Of an order on which nothing else acted, a hook acts once, while it     *)
(* waits for that, and on the round it was queued for.                     *)
OneActs ==
    reboots = 0 => \A h \in Agent!HookIds : Plain(h) =>
        /\ \A n \in Agent!CallIds : ActsFor(n, h) =>
              /\ hooks[h].pc = "wait" /\ hooks[h].acted
              /\ \A m \in Agent!CallIds : ActsFor(m, h) => m = n
        /\ InCharge(h) =>
              /\ hooks[h].round = ms[hooks[h].on].round
              /\ role[hooks[h].on] = "requester" => ms[hooks[h].on].status = "submitted"

StraysKnown ==
    /\ \A h \in strays : hooks[h].pc # "none" /\ (hooks[h].on \in excused \/ reboots > 0)
    /\ \A c \in orphans :
          reboots > 0 /\ c.hook \in Agent!HookIds /\ hooks[c.hook].pc # "none" /\ hooks[c.hook].on \in Orders

AgentInv ==
    AgentTyped /\ SlotsKept /\ TablesSound /\ SessionsSound /\ KeysHeld /\ OneActs /\ StraysKnown

-----------------------------------------------------------------------------
(* The queue of hooks and its slots.                                       *)

RunningIn(f) == {h \in Agent!HookIds : f[h].pc \in Agent!Waiting}
InQueue(q) == {q[i] : i \in 1..Len(q)}

LEMMA RunningFinite ==
    ASSUME Agent!ConstantsFit, NEW f
    PROVE  IsFiniteSet(RunningIn(f)) /\ Cardinality(RunningIn(f)) \in Nat
<1>1. IsFiniteSet(Agent!HookIds)
  BY FS_Interval DEF Agent!ConstantsFit, Agent!HookIds
<1>2. QED
  BY <1>1, FS_Subset, FS_CardinalityType DEF RunningIn

(* A queue that starts with `k` distinct hooks holds `k` of them.          *)
LEMMA PrefixCounts ==
    ASSUME NEW S, NEW q \in Seq(S), NEW k \in 0..Len(q), \A i, j \in 1..Len(q) : q[i] = q[j] => i = j,
           NEW T, \A t : t \in T <=> \E i \in 1..k : q[i] = t
    PROVE  IsFiniteSet(T) /\ Cardinality(T) = k
<1> DEFINE f == [i \in 1..k |-> q[i]]
<1>1. f \in [1..k -> T] /\ \A i \in 1..k : f[i] = q[i]
  OBVIOUS
<1>2. \A t \in T : \E i \in 1..k : f[i] = t
  OBVIOUS
<1>3. f \in Injection(1..k, T)
  BY <1>1 DEF Injection, IsInjective
<1>4. f \in Surjection(1..k, T)
  BY <1>1, <1>2 DEF Surjection
<1>5. f \in Bijection(1..k, T)
  BY <1>3, <1>4 DEF Bijection
<1>6. IsFiniteSet(1..k) /\ Cardinality(1..k) = k
  BY FS_Interval
<1> HIDE DEF f
<1>7. QED
  BY <1>5, <1>6, FS_Bijection DEF ExistsBijection

(* processHookQueue takes hooks from the queue while slots are free.       *)
LEMMA ProcessKeeps ==
    ASSUME Agent!ConstantsFit, NEW q, NEW a, NEW f \in [Agent!HookIds -> HookRecord], Lined(q, a, f),
           Agent!processHookQueue(q, a, f)
    PROVE  /\ SlotsKept' /\ hooks' \in [Agent!HookIds -> HookRecord]
           /\ \A h \in Agent!HookIds :
                 hooks'[h] = f[h] \/ (f[h].pc = "queued" /\ hooks'[h] = [f[h] EXCEPT !.pc = "start"])
<1> DEFINE k == Agent!Starts(q, a)
           started == {q[i] : i \in 1..k}
           rest == SubSeq(q, k + 1, Len(q))
<1>1. q \in Seq(Agent!HookIds) /\ Len(q) \in Nat /\ a \in Nat /\ MAX_HOOK_CONCURRENCY \in Nat \ {0}
  BY DEF Lined, Agent!ConstantsFit
<1>2. k \in 0..Len(q) /\ a + k <= MAX_HOOK_CONCURRENCY /\ (k < Len(q) => a + k = MAX_HOOK_CONCURRENCY)
  BY <1>1 DEF Agent!Starts, Lined
<1>3. /\ hookQueue' = rest /\ activeHookWorkers' = a + k
      /\ hooks' = [h \in Agent!HookIds |-> IF h \in started THEN [f[h] EXCEPT !.pc = "start"] ELSE f[h]]
  BY DEF Agent!processHookQueue
<1> HIDE DEF k
<1>4. started \subseteq Agent!HookIds /\ \A h \in started : f[h].pc = "queued"
  BY <1>1, <1>2 DEF Lined
<1>5. /\ hooks' \in [Agent!HookIds -> HookRecord]
      /\ \A h \in Agent!HookIds :
            hooks'[h] = f[h] \/ (f[h].pc = "queued" /\ hooks'[h] = [f[h] EXCEPT !.pc = "start"])
      /\ \A h \in Agent!HookIds : hooks'[h].pc = IF h \in started THEN "start" ELSE f[h].pc
  <2>1. \A h \in Agent!HookIds : f[h] \in HookRecord
    OBVIOUS
  <2>2. \A r \in HookRecord : [r EXCEPT !.pc = "start"] \in HookRecord /\ [r EXCEPT !.pc = "start"].pc = "start"
    BY DEF HookRecord, Agent!Waiting
  <2> HIDE DEF started
  <2>3. QED
    BY <1>3, <1>4, <2>1, <2>2
<1>6. /\ rest \in Seq(Agent!HookIds) /\ Len(rest) = Len(q) - k
      /\ \A i \in 1..Len(rest) : rest[i] = q[i + k]
  <2>1. k + 1 \in 1..Len(q) + 1 /\ Len(q) \in k..Len(q) /\ k \in Nat
    BY <1>1, <1>2
  <2>2. \A i \in 1..Len(q) - k : i + k \in 1..Len(q) /\ (k + 1) + i - 1 = i + k
    BY <1>1, <2>1
  <2>3. rest = [i \in 1..Len(q) - k |-> q[i + k]]
    BY <1>1, <2>1, <2>2, SMTT(20)
  <2>4. Len(q) - k \in Nat /\ \A i \in 1..Len(q) - k : q[i + k] \in Agent!HookIds
    BY <1>1, <2>1, <2>2
  <2> HIDE DEF rest
  <2>5. rest \in Seq(Agent!HookIds) /\ Len(rest) = Len(q) - k
    BY <2>3, <2>4
  <2>6. QED
    BY <2>3, <2>5
<1>7. \A i, j \in 1..Len(rest) : rest[i] = rest[j] => i = j
  <2> SUFFICES ASSUME NEW i \in 1..Len(rest), NEW j \in 1..Len(rest), rest[i] = rest[j] PROVE i = j
    OBVIOUS
  <2>1. i + k \in 1..Len(q) /\ j + k \in 1..Len(q) /\ q[i + k] = q[j + k]
    BY <1>1, <1>2, <1>6
  <2>2. i + k = j + k
    BY <2>1 DEF Lined
  <2>3. QED
    BY <1>1, <1>2, <1>6, <2>2
<1>8. \A h \in Agent!HookIds : hooks'[h].pc = "queued" <=> \E i \in 1..Len(rest) : rest[i] = h
  <2> TAKE h \in Agent!HookIds
  <2>1. f[h].pc = "queued" <=> \E i \in 1..Len(q) : q[i] = h
    BY DEF Lined
  <2>2. CASE h \in started
    <3>1. PICK i \in 1..k : q[i] = h
      BY <2>2
    <3>2. ASSUME NEW j \in 1..Len(rest), rest[j] = h PROVE FALSE
      <4>1. i \in 1..Len(q) /\ j + k \in 1..Len(q) /\ q[j + k] = q[i]
        BY <1>1, <1>2, <1>6, <3>1, <3>2
      <4>2. j + k = i
        BY <4>1 DEF Lined
      <4>3. QED
        BY <1>1, <1>2, <1>6, <3>1, <4>2
    <3>3. hooks'[h].pc = "start"
      BY <1>5, <2>2
    <3>4. QED
      BY <3>2, <3>3
  <2>3. CASE h \notin started
    <3>1. hooks'[h].pc = f[h].pc
      BY <1>5, <2>3
    <3>2. ASSUME NEW i \in 1..Len(q), q[i] = h PROVE \E j \in 1..Len(rest) : rest[j] = h
      <4>1. i \notin 1..k
        BY <2>3, <3>2
      <4>2. i - k \in 1..Len(rest) /\ rest[i - k] = h
        BY <1>1, <1>2, <1>6, <3>2, <4>1
      <4>3. QED
        BY <4>2
    <3>3. ASSUME NEW j \in 1..Len(rest), rest[j] = h PROVE \E i \in 1..Len(q) : q[i] = h
      <4>1. j + k \in 1..Len(q)
        BY <1>1, <1>2, <1>6
      <4>2. q[j + k] = h
        BY <1>6, <3>3
      <4>3. QED
        BY <4>1, <4>2
    <3>4. QED
      BY <2>1, <3>1, <3>2, <3>3
  <2>4. QED
    BY <2>2, <2>3
<1>9. a + k = Cardinality(RunningIn(hooks'))
  <2>1. RunningIn(hooks') = RunningIn(f) \cup started
    BY <1>4, <1>5 DEF RunningIn, Agent!Waiting
  <2>2. RunningIn(f) \cap started = {}
    BY <1>4 DEF RunningIn, Agent!Waiting
  <2>3. IsFiniteSet(started) /\ Cardinality(started) = k
    <3>1. \A t : t \in started <=> \E i \in 1..k : q[i] = t
      OBVIOUS
    <3> HIDE DEF started
    <3>2. QED
      BY <1>1, <1>2, <3>1, PrefixCounts DEF Lined
  <2>4. IsFiniteSet(RunningIn(f)) /\ Cardinality(RunningIn(f)) = a
    BY RunningFinite DEF Lined, RunningIn
  <2> HIDE DEF started
  <2>5. Cardinality(RunningIn(f) \cup started) = a + k - Cardinality({})
    BY <2>2, <2>3, <2>4, FS_Union
  <2>6. QED
    BY <1>1, <1>2, <2>1, <2>5, FS_EmptySet
<1>10. a + k \in Nat
  BY <1>1, <1>2
<1>11. rest # <<>> => a + k = MAX_HOOK_CONCURRENCY
  BY <1>1, <1>2, <1>6
<1> HIDE DEF rest, started
<1>12. Lined(hookQueue, activeHookWorkers, hooks)'
  BY <1>2, <1>3, <1>6, <1>7, <1>8, <1>9, <1>10 DEF Lined, RunningIn
<1>13. QED
  BY <1>3, <1>5, <1>11, <1>12 DEF SlotsKept

LEMMA SameCardinality == \A S : Agent!Cardinality(S) = Cardinality(S)
BY DEF Agent!Cardinality, Cardinality

LEMMA SlotsAreHeld == ASSUME Agent!ConstantsFit, SlotsKept PROVE Agent!SlotsHeld
<1> DEFINE T == {h \in Agent!HookIds : hooks[h].pc = "queued"}
<1>1. hookQueue \in Seq(Agent!HookIds) /\ Len(hookQueue) \in 0..Len(hookQueue)
  BY DEF SlotsKept, Lined
<1>2. \A t : t \in T <=> \E i \in 1..Len(hookQueue) : hookQueue[i] = t
  BY <1>1 DEF SlotsKept, Lined
<1> HIDE DEF T
<1>3. Cardinality(T) = Len(hookQueue)
  BY <1>1, <1>2, PrefixCounts DEF SlotsKept, Lined
<1>4. QED
  BY <1>3, SameCardinality DEF T, Agent!SlotsHeld, Agent!Running, SlotsKept, Lined

(* All hooks but `h` are as they were, or have left the queue.             *)
OthersSame(h) ==
    \A x \in Agent!HookIds \ {h} :
        hooks'[x] = hooks[x] \/ (hooks[x].pc = "queued" /\ hooks'[x] = [hooks[x] EXCEPT !.pc = "start"])

LEMMA QueuedShape ==
    ASSUME Agent!ConstantsFit, AgentTyped, SlotsKept, NEW h \in Agent!HookIds, hooks[h].pc = "none",
           NEW on \in Orders \cup Tasks, NEW r \in Int, NEW via \in {"notify", "reconcile"},
           Agent!Queued(h, on, r, via)
    PROVE  /\ SlotsKept' /\ hooks' \in [Agent!HookIds -> HookRecord] /\ OthersSame(h)
           /\ hooks'[h].pc \in {"queued", "start"} /\ ~hooks'[h].acted
           /\ hooks'[h].on = on /\ hooks'[h].round = r /\ hooks'[h].via = via
<1> DEFINE new == [Agent!NoHook EXCEPT !.pc = "queued", !.on = on, !.round = r, !.via = via]
           f == [hooks EXCEPT ![h] = new]
           q == Append(hookQueue, h)
<1>1. /\ new \in HookRecord /\ new.pc = "queued" /\ new.on = on /\ new.round = r /\ new.via = via
      /\ ~new.acted
  <2>1. PICK a : a = [Agent!NoHook EXCEPT !.pc = "queued"]
    OBVIOUS
  <2>2. PICK b : b = [a EXCEPT !.on = on]
    OBVIOUS
  <2>3. PICK c : c = [b EXCEPT !.round = r]
    OBVIOUS
  <2>4. new = [c EXCEPT !.via = via]
    BY <2>1, <2>2, <2>3
  <2>5. a \in HookRecord /\ a.pc = "queued" /\ ~a.acted
    <3>1. Agent!NoHook \in HookRecord /\ ~Agent!NoHook.acted
      BY DEF HookRecord, Agent!NoHook, Agent!Verdicts
    <3>2. QED
      BY <2>1, <3>1 DEF HookRecord
  <2>6. b \in HookRecord /\ b.pc = "queued" /\ b.on = on /\ ~b.acted
    BY <2>2, <2>5 DEF HookRecord
  <2>7. c \in HookRecord /\ c.pc = "queued" /\ c.on = on /\ c.round = r /\ ~c.acted
    BY <2>3, <2>6 DEF HookRecord
  <2> HIDE DEF new
  <2>8. QED
    BY <2>4, <2>7 DEF HookRecord
<1> HIDE DEF new
<1>2. /\ f \in [Agent!HookIds -> HookRecord] /\ f[h] = new
      /\ \A x \in Agent!HookIds \ {h} : f[x] = hooks[x]
  BY <1>1 DEF AgentTyped
<1>3. /\ hookQueue \in Seq(Agent!HookIds) /\ q \in Seq(Agent!HookIds) /\ Len(q) = Len(hookQueue) + 1
      /\ q[Len(q)] = h /\ \A i \in 1..Len(hookQueue) : q[i] = hookQueue[i]
  BY DEF SlotsKept, Lined
<1>4. \A i \in 1..Len(hookQueue) : hookQueue[i] # h
  BY DEF SlotsKept, Lined
<1> HIDE DEF f, q
<1>5. Lined(q, activeHookWorkers, f)
  <2>1. \A i, j \in 1..Len(q) : q[i] = q[j] => i = j
    BY <1>3, <1>4 DEF SlotsKept, Lined
  <2>2. \A x \in Agent!HookIds : f[x].pc = "queued" <=> \E i \in 1..Len(q) : q[i] = x
    <3> TAKE x \in Agent!HookIds
    <3>1. Len(q) \in 1..Len(q)
      BY <1>3
    <3>2. CASE x = h
      BY <1>1, <1>2, <1>3, <3>1, <3>2
    <3>3. CASE x # h
      <4>1. f[x].pc = "queued" <=> \E i \in 1..Len(hookQueue) : hookQueue[i] = x
        BY <1>2, <3>3 DEF SlotsKept, Lined
      <4>2. QED
        BY <1>3, <3>3, <4>1
    <3>4. QED
      BY <3>2, <3>3
  <2>3. RunningIn(f) = RunningIn(hooks)
    BY <1>1, <1>2 DEF RunningIn, Agent!Waiting
  <2>4. QED
    BY <1>3, <2>1, <2>2, <2>3 DEF SlotsKept, Lined, RunningIn
<1>6. Agent!processHookQueue(q, activeHookWorkers, f)
  BY DEF Agent!Queued, f, q, new
<1>7. /\ SlotsKept' /\ hooks' \in [Agent!HookIds -> HookRecord]
      /\ \A x \in Agent!HookIds :
            hooks'[x] = f[x] \/ (f[x].pc = "queued" /\ hooks'[x] = [f[x] EXCEPT !.pc = "start"])
  BY <1>2, <1>5, <1>6, ProcessKeeps
<1>8. OthersSame(h)
  BY <1>2, <1>7 DEF OthersSame
<1>9. hooks'[h] = new \/ hooks'[h] = [new EXCEPT !.pc = "start"]
  BY <1>2, <1>7
<1>10. LET s == [new EXCEPT !.pc = "start"] IN
       s.pc = "start" /\ s.on = on /\ s.round = r /\ s.via = via /\ ~s.acted
  BY <1>1 DEF HookRecord
<1>11. QED
  BY <1>1, <1>7, <1>8, <1>9, <1>10

(* A hook that is over.                                                    *)
Over(h) == [hooks[h] EXCEPT !.pc = "done", !.attempt = 0, !.verdict = "none", !.acted = FALSE]

LEMMA OverType ==
    ASSUME AgentTyped, NEW h \in Agent!HookIds
    PROVE  /\ Over(h) \in HookRecord /\ Over(h).pc = "done" /\ ~Over(h).acted
           /\ Over(h).on = hooks[h].on /\ Over(h).round = hooks[h].round /\ Over(h).via = hooks[h].via
<1>1. hooks[h] \in HookRecord
  BY DEF AgentTyped
<1>2. PICK a : a = [hooks[h] EXCEPT !.pc = "done"]
  OBVIOUS
<1>3. PICK b : b = [a EXCEPT !.attempt = 0]
  OBVIOUS
<1>4. PICK c : c = [b EXCEPT !.verdict = "none"]
  OBVIOUS
<1>5. Over(h) = [c EXCEPT !.acted = FALSE]
  BY <1>2, <1>3, <1>4 DEF Over
<1> DEFINE Ends(r) == /\ r \in HookRecord /\ r.pc = "done"
                      /\ r.on = hooks[h].on /\ r.round = hooks[h].round /\ r.via = hooks[h].via
<1>6. Ends(a)
  BY <1>1, <1>2 DEF HookRecord
<1>7. Ends(b)
  BY <1>3, <1>6 DEF HookRecord
<1>8. Ends(c)
  BY <1>4, <1>7 DEF HookRecord, Agent!Verdicts
<1>9. QED
  BY <1>5, <1>8 DEF HookRecord

LEMMA FinishShape ==
    ASSUME Agent!ConstantsFit, AgentTyped, SlotsKept, NEW h \in Agent!HookIds, hooks[h].pc \in Agent!Waiting,
           Agent!finishHook(h)
    PROVE  /\ SlotsKept' /\ hooks' \in [Agent!HookIds -> HookRecord] /\ OthersSame(h)
           /\ hooks'[h] = Over(h)
<1> DEFINE f == [hooks EXCEPT ![h] = Over(h)]
<1>1. Over(h) \in HookRecord /\ Over(h).pc = "done"
  BY OverType
<1>2. /\ f \in [Agent!HookIds -> HookRecord] /\ f[h] = Over(h)
      /\ \A x \in Agent!HookIds \ {h} : f[x] = hooks[x]
  BY <1>1 DEF AgentTyped
<1>3. Agent!Ended(h) = f
  BY DEF Agent!Ended, Over
<1> HIDE DEF f
<1>4. Lined(hookQueue, activeHookWorkers - 1, f)
  <2>1. RunningIn(f) = RunningIn(hooks) \ {h} /\ h \in RunningIn(hooks)
    BY <1>1, <1>2 DEF RunningIn, Agent!Waiting
  <2>2. IsFiniteSet(RunningIn(hooks)) /\ Cardinality(RunningIn(hooks)) = activeHookWorkers
    BY RunningFinite DEF SlotsKept, Lined, RunningIn
  <2>3. Cardinality(RunningIn(f)) = activeHookWorkers - 1 /\ Cardinality(RunningIn(f)) \in Nat
    BY <2>1, <2>2, FS_RemoveElement, RunningFinite
  <2>4. \A x \in Agent!HookIds : f[x].pc = "queued" <=> hooks[x].pc = "queued"
    BY <1>1, <1>2 DEF Agent!Waiting
  <2>5. MAX_HOOK_CONCURRENCY \in Nat /\ activeHookWorkers \in Nat /\ activeHookWorkers <= MAX_HOOK_CONCURRENCY
    BY DEF SlotsKept, Lined, Agent!ConstantsFit
  <2>6. QED
    BY <2>3, <2>4, <2>5 DEF SlotsKept, Lined, RunningIn
<1>5. Agent!processHookQueue(hookQueue, activeHookWorkers - 1, f)
  BY <1>3 DEF Agent!finishHook
<1>6. /\ SlotsKept' /\ hooks' \in [Agent!HookIds -> HookRecord]
      /\ \A x \in Agent!HookIds :
            hooks'[x] = f[x] \/ (f[x].pc = "queued" /\ hooks'[x] = [f[x] EXCEPT !.pc = "start"])
  BY <1>2, <1>4, <1>5, ProcessKeeps
<1>7. QED
  BY <1>1, <1>2, <1>6 DEF OthersSame

(* One hook changes and neither takes nor gives back a slot.               *)
LEMMA UpdateShape ==
    ASSUME AgentTyped, SlotsKept, UNCHANGED <<hookQueue, activeHookWorkers>>,
           NEW h \in Agent!HookIds, NEW r \in HookRecord, hooks' = [hooks EXCEPT ![h] = r],
           r.pc = "queued" <=> hooks[h].pc = "queued",
           r.pc \in Agent!Waiting <=> hooks[h].pc \in Agent!Waiting
    PROVE  SlotsKept' /\ hooks' \in [Agent!HookIds -> HookRecord] /\ OthersSame(h) /\ hooks'[h] = r
<1>1. /\ hooks' \in [Agent!HookIds -> HookRecord] /\ hooks'[h] = r
      /\ \A x \in Agent!HookIds \ {h} : hooks'[x] = hooks[x]
  BY DEF AgentTyped
<1>2. RunningIn(hooks') = RunningIn(hooks)
  BY <1>1 DEF RunningIn
<1>3. \A x \in Agent!HookIds : hooks'[x].pc = "queued" <=> hooks[x].pc = "queued"
  BY <1>1
<1>4. QED
  BY <1>1, <1>2, <1>3 DEF OthersSame, SlotsKept, Lined, RunningIn

LEMMA NoShape ==
    ASSUME AgentTyped, SlotsKept, UNCHANGED <<hooks, hookQueue, activeHookWorkers>>
    PROVE  SlotsKept' /\ hooks' \in [Agent!HookIds -> HookRecord] /\ \A h : OthersSame(h)
BY DEF AgentTyped, SlotsKept, Lined, OthersSame

-----------------------------------------------------------------------------
(* What a hook is about never changes, and none begins twice.              *)
GoOn ==
    \A x \in Agent!HookIds : hooks[x].pc # "none" =>
        /\ hooks'[x].pc # "none" /\ hooks'[x].on = hooks[x].on
        /\ hooks'[x].round = hooks[x].round /\ hooks'[x].via = hooks[x].via
        /\ hooks[x].pc \notin {"queued", "start"} => hooks'[x].pc \notin {"queued", "start"}

LEMMA Going ==
    ASSUME AgentTyped, NEW h, OthersSame(h),
           h \in Agent!HookIds /\ hooks[h].pc # "none" =>
               /\ hooks'[h].on = hooks[h].on /\ hooks'[h].round = hooks[h].round /\ hooks'[h].via = hooks[h].via
               /\ hooks'[h].pc \notin {"none", "queued", "start"}
    PROVE  GoOn
<1> SUFFICES ASSUME NEW x \in Agent!HookIds, hooks[x].pc # "none"
             PROVE  /\ hooks'[x].pc # "none" /\ hooks'[x].on = hooks[x].on
                    /\ hooks'[x].round = hooks[x].round /\ hooks'[x].via = hooks[x].via
                    /\ hooks[x].pc \notin {"queued", "start"} => hooks'[x].pc \notin {"queued", "start"}
  BY DEF GoOn
<1>1. CASE x = h
  BY <1>1
<1>2. CASE x # h /\ hooks'[x] = hooks[x]
  BY <1>2
<1>3. CASE x # h /\ hooks[x].pc = "queued" /\ hooks'[x] = [hooks[x] EXCEPT !.pc = "start"]
  <2>1. hooks[x] \in HookRecord
    BY DEF AgentTyped
  <2>2. QED
    BY <1>3, <2>1 DEF HookRecord
<1>4. QED
  BY <1>1, <1>2, <1>3 DEF OthersSame

LEMMA TablesKept ==
    ASSUME AgentTyped, TablesSound, GoOn,
           \A k \in DOMAIN pendingAgentCallbacks' :
              \/ k \in DOMAIN pendingAgentCallbacks /\ pendingAgentCallbacks'[k] = pendingAgentCallbacks[k]
              \/ LET w == pendingAgentCallbacks'[k] IN
                 w \in Agent!HookIds /\ hooks[w].pc # "none" /\ Agent!dedupeKey(w) = k,
           \A n \in Agent!CallIds :
              \/ calls'[n].hook = 0
              \/ calls'[n].hook = calls[n].hook /\ calls'[n].of = calls[n].of
              \/ LET w == calls'[n].hook
                     s == calls'[n].of IN
                 /\ w \in Agent!HookIds /\ s \in Agent!HookIds /\ hooks[w].pc # "none" /\ hooks[s].pc # "none"
                 /\ Agent!dedupeKey(w) = Agent!dedupeKey(s)
    PROVE  TablesSound'
<1>1. \A w \in Agent!HookIds : hooks[w].pc # "none" =>
          /\ hooks'[w].pc # "none"
          /\ <<hooks'[w].on, hooks'[w].round, hooks'[w].via>> = <<hooks[w].on, hooks[w].round, hooks[w].via>>
  BY DEF GoOn
<1>2. ASSUME NEW k \in DOMAIN pendingAgentCallbacks', NEW w, w = pendingAgentCallbacks'[k]
      PROVE  w \in Agent!HookIds /\ hooks'[w].pc # "none" /\ <<hooks'[w].on, hooks'[w].round, hooks'[w].via>> = k
  <2>1. /\ w \in Agent!HookIds /\ hooks[w].pc # "none"
        /\ <<hooks[w].on, hooks[w].round, hooks[w].via>> = k
    BY <1>2 DEF TablesSound, Agent!dedupeKey
  <2>2. QED
    BY <1>1, <2>1
<1>3. ASSUME NEW n \in Agent!CallIds, NEW w, NEW s, w = calls'[n].hook, s = calls'[n].of, w # 0
      PROVE  /\ s # 0 /\ hooks'[w].pc # "none" /\ hooks'[s].pc # "none"
             /\ <<hooks'[w].on, hooks'[w].round, hooks'[w].via>> = <<hooks'[s].on, hooks'[s].round, hooks'[s].via>>
  <2>1. calls[n].hook \in Agent!HookIds \cup {0} /\ calls[n].of \in Agent!HookIds \cup {0}
    BY DEF AgentTyped, CallRecord
  <2>2. 0 \notin Agent!HookIds
    BY DEF Agent!HookIds
  <2>3. /\ w \in Agent!HookIds /\ s \in Agent!HookIds /\ hooks[w].pc # "none" /\ hooks[s].pc # "none"
        /\ <<hooks[w].on, hooks[w].round, hooks[w].via>> = <<hooks[s].on, hooks[s].round, hooks[s].via>>
    BY <1>3, <2>1, <2>2 DEF TablesSound, Agent!dedupeKey
  <2>4. QED
    BY <1>1, <2>2, <2>3
<1>4. QED
  BY <1>2, <1>3 DEF TablesSound, Agent!dedupeKey

LEMMA SessionsKept ==
    ASSUME AgentTyped, SessionsSound, GoOn, UNCHANGED role,
           asking' \cup sessions' \subseteq asking \cup sessions, asking' \cap sessions' = {}, sessions \subseteq sessions',
           \A n \in Agent!CallIds :
              calls'[n].pc \in {"none", "done"} \/
              (/\ calls'[n].of = calls[n].of
               /\ calls'[n].pc = calls[n].pc \/ (calls'[n].pc = "child" /\ calls[n].pc = "guard")),
           \A h \in Agent!HookIds :
              hooks'[h].pc \in {"guard", "child"} => hooks[h].pc # "none" /\ hooks[h].on \in Orders
    PROVE  SessionsSound'
<1>1. \A h \in asking \cup sessions :
          /\ h \in Agent!HookIds /\ hooks[h].pc # "none" /\ hooks'[h].pc \notin {"none", "queued", "start"}
          /\ hooks'[h].on = hooks[h].on
  BY DEF AgentTyped, SessionsSound, GoOn
<1>2. \A n \in Agent!CallIds : calls'[n].pc \in {"guard", "child", "post"} =>
          calls'[n].of = calls[n].of /\ calls[n].of \in sessions
  BY DEF SessionsSound
<1>3. \A h \in Agent!HookIds : hooks'[h].pc \in {"guard", "child"} => hooks'[h].on \in Orders
  BY DEF GoOn
<1>4. ASSUME NEW n \in Agent!CallIds, NEW s, s = calls'[n].of, calls'[n].pc \in {"guard", "child"}
      PROVE  hooks'[s].on \in Orders /\ role'[hooks'[s].on] = "requester"
  <2>1. s = calls[n].of /\ s \in asking \cup sessions /\ calls[n].pc \in {"guard", "child"}
    BY <1>2, <1>4
  <2>2. Agent!Reviews(s)
    BY <2>1 DEF SessionsSound
  <2>3. QED
    BY <1>1, <2>1, <2>2 DEF Agent!Reviews
<1>5. ASSUME NEW n \in Agent!CallIds, NEW s, s = calls'[n].of, calls'[n].pc = "post"
      PROVE  hooks'[s].on \in Tasks
  <2>1. s = calls[n].of /\ s \in asking \cup sessions /\ calls[n].pc = "post"
    BY <1>2, <1>5
  <2>2. QED
    BY <1>1, <2>1 DEF SessionsSound
<1>6. \A h \in asking' \cup sessions' :
          /\ hooks'[h].pc \notin {"none", "queued", "start"}
          /\ (hooks'[h].on \in Orders /\ role'[hooks'[h].on] = "requester") \/ hooks'[h].on \in Tasks
  BY <1>1 DEF SessionsSound, Agent!Reviews
<1>7. QED
  BY <1>2, <1>3, <1>4, <1>5, <1>6 DEF SessionsSound, Agent!Reviews

LEMMA KeysKept ==
    ASSUME AgentTyped, KeysHeld, GoOn, UNCHANGED role, activeRecoveryKeys \subseteq activeRecoveryKeys',
           \A x \in Agent!HookIds : x \in Agent!Live' => x \in Agent!Live
    PROVE  KeysHeld'
<1>1. \A x \in Agent!Live' : x \in Agent!Live /\ x \in Agent!HookIds /\ Agent!recoveryKey(x)' = Agent!recoveryKey(x)
  BY DEF Agent!Live, Agent!Waiting, GoOn, Agent!recoveryKey, Agent!buildMilestoneHookRecoveryKey
<1>2. QED
  BY <1>1 DEF KeysHeld

LEMMA KeysFinish ==
    ASSUME AgentTyped, KeysHeld, UNCHANGED role, NEW h \in Agent!HookIds, hooks[h].pc \in Agent!Waiting,
           OthersSame(h), hooks'[h] = Over(h),
           activeRecoveryKeys' = IF hooks[h].on \in Orders THEN activeRecoveryKeys \ {Agent!recoveryKey(h)}
                                 ELSE activeRecoveryKeys
    PROVE  KeysHeld' /\ GoOn
<1>1. /\ hooks'[h].pc = "done" /\ hooks'[h].on = hooks[h].on /\ hooks'[h].round = hooks[h].round
      /\ hooks'[h].via = hooks[h].via
  BY OverType
<1>2. GoOn
  BY <1>1, Going
<1>3. \A x \in Agent!Live' : x \in Agent!Live /\ x # h
  <2>1. \A x \in Agent!HookIds \ {h} : hooks'[x].pc \in Agent!Waiting \cup {"queued"} =>
            hooks[x].pc \in Agent!Waiting \cup {"queued"}
    BY DEF OthersSame
  <2>2. \A x \in Agent!HookIds : hooks[x].pc \in Agent!Waiting \cup {"queued"} => hooks'[x].on = hooks[x].on
    BY <1>2 DEF GoOn, Agent!Waiting
  <2>3. QED
    BY <1>1, <2>1, <2>2 DEF Agent!Live, Agent!Waiting
<1>4. \A x \in Agent!Live' : Agent!recoveryKey(x)' = Agent!recoveryKey(x)
  BY <1>2, <1>3 DEF Agent!Live, Agent!Waiting, GoOn, Agent!recoveryKey, Agent!buildMilestoneHookRecoveryKey
<1>5. h \in Agent!Live \/ hooks[h].on \notin Orders
  BY DEF Agent!Live
<1>6. QED
  BY <1>2, <1>3, <1>4, <1>5 DEF KeysHeld

LEMMA KeysQueue ==
    ASSUME AgentTyped, KeysHeld, UNCHANGED role, NEW h \in Agent!HookIds, hooks[h].pc = "none",
           OthersSame(h), hooks'[h].on \in Orders,
           Agent!recoveryKey(h)' \notin activeRecoveryKeys,
           activeRecoveryKeys' = activeRecoveryKeys \cup {Agent!recoveryKey(h)'}
    PROVE  KeysHeld'
<1>1. GoOn
  BY Going
<1>2. \A x \in Agent!Live' : x # h => x \in Agent!Live
  <2>1. \A x \in Agent!HookIds \ {h} : hooks'[x].pc \in Agent!Waiting \cup {"queued"} =>
            hooks[x].pc \in Agent!Waiting \cup {"queued"}
    BY DEF OthersSame
  <2>2. \A x \in Agent!HookIds : hooks[x].pc \in Agent!Waiting \cup {"queued"} => hooks'[x].on = hooks[x].on
    BY <1>1 DEF GoOn, Agent!Waiting
  <2>3. QED
    BY <2>1, <2>2 DEF Agent!Live
<1>3. \A x \in Agent!Live' : x # h => Agent!recoveryKey(x)' = Agent!recoveryKey(x)
  BY <1>1, <1>2 DEF Agent!Live, Agent!Waiting, GoOn, Agent!recoveryKey, Agent!buildMilestoneHookRecoveryKey
<1> DEFINE key == Agent!recoveryKey(h)'
<1>4. key \notin activeRecoveryKeys /\ activeRecoveryKeys' = activeRecoveryKeys \cup {key}
  OBVIOUS
<1> HIDE DEF key
<1>5. \A x \in Agent!Live' : Agent!recoveryKey(x)' \in activeRecoveryKeys'
  <2> TAKE x \in Agent!Live'
  <2>1. CASE x = h
    BY <1>4, <2>1 DEF key
  <2>2. CASE x # h
    BY <1>2, <1>3, <1>4, <2>2 DEF KeysHeld
  <2>3. QED
    BY <2>1, <2>2
<1>6. ASSUME NEW x \in Agent!Live', NEW y \in Agent!Live', Agent!recoveryKey(x)' = Agent!recoveryKey(y)' PROVE x = y
  <2>1. \A z \in Agent!Live' : z # h => Agent!recoveryKey(z)' # key
    BY <1>2, <1>3, <1>4 DEF KeysHeld
  <2>2. CASE x = h \/ y = h
    BY <1>6, <2>1, <2>2 DEF key
  <2>3. CASE x # h /\ y # h
    BY <1>2, <1>3, <1>6, <2>3 DEF KeysHeld
  <2>4. QED
    BY <2>2, <2>3
<1>7. QED
  BY <1>5, <1>6 DEF KeysHeld

-----------------------------------------------------------------------------
(* Who may act for an order.                                               *)

LEMMA ChargeIsLive ==
    ASSUME AgentTyped, OneActs, SessionsSound, reboots = 0, NEW h \in Agent!HookIds, Plain(h), InCharge(h)
    PROVE  h \in Agent!Live
BY DEF OneActs, Plain, InCharge, Agent!Live, Agent!Waiting

(* Of an order on which nothing else acted, one hook is in charge.         *)
LEMMA OneInCharge ==
    ASSUME AgentTyped, OneActs, SessionsSound, KeysHeld, reboots = 0,
           NEW h \in Agent!HookIds, NEW x \in Agent!HookIds, hooks[x].on = hooks[h].on, Plain(h),
           InCharge(h), InCharge(x)
    PROVE  x = h
<1>1. Plain(x)
  BY DEF Plain
<1>2. h \in Agent!Live /\ x \in Agent!Live
  BY <1>1, ChargeIsLive
<1>3. hooks[h].round = ms[hooks[h].on].round /\ hooks[x].round = ms[hooks[x].on].round
  BY <1>1 DEF OneActs
<1>4. Agent!recoveryKey(x) = Agent!recoveryKey(h)
  BY <1>3 DEF Agent!recoveryKey, Agent!buildMilestoneHookRecoveryKey
<1>5. QED
  BY <1>2, <1>4 DEF KeysHeld

(* No hook takes charge in this step, and actions go on only while waited for. *)
Kept(x) ==
    hooks'[x].on \in Orders \ excused' =>
        /\ InCharge(x)' => hooks[x].pc # "none" /\ InCharge(x)
        /\ \A n \in Agent!CallIds : ActsFor(n, x)' =>
              /\ hooks[x].pc # "none" /\ ActsFor(n, x)
              /\ hooks'[x].pc = "wait" /\ hooks'[x].acted

LEMMA OneKept ==
    ASSUME AgentTyped, OneActs, GoOn, UNCHANGED role, reboots = 0, excused \subseteq excused',
           \A x \in Agent!HookIds : Kept(x),
           \A x \in Agent!HookIds : Plain(x) /\ InCharge(x) /\ InCharge(x)' /\ hooks[x].on \notin excused' =>
              /\ ms'[hooks[x].on].round = ms[hooks[x].on].round
              /\ role[hooks[x].on] = "requester" => ms'[hooks[x].on].status = ms[hooks[x].on].status
    PROVE  OneActs'
<1> SUFFICES ASSUME NEW x \in Agent!HookIds, hooks'[x].on \in Orders \ excused'
             PROVE  /\ \A n \in Agent!CallIds : ActsFor(n, x)' =>
                          /\ hooks'[x].pc = "wait" /\ hooks'[x].acted
                          /\ \A m \in Agent!CallIds : ActsFor(m, x)' => m = n
                    /\ InCharge(x)' =>
                          /\ hooks'[x].round = ms'[hooks'[x].on].round
                          /\ role'[hooks'[x].on] = "requester" => ms'[hooks'[x].on].status = "submitted"
  BY DEF OneActs, Plain
<1>1. Kept(x)
  OBVIOUS
<1>2. hooks[x].pc # "none" => Plain(x) /\ hooks'[x].on = hooks[x].on /\ hooks'[x].round = hooks[x].round
  BY DEF GoOn, Plain
<1>3. \A n \in Agent!CallIds : ActsFor(n, x)' =>
          /\ hooks'[x].pc = "wait" /\ hooks'[x].acted
          /\ \A m \in Agent!CallIds : ActsFor(m, x)' => m = n
  BY <1>1, <1>2 DEF Kept, OneActs
<1>4. InCharge(x)' => /\ hooks'[x].round = ms'[hooks'[x].on].round
                      /\ role'[hooks'[x].on] = "requester" => ms'[hooks'[x].on].status = "submitted"
  <2> SUFFICES ASSUME InCharge(x)'
               PROVE  /\ hooks'[x].round = ms'[hooks'[x].on].round
                      /\ role'[hooks'[x].on] = "requester" => ms'[hooks'[x].on].status = "submitted"
    OBVIOUS
  <2>1. Plain(x) /\ InCharge(x) /\ hooks'[x].on = hooks[x].on /\ hooks'[x].round = hooks[x].round
    BY <1>1, <1>2 DEF Kept
  <2>2. /\ hooks[x].round = ms[hooks[x].on].round
        /\ role[hooks[x].on] = "requester" => ms[hooks[x].on].status = "submitted"
    BY <2>1 DEF OneActs
  <2>3. QED
    BY <2>1, <2>2
<1>5. QED
  BY <1>3, <1>4

(* Hook `w` ends, stops waiting, or stays as it is.                        *)
Ending(w) ==
    /\ OthersSame(w)
    /\ \/ hooks'[w] = hooks[w]
       \/ hooks[w].pc \in Agent!Waiting /\ hooks'[w] = Over(w)
       \/ hooks[w].pc = "wait" /\ hooks'[w] = [hooks[w] EXCEPT !.pc = "cli"]

LEMMA EndingGoes ==
    ASSUME AgentTyped, NEW w \in Agent!HookIds \cup {0}, Ending(w)
    PROVE  /\ GoOn
           /\ \A x \in Agent!HookIds :
                 /\ hooks[x].pc = "none" => hooks'[x] = hooks[x]
                 /\ hooks'[x].pc \in Agent!Waiting \cup {"queued"} =>
                       hooks[x].pc \in Agent!Waiting \cup {"queued"} /\ hooks'[x].acted = hooks[x].acted
                 /\ hooks'[x].pc = "child" => hooks[x].pc = "child"
                 /\ hooks'[x].pc = "guard" => hooks[x].pc = "guard"
                 /\ x # w /\ hooks[x].pc = "wait" => hooks'[x] = hooks[x]
<1>1. 0 \notin Agent!HookIds
  BY DEF Agent!HookIds
<1>2. \A x \in Agent!HookIds : hooks[x] \in HookRecord
  BY DEF AgentTyped
<1>3. \A x \in Agent!HookIds \ {w} :
          \/ hooks'[x] = hooks[x]
          \/ /\ hooks[x].pc = "queued" /\ hooks'[x].pc = "start" /\ hooks'[x].acted = hooks[x].acted
             /\ hooks'[x].on = hooks[x].on /\ hooks'[x].round = hooks[x].round /\ hooks'[x].via = hooks[x].via
  <2> TAKE x \in Agent!HookIds \ {w}
  <2>1. CASE hooks[x].pc = "queued" /\ hooks'[x] = [hooks[x] EXCEPT !.pc = "start"]
    BY <1>2, <2>1 DEF HookRecord
  <2>2. QED
    BY <2>1 DEF Ending, OthersSame
<1>4. w \in Agent!HookIds =>
          \/ hooks'[w] = hooks[w]
          \/ /\ hooks[w].pc \in Agent!Waiting /\ hooks'[w].pc = "done"
             /\ hooks'[w].on = hooks[w].on /\ hooks'[w].round = hooks[w].round /\ hooks'[w].via = hooks[w].via
          \/ /\ hooks[w].pc = "wait" /\ hooks'[w].pc = "cli" /\ hooks'[w].acted = hooks[w].acted
             /\ hooks'[w].on = hooks[w].on /\ hooks'[w].round = hooks[w].round /\ hooks'[w].via = hooks[w].via
  <2> SUFFICES ASSUME w \in Agent!HookIds PROVE
          \/ hooks'[w] = hooks[w]
          \/ /\ hooks[w].pc \in Agent!Waiting /\ hooks'[w].pc = "done"
             /\ hooks'[w].on = hooks[w].on /\ hooks'[w].round = hooks[w].round /\ hooks'[w].via = hooks[w].via
          \/ /\ hooks[w].pc = "wait" /\ hooks'[w].pc = "cli" /\ hooks'[w].acted = hooks[w].acted
             /\ hooks'[w].on = hooks[w].on /\ hooks'[w].round = hooks[w].round /\ hooks'[w].via = hooks[w].via
    OBVIOUS
  <2>1. CASE hooks'[w] = hooks[w]
    BY <2>1
  <2>2. CASE hooks[w].pc \in Agent!Waiting /\ hooks'[w] = Over(w)
    BY <2>2, OverType
  <2>3. CASE hooks[w].pc = "wait" /\ hooks'[w] = [hooks[w] EXCEPT !.pc = "cli"]
    BY <1>2, <2>3 DEF HookRecord
  <2>4. QED
    BY <2>1, <2>2, <2>3 DEF Ending
<1>5. GoOn
  BY <1>1, <1>3, <1>4 DEF GoOn, Agent!Waiting
<1>6. QED
  BY <1>1, <1>3, <1>4, <1>5 DEF Agent!Waiting

LEMMA EndingKept ==
    ASSUME AgentTyped, OneActs, reboots = 0, NEW w \in Agent!HookIds \cup {0}, Ending(w),
           excused \subseteq excused',
           \A n \in Agent!CallIds, x \in Agent!HookIds : ActsFor(n, x)' => ActsFor(n, x),
           w # 0 /\ hooks[w].on \in Orders \ excused' /\ hooks'[w] # hooks[w] =>
              \A n \in Agent!CallIds : ~ActsFor(n, w)'
    PROVE  \A x \in Agent!HookIds : Kept(x)
<1> SUFFICES ASSUME NEW x \in Agent!HookIds, hooks'[x].on \in Orders \ excused'
             PROVE  /\ InCharge(x)' => hooks[x].pc # "none" /\ InCharge(x)
                    /\ \A n \in Agent!CallIds : ActsFor(n, x)' =>
                          /\ hooks[x].pc # "none" /\ ActsFor(n, x)
                          /\ hooks'[x].pc = "wait" /\ hooks'[x].acted
  BY DEF Kept
<1>1. Plain(x) /\ hooks'[x].on = hooks[x].on
  BY EndingGoes DEF GoOn, Plain
<1>2. \A n \in Agent!CallIds : ActsFor(n, x)' =>
          ActsFor(n, x) /\ hooks[x].pc = "wait" /\ hooks[x].acted
  BY <1>1 DEF OneActs
<1>3. \A n \in Agent!CallIds : ActsFor(n, x)' => hooks'[x] = hooks[x]
  BY <1>1, <1>2, EndingGoes DEF Agent!HookIds
<1>4. InCharge(x)' => hooks[x].pc # "none" /\ InCharge(x)
  <2>1. CASE (x \in Agent!Live /\ ~hooks[x].acted)'
    BY <1>1, <2>1, EndingGoes DEF InCharge, Agent!Live, Agent!Waiting
  <2>2. CASE hooks'[x].pc = "child"
    BY <2>2, EndingGoes DEF InCharge, Agent!Waiting
  <2>3. CASE \E n \in Agent!CallIds : ActsFor(n, x)'
    BY <1>2, <2>3 DEF InCharge
  <2>4. QED
    BY <2>1, <2>2, <2>3 DEF InCharge
<1>5. QED
  BY <1>2, <1>3, <1>4

-----------------------------------------------------------------------------
(* The end of a wait, and of a hook.                                       *)

LEMMA FinishEnds ==
    ASSUME Agent!ConstantsFit, AgentInv, UNCHANGED role, NEW h \in Agent!HookIds, hooks[h].pc \in Agent!Waiting,
           Agent!finishHook(h)
    PROVE  Ending(h) /\ SlotsKept' /\ hooks' \in [Agent!HookIds -> HookRecord] /\ KeysHeld'
<1>1. SlotsKept' /\ hooks' \in [Agent!HookIds -> HookRecord] /\ OthersSame(h) /\ hooks'[h] = Over(h)
  BY FinishShape DEF AgentInv
<1>2. KeysHeld'
  BY <1>1, KeysFinish DEF AgentInv, Agent!finishHook
<1>3. QED
  BY <1>1, <1>2 DEF Ending

LEMMA ToLocal ==
    ASSUME AgentInv, UNCHANGED role, NEW h \in Agent!HookIds, hooks[h].pc = "wait", Agent!Moves(h, "cli")
    PROVE  Ending(h) /\ SlotsKept' /\ hooks' \in [Agent!HookIds -> HookRecord] /\ KeysHeld'
<1>1. AgentTyped /\ hooks[h] \in HookRecord
  BY DEF AgentInv, AgentTyped
<1>2. PICK r : r = [hooks[h] EXCEPT !.pc = "cli"]
  OBVIOUS
<1>3. r \in HookRecord /\ r.pc = "cli"
  BY <1>1, <1>2 DEF HookRecord, Agent!Waiting
<1>4. hooks' = [hooks EXCEPT ![h] = r] /\ UNCHANGED <<hookQueue, activeHookWorkers, activeRecoveryKeys>>
  BY <1>1, <1>2 DEF Agent!Moves, Agent!workers, AgentTyped
<1>5. SlotsKept' /\ hooks' \in [Agent!HookIds -> HookRecord] /\ OthersSame(h) /\ hooks'[h] = r
  BY <1>1, <1>3, <1>4, UpdateShape DEF AgentInv, Agent!Waiting
<1>6. Ending(h)
  BY <1>2, <1>5 DEF Ending
<1>7. KeysHeld'
  <2>1. GoOn /\ \A x \in Agent!HookIds : x \in Agent!Live' => x \in Agent!Live
    BY <1>1, <1>6, EndingGoes DEF GoOn, Agent!Live, Agent!Waiting
  <2>2. QED
    BY <1>1, <1>4, <2>1, KeysKept DEF AgentInv
<1>8. QED
  BY <1>5, <1>6, <1>7

LEMMA StayEnds ==
    ASSUME AgentInv, UNCHANGED <<role, hooks, hookQueue, activeHookWorkers, activeRecoveryKeys>>
    PROVE  /\ SlotsKept' /\ hooks' \in [Agent!HookIds -> HookRecord] /\ KeysHeld'
           /\ \A w : Ending(w)
<1>1. AgentTyped /\ SlotsKept' /\ hooks' \in [Agent!HookIds -> HookRecord] /\ \A w : Ending(w)
  BY NoShape DEF AgentInv, Ending
<1>2. GoOn /\ \A x \in Agent!HookIds : x \in Agent!Live' => x \in Agent!Live
  BY DEF GoOn, Agent!Live
<1>3. KeysHeld'
  BY <1>1, <1>2, KeysKept DEF AgentInv
<1>4. QED
  BY <1>1, <1>3

LEMMA ResolveEnds ==
    ASSUME Agent!ConstantsFit, AgentInv, UNCHANGED role, NEW w \in Agent!HookIds, NEW ok \in BOOLEAN,
           Agent!Resolve(w, ok)
    PROVE  Ending(w) /\ SlotsKept' /\ hooks' \in [Agent!HookIds -> HookRecord] /\ KeysHeld'
<1>1. CASE hooks[w].pc # "wait"
  BY <1>1, StayEnds DEF Agent!Resolve, Agent!workers
<1>2. CASE hooks[w].pc = "wait" /\ ok
  BY <1>2, FinishEnds DEF Agent!Resolve, Agent!Waiting
<1>3. CASE hooks[w].pc = "wait" /\ ~ok
  BY <1>3, ToLocal DEF Agent!Resolve
<1>4. QED
  BY <1>1, <1>2, <1>3

LEMMA EndsEnds ==
    ASSUME Agent!ConstantsFit, AgentInv, UNCHANGED role, NEW s, NEW w \in Agent!HookIds \cup {0},
           NEW ok \in BOOLEAN, Agent!Ends(s, w, ok)
    PROVE  /\ Ending(w) /\ SlotsKept' /\ hooks' \in [Agent!HookIds -> HookRecord] /\ KeysHeld'
           /\ \A k \in DOMAIN pendingAgentCallbacks' :
                 k \in DOMAIN pendingAgentCallbacks /\ pendingAgentCallbacks'[k] = pendingAgentCallbacks[k]
<1>1. CASE w = 0
  <2>1. UNCHANGED <<pendingAgentCallbacks, hooks, hookQueue, activeHookWorkers, activeRecoveryKeys>>
    BY <1>1 DEF Agent!Ends, Agent!LateConcluded, Agent!workers
  <2>2. QED
    BY <2>1, StayEnds
<1>2. CASE w # 0
  <2>1. Agent!Resolve(w, ok) /\ w \in Agent!HookIds
    BY <1>2 DEF Agent!Ends, Agent!Concluded
  <2>2. pendingAgentCallbacks' = Agent!Without(pendingAgentCallbacks, Agent!dedupeKey(s))
    BY <1>2 DEF Agent!Ends, Agent!Concluded
  <2>3. QED
    BY <2>1, <2>2, ResolveEnds DEF Agent!Without
<1>3. QED
  BY <1>1, <1>2

(* Whatever ends a wait or a hook while the rest goes on as it was keeps   *)
(* the invariant, if nothing is at work for that hook any more, or what    *)
(* is there was written down.                                              *)
LEMMA EndingKeeps ==
    ASSUME AgentInv, NEW w \in Agent!HookIds \cup {0}, Ending(w),
           SlotsKept', hooks' \in [Agent!HookIds -> HookRecord], KeysHeld',
           \A k \in DOMAIN pendingAgentCallbacks' :
              k \in DOMAIN pendingAgentCallbacks /\ pendingAgentCallbacks'[k] = pendingAgentCallbacks[k],
           \A n \in Agent!CallIds : calls'[n] = calls[n] \/ calls'[n] = Agent!Closed,
           calls' \in [Agent!CallIds -> CallRecord],
           asking' \cup sessions' \subseteq asking \cup sessions, asking' \cap sessions' = {}, sessions \subseteq sessions',
           UNCHANGED <<role, reboots>>, orphans' \subseteq orphans, excused \subseteq excused', excused' \subseteq Orders,
           ms' \in [Orders -> [status : {"pending", "submitted", "rejected", "verified"}, round : Int]],
           reboots = 0 => \A x \in Agent!HookIds :
              Plain(x) /\ InCharge(x) /\ InCharge(x)' /\ hooks[x].on \notin excused' =>
                 /\ ms'[hooks[x].on].round = ms[hooks[x].on].round
                 /\ role[hooks[x].on] = "requester" => ms'[hooks[x].on].status = ms[hooks[x].on].status,
           \A h \in strays' : \/ h \in strays
                              \/ /\ h \in Agent!HookIds /\ hooks[h].pc # "none"
                                 /\ hooks[h].on \in excused' \/ reboots > 0,
           w # 0 /\ reboots = 0 /\ hooks[w].on \in Orders \ excused' /\ hooks'[w] # hooks[w] =>
              \A n \in Agent!CallIds : ~ActsFor(n, w)'
    PROVE  AgentInv'
<1>1. AgentTyped /\ TablesSound /\ SessionsSound /\ OneActs /\ StraysKnown
  BY DEF AgentInv
<1>2. AgentTyped'
  BY <1>1 DEF AgentTyped
<1>3. GoOn
  BY <1>1, EndingGoes
<1>4. Agent!Closed.pc = "done" /\ Agent!Closed.hook = 0
  BY DEF Agent!Closed, Agent!NoCall
<1>5. TablesSound'
  BY <1>1, <1>3, <1>4, TablesKept
<1>6. SessionsSound'
  <2>1. \A h \in Agent!HookIds :
            hooks'[h].pc \in {"guard", "child"} => hooks[h].pc # "none" /\ hooks[h].on \in Orders
    BY <1>1, EndingGoes DEF SessionsSound
  <2>2. \A n \in Agent!CallIds :
            calls'[n].pc \in {"none", "done"} \/
            (/\ calls'[n].of = calls[n].of
             /\ calls'[n].pc = calls[n].pc \/ (calls'[n].pc = "child" /\ calls[n].pc = "guard"))
    BY <1>4
  <2>3. QED
    BY <1>1, <1>3, <2>1, <2>2, SessionsKept
<1>7. OneActs'
  <2> SUFFICES ASSUME reboots = 0 PROVE OneActs'
    BY DEF OneActs
  <2>1. \A n \in Agent!CallIds, x \in Agent!HookIds : ActsFor(n, x)' => ActsFor(n, x)
    BY <1>4 DEF ActsFor
  <2>2. \A x \in Agent!HookIds : Kept(x)
    BY <1>1, <2>1, EndingKept
  <2>3. \A x \in Agent!HookIds : Plain(x) /\ InCharge(x) /\ InCharge(x)' /\ hooks[x].on \notin excused' =>
              /\ ms'[hooks[x].on].round = ms[hooks[x].on].round
              /\ role[hooks[x].on] = "requester" => ms'[hooks[x].on].status = ms[hooks[x].on].status
    OBVIOUS
  <2>4. QED
    BY <1>1, <1>3, <2>2, <2>3, OneKept
<1>8. StraysKnown'
  BY <1>1, <1>3 DEF StraysKnown, GoOn, AgentTyped
<1>9. QED
  BY <1>2, <1>5, <1>6, <1>7, <1>8 DEF AgentInv

LEMMA CallCloses ==
    ASSUME AgentTyped, NEW n \in Agent!CallIds, Agent!SetCall(n, Agent!Closed)
    PROVE  /\ calls' \in [Agent!CallIds -> CallRecord] /\ calls'[n] = Agent!Closed
           /\ \A m \in Agent!CallIds : m # n => calls'[m] = calls[m]
<1>1. Agent!Closed \in CallRecord
  BY DEF Agent!Closed, Agent!NoCall, CallRecord, Agent!Verdicts
<1>2. QED
  BY <1>1 DEF Agent!SetCall, AgentTyped

LEMMA Excused ==
    ASSUME AgentTyped, NEW o, NEW cause \in BOOLEAN, Agent!Excuse(o, cause)
    PROVE  excused \subseteq excused' /\ excused' \subseteq Orders /\ (cause /\ o \in Orders => o \in excused')
BY DEF AgentTyped, Agent!Excuse

(* A callback is answered, and what waited for it, `w`, goes on.           *)
LEMMA CallbackKeeps ==
    ASSUME Agent!ConstantsFit, AgentInv, NEW n \in Agent!CallIds, NEW s \in Agent!HookIds,
           NEW w \in Agent!HookIds \cup {0}, NEW ok \in BOOLEAN,
           w # 0 => hooks[w].on = hooks[s].on,
           Agent!Ends(s, w, ok), Agent!SetCall(n, Agent!Closed),
           Agent!Excuse(hooks[s].on, Agent!Outlived(w, n)),
           UNCHANGED <<role, ms, asking, sessions, reboots, orphans, strays>>
    PROVE  AgentInv'
<1>1. AgentTyped /\ SessionsSound
  BY DEF AgentInv
<1>2. /\ Ending(w) /\ SlotsKept' /\ hooks' \in [Agent!HookIds -> HookRecord] /\ KeysHeld'
      /\ \A k \in DOMAIN pendingAgentCallbacks' :
            k \in DOMAIN pendingAgentCallbacks /\ pendingAgentCallbacks'[k] = pendingAgentCallbacks[k]
  BY EndsEnds
<1>3. /\ calls' \in [Agent!CallIds -> CallRecord] /\ calls'[n] = Agent!Closed
      /\ \A m \in Agent!CallIds : m # n => calls'[m] = calls[m]
  BY <1>1, CallCloses
<1>4. /\ excused \subseteq excused' /\ excused' \subseteq Orders
      /\ Agent!Outlived(w, n) /\ hooks[s].on \in Orders => hooks[s].on \in excused'
  <2>1. Agent!Outlived(w, n) \in BOOLEAN
    BY DEF Agent!Outlived
  <2>2. QED
    BY <1>1, <2>1, Excused
<1>5. w # 0 /\ hooks[w].on \in Orders \ excused' => \A m \in Agent!CallIds : ~ActsFor(m, w)'
  <2>1. ~ActsFor(n, w)'
    BY <1>3 DEF ActsFor, Agent!Closed, Agent!NoCall
  <2>2. \A m \in Agent!CallIds \ {n} : ActsFor(m, w)' => Agent!Outlived(w, n)
    BY <1>3 DEF ActsFor, Agent!Outlived
  <2>3. QED
    BY <1>4, <2>1, <2>2
<1>6. QED
  BY <1>1, <1>2, <1>3, <1>4, <1>5, EndingKeeps DEF SessionsSound, AgentTyped

LEMMA AwaitedHook ==
    ASSUME AgentInv, NEW s \in Agent!HookIds
    PROVE  LET w == Agent!Awaiting(s) IN w \in Agent!HookIds \cup {0} /\ (w # 0 => hooks[w].on = hooks[s].on)
<1>1. AgentTyped /\ TablesSound
  BY DEF AgentInv
<1>2. CASE Agent!dedupeKey(s) \in DOMAIN pendingAgentCallbacks
  <2>1. PICK w : w = pendingAgentCallbacks[Agent!dedupeKey(s)]
    OBVIOUS
  <2>2. Agent!Awaiting(s) = w /\ w \in Agent!HookIds /\ Agent!dedupeKey(w) = Agent!dedupeKey(s)
    BY <1>1, <1>2, <2>1 DEF Agent!Awaiting, TablesSound
  <2>3. hooks[w].on = hooks[s].on
    BY <2>2 DEF Agent!dedupeKey
  <2>4. QED
    BY <2>2, <2>3
<1>3. CASE Agent!dedupeKey(s) \notin DOMAIN pendingAgentCallbacks
  BY <1>3 DEF Agent!Awaiting
<1>4. QED
  BY <1>2, <1>3

LEMMA CalledHook ==
    ASSUME AgentInv, NEW n \in Agent!CallIds, calls[n].pc \in {"guard", "child", "post"}
    PROVE  /\ calls[n].of \in sessions /\ calls[n].of \in Agent!HookIds
           /\ calls[n].hook \in Agent!HookIds \cup {0}
           /\ calls[n].hook # 0 => hooks[calls[n].hook].on = hooks[calls[n].of].on
<1>1. AgentTyped /\ TablesSound /\ SessionsSound
  BY DEF AgentInv
<1>2. calls[n].of \in sessions /\ calls[n].of \in Agent!HookIds /\ calls[n].hook \in Agent!HookIds \cup {0}
  BY <1>1 DEF AgentTyped, SessionsSound, CallRecord
<1>3. calls[n].hook # 0 => Agent!dedupeKey(calls[n].hook) = Agent!dedupeKey(calls[n].of)
  BY <1>1 DEF TablesSound
<1>4. calls[n].hook # 0 => hooks[calls[n].hook].on = hooks[calls[n].of].on
  BY <1>3 DEF Agent!dedupeKey
<1>5. QED
  BY <1>2, <1>4

LEMMA FailedStep ==
    ASSUME Agent!ConstantsFit, AgentInv, NEW s \in Agent!HookIds, NEW n \in Agent!CallIds, Agent!CallbackFailed(s, n)
    PROVE  AgentInv'
<1>1. PICK w : w = Agent!Awaiting(s)
  OBVIOUS
<1>2. w \in Agent!HookIds \cup {0} /\ (w # 0 => hooks[w].on = hooks[s].on)
  BY <1>1, AwaitedHook
<1>3. Agent!Ends(s, w, FALSE)
  BY <1>1 DEF Agent!CallbackFailed, Agent!Ends, Agent!LateConcluded, Agent!table
<1>4. /\ Agent!SetCall(n, Agent!Closed) /\ Agent!Excuse(hooks[s].on, Agent!Outlived(w, n))
      /\ UNCHANGED <<role, ms, asking, sessions, reboots, orphans, strays>>
  BY <1>1 DEF Agent!CallbackFailed, Agent!platform
<1>5. QED
  BY <1>2, <1>3, <1>4, CallbackKeeps

LEMMA SkippedStep ==
    ASSUME Agent!ConstantsFit, AgentInv, NEW s \in Agent!HookIds, NEW n \in Agent!CallIds, Agent!CallbackSkipped(s, n)
    PROVE  AgentInv'
<1>1. Agent!Ends(s, 0, FALSE)
  BY DEF Agent!CallbackSkipped, Agent!Ends, Agent!LateConcluded, Agent!table
<1>2. ~Agent!Outlived(0, n)
  <2>1. \A m \in Agent!CallIds : calls[m].pc = "child" => calls[m].of \in Agent!HookIds
    BY CalledHook
  <2>2. QED
    BY <2>1 DEF Agent!Outlived, Agent!HookIds
<1>3. /\ Agent!SetCall(n, Agent!Closed) /\ Agent!Excuse(hooks[s].on, Agent!Outlived(0, n))
      /\ UNCHANGED <<role, ms, asking, sessions, reboots, orphans, strays>>
  BY <1>2 DEF Agent!CallbackSkipped, Agent!platform, Agent!Excuse, Agent!history
<1>4. QED
  BY <1>1, <1>3, CallbackKeeps

LEMMA DuplicateStep ==
    ASSUME Agent!ConstantsFit, AgentInv, NEW s \in Agent!HookIds, NEW n \in Agent!CallIds, NEW v,
           Agent!CallbackDuplicate(s, n, v)
    PROVE  AgentInv'
<1>1. PICK w : w = Agent!Awaiting(s)
  OBVIOUS
<1>2. w \in Agent!HookIds \cup {0} /\ (w # 0 => hooks[w].on = hooks[s].on)
  BY <1>1, AwaitedHook
<1>3. /\ Agent!Ends(s, w, TRUE)
      /\ Agent!SetCall(n, Agent!Closed) /\ Agent!Excuse(hooks[s].on, Agent!Outlived(w, n))
      /\ UNCHANGED <<role, ms, asking, sessions, reboots, orphans, strays>>
  BY <1>1 DEF Agent!CallbackDuplicate, Agent!platform
<1>4. QED
  BY <1>2, <1>3, CallbackKeeps

LEMMA GuardedStep ==
    ASSUME Agent!ConstantsFit, AgentInv, NEW n \in Agent!CallIds, Agent!CallbackGuarded(n)
    PROVE  AgentInv'
<1>1. PICK s, w : s = calls[n].of /\ w = calls[n].hook
  OBVIOUS
<1>2. s \in Agent!HookIds /\ w \in Agent!HookIds \cup {0} /\ (w # 0 => hooks[w].on = hooks[s].on)
  BY <1>1, CalledHook DEF Agent!CallbackGuarded
<1>3. /\ Agent!Ends(s, w, TRUE)
      /\ Agent!SetCall(n, Agent!Closed) /\ Agent!Excuse(hooks[s].on, Agent!Outlived(w, n))
      /\ UNCHANGED <<role, ms, asking, sessions, reboots, orphans, strays>>
  BY <1>1 DEF Agent!CallbackGuarded, Agent!platform
<1>4. QED
  BY <1>2, <1>3, CallbackKeeps

LEMMA PostedStep ==
    ASSUME Agent!ConstantsFit, AgentInv, NEW n \in Agent!CallIds, NEW ok \in BOOLEAN, Agent!CallbackPosted(n, ok)
    PROVE  AgentInv'
<1>1. PICK s, w : s = calls[n].of /\ w = calls[n].hook
  OBVIOUS
<1>2. s \in Agent!HookIds /\ w \in Agent!HookIds \cup {0} /\ (w # 0 => hooks[w].on = hooks[s].on)
  BY <1>1, CalledHook DEF Agent!CallbackPosted
<1>3. hooks[s].on \notin Orders
  BY <1>1 DEF AgentInv, SessionsSound, Agent!CallbackPosted, Agent!ConstantsFit
<1>4. /\ Agent!Ends(s, w, ok)
      /\ Agent!SetCall(n, Agent!Closed) /\ Agent!Excuse(hooks[s].on, Agent!Outlived(w, n))
      /\ UNCHANGED <<role, ms, asking, sessions, reboots, orphans, strays>>
  BY <1>1, <1>3 DEF Agent!CallbackPosted, Agent!platform, Agent!Excuse, Agent!history
<1>5. QED
  BY <1>2, <1>4, CallbackKeeps

-----------------------------------------------------------------------------
(* What the platform does, on behalf of a hook or of somebody else.        *)

MsType == [Orders -> [status : {"pending", "submitted", "rejected", "verified"}, round : Int]]

LEMMA SubmitsShape ==
    ASSUME AgentTyped, NEW o \in Orders, Agent!Submits(o)
    PROVE  /\ ms' \in MsType /\ ms[o].status \in {"pending", "rejected"}
           /\ \A p \in Orders : p # o => ms'[p] = ms[p]
<1> DEFINE r == [status |-> "submitted", round |-> ms[o].round + 1]
<1>1. ms' = [ms EXCEPT ![o] = r] /\ ms[o].status \in {"pending", "rejected"}
  BY DEF Agent!Submits, AgentTyped
<1>2. r \in [status : {"pending", "submitted", "rejected", "verified"}, round : Int]
  BY DEF AgentTyped
<1> HIDE DEF r
<1>3. QED
  BY <1>1, <1>2 DEF AgentTyped, MsType

LEMMA JudgesShape ==
    ASSUME AgentTyped, NEW o \in Orders, NEW v, Agent!Judges(o, v)
    PROVE  /\ ms' \in MsType /\ ms'[o].round = ms[o].round
           /\ \A p \in Orders : p # o => ms'[p] = ms[p]
<1>1. PICK r : \E s \in {"verified", "rejected"} : r = [ms[o] EXCEPT !.status = s] /\ ms' = [ms EXCEPT ![o] = r]
  BY DEF Agent!Judges, AgentTyped
<1>2. ms[o] \in [status : {"pending", "submitted", "rejected", "verified"}, round : Int]
  BY DEF AgentTyped
<1>3. r \in [status : {"pending", "submitted", "rejected", "verified"}, round : Int] /\ r.round = ms[o].round
  BY <1>1, <1>2
<1>4. QED
  BY <1>1, <1>3 DEF AgentTyped, MsType

LEMMA ChildShape ==
    ASSUME AgentTyped, NEW h \in Agent!HookIds, hooks[h].on \in Orders, NEW v, NEW ok \in BOOLEAN,
           Agent!ChildEnds(h, v, ok)
    PROVE  /\ UNCHANGED role /\ ms' \in MsType
           /\ \A p \in Orders : p # hooks[h].on => ms'[p] = ms[p]
           /\ strays' \subseteq strays \cup {h}
           /\ h \in strays' => h \in strays \/ hooks[h].round # ms[hooks[h].on].round
<1>1. CASE Agent!Lands(h, v)
  <2>1. /\ UNCHANGED role /\ strays' \subseteq strays \cup {h}
        /\ h \in strays' => h \in strays \/ hooks[h].round # ms[hooks[h].on].round
        /\ Agent!Submits(hooks[h].on) \/ Agent!Judges(hooks[h].on, v)
    BY <1>1 DEF Agent!Lands
  <2>2. QED
    BY <2>1, SubmitsShape, JudgesShape
<1>2. CASE UNCHANGED <<Agent!platform, strays>>
  BY <1>2 DEF Agent!platform, AgentTyped, MsType
<1>3. QED
  BY <1>1, <1>2 DEF Agent!ChildEnds

(* What a hook in charge does is no stray, and no other hook is in charge. *)
LEMMA ChildAlone ==
    ASSUME AgentInv, NEW h \in Agent!HookIds, hooks[h].on \in Orders, InCharge(h), NEW v, NEW ok \in BOOLEAN,
           Agent!ChildEnds(h, v, ok), excused \subseteq excused', hooks[h].pc # "none",
           reboots = 0 /\ Plain(h) => ~InCharge(h)'
    PROVE  /\ reboots = 0 => \A x \in Agent!HookIds :
                 Plain(x) /\ InCharge(x) /\ InCharge(x)' /\ hooks[x].on \notin excused' =>
                    /\ ms'[hooks[x].on].round = ms[hooks[x].on].round
                    /\ role[hooks[x].on] = "requester" => ms'[hooks[x].on].status = ms[hooks[x].on].status
           /\ \A x \in strays' : \/ x \in strays
                                 \/ /\ x \in Agent!HookIds /\ hooks[x].pc # "none"
                                    /\ hooks[x].on \in excused' \/ reboots > 0
<1>1. AgentTyped /\ OneActs /\ SessionsSound /\ KeysHeld /\ reboots \in Nat
  BY DEF AgentInv, AgentTyped
<1>2. /\ \A p \in Orders : p # hooks[h].on => ms'[p] = ms[p]
      /\ strays' \subseteq strays \cup {h}
      /\ h \in strays' => h \in strays \/ hooks[h].round # ms[hooks[h].on].round
  BY <1>1, ChildShape
<1>3. ASSUME reboots = 0, NEW x \in Agent!HookIds, Plain(x), InCharge(x), InCharge(x)'
      PROVE  ms'[hooks[x].on] = ms[hooks[x].on]
  <2>1. CASE hooks[x].on = hooks[h].on
    <3>1. Plain(h)
      BY <1>3, <2>1 DEF Plain
    <3>2. x = h
      BY <1>1, <1>3, <2>1, <3>1, OneInCharge
    <3>3. QED
      BY <1>3, <3>1, <3>2
  <2>2. CASE hooks[x].on # hooks[h].on
    BY <1>2, <1>3, <2>2 DEF Plain
  <2>3. QED
    BY <2>1, <2>2
<1>4. reboots = 0 /\ hooks[h].on \notin excused => hooks[h].round = ms[hooks[h].on].round
  BY <1>1 DEF OneActs, Plain
<1>5. \A x \in strays' : \/ x \in strays
                         \/ /\ x \in Agent!HookIds /\ hooks[x].pc # "none"
                            /\ hooks[x].on \in excused' \/ reboots > 0
  BY <1>1, <1>2, <1>4
<1>6. QED
  BY <1>3, <1>5

LEMMA ActedStep ==
    ASSUME Agent!ConstantsFit, AgentInv, NEW n \in Agent!CallIds, NEW ok \in BOOLEAN, Agent!CallbackActed(n, ok)
    PROVE  AgentInv'
<1>1. PICK s, w : s = calls[n].of /\ w = calls[n].hook
  OBVIOUS
<1>2. /\ s \in Agent!HookIds /\ w \in Agent!HookIds \cup {0} /\ (w # 0 => hooks[w].on = hooks[s].on)
      /\ s \in sessions
  BY <1>1, CalledHook DEF Agent!CallbackActed
<1>3. AgentTyped /\ SessionsSound /\ OneActs
  BY DEF AgentInv
<1>4. hooks[s].on \in Orders /\ hooks[s].pc # "none" /\ ActsFor(n, s) /\ InCharge(s)
  BY <1>1, <1>2, <1>3 DEF SessionsSound, Agent!CallbackActed, Agent!Reviews, ActsFor, InCharge
<1>5. PICK v : v = calls[n].verdict
  OBVIOUS
<1>6. /\ Agent!Ends(s, w, ok) /\ Agent!SetCall(n, Agent!Closed) /\ Agent!ChildEnds(s, v, ok)
      /\ Agent!Excuse(hooks[s].on, Agent!Outlived(w, n))
      /\ UNCHANGED <<asking, sessions, orphans, reboots>>
  BY <1>1, <1>5 DEF Agent!CallbackActed
<1>7. UNCHANGED role /\ ms' \in MsType
  BY <1>2, <1>3, <1>4, <1>6, ChildShape
<1>8. /\ Ending(w) /\ SlotsKept' /\ hooks' \in [Agent!HookIds -> HookRecord] /\ KeysHeld'
      /\ \A k \in DOMAIN pendingAgentCallbacks' :
            k \in DOMAIN pendingAgentCallbacks /\ pendingAgentCallbacks'[k] = pendingAgentCallbacks[k]
  BY <1>2, <1>6, <1>7, EndsEnds
<1>9. /\ calls' \in [Agent!CallIds -> CallRecord] /\ calls'[n] = Agent!Closed
      /\ \A m \in Agent!CallIds : m # n => calls'[m] = calls[m]
  BY <1>3, <1>6, CallCloses
<1>10. /\ excused \subseteq excused' /\ excused' \subseteq Orders
       /\ Agent!Outlived(w, n) /\ hooks[s].on \in Orders => hooks[s].on \in excused'
  <2>1. Agent!Outlived(w, n) \in BOOLEAN
    BY DEF Agent!Outlived
  <2>2. QED
    BY <1>3, <1>6, <2>1, Excused
<1>11. ~ActsFor(n, s)' /\ ~ActsFor(n, w)'
  BY <1>9 DEF ActsFor, Agent!Closed, Agent!NoCall
<1>12. w # 0 /\ hooks[w].on \in Orders \ excused' => \A m \in Agent!CallIds : ~ActsFor(m, w)'
  <2>1. \A m \in Agent!CallIds \ {n} : ActsFor(m, w)' => Agent!Outlived(w, n)
    BY <1>9 DEF ActsFor, Agent!Outlived
  <2>2. QED
    BY <1>2, <1>10, <1>11, <2>1
<1>13. reboots = 0 /\ Plain(s) => ~InCharge(s)'
  <2> SUFFICES ASSUME reboots = 0, Plain(s) PROVE ~InCharge(s)'
    OBVIOUS
  <2>1. hooks[s].pc = "wait" /\ hooks[s].acted /\ \A m \in Agent!CallIds : ActsFor(m, s) => m = n
    BY <1>2, <1>3, <1>4 DEF OneActs
  <2>2. \A m \in Agent!CallIds : ~ActsFor(m, s)'
    BY <1>9, <1>11, <2>1 DEF ActsFor
  <2>3. hooks'[s].pc # "child" /\ ~(s \in Agent!Live' /\ ~hooks'[s].acted)
    BY <1>2, <1>3, <1>8, <2>1, EndingGoes DEF Agent!Live
  <2>4. QED
    BY <2>2, <2>3 DEF InCharge
<1>14. /\ reboots = 0 => \A x \in Agent!HookIds :
             Plain(x) /\ InCharge(x) /\ InCharge(x)' /\ hooks[x].on \notin excused' =>
                /\ ms'[hooks[x].on].round = ms[hooks[x].on].round
                /\ role[hooks[x].on] = "requester" => ms'[hooks[x].on].status = ms[hooks[x].on].status
       /\ \A x \in strays' : \/ x \in strays
                             \/ /\ x \in Agent!HookIds /\ hooks[x].pc # "none"
                                /\ hooks[x].on \in excused' \/ reboots > 0
  BY <1>2, <1>4, <1>6, <1>10, <1>13, ChildAlone
<1>15. asking' \cup sessions' \subseteq asking \cup sessions /\ asking' \cap sessions' = {} /\ sessions \subseteq sessions'
  BY <1>3, <1>6 DEF SessionsSound
<1>16. QED
  BY <1>2, <1>6, <1>7, <1>8, <1>9, <1>10, <1>12, <1>14, <1>15, EndingKeeps DEF MsType

LEMMA LocalActedStep ==
    ASSUME Agent!ConstantsFit, AgentInv, NEW h \in Agent!HookIds, NEW ok \in BOOLEAN, Agent!LocalActed(h, ok)
    PROVE  AgentInv'
<1>1. AgentTyped /\ SessionsSound /\ OneActs
  BY DEF AgentInv
<1>2. hooks[h].pc = "child" /\ hooks[h].on \in Orders /\ InCharge(h)
  BY <1>1 DEF SessionsSound, Agent!LocalActed, InCharge
<1>3. PICK v : v = hooks[h].verdict
  OBVIOUS
<1>4. /\ Agent!finishHook(h) /\ Agent!ChildEnds(h, v, ok)
      /\ UNCHANGED <<pendingAgentCallbacks, calls, asking, sessions, orphans, reboots, excused>>
  BY <1>3 DEF Agent!LocalActed, Agent!table
<1>5. UNCHANGED role /\ ms' \in MsType
  BY <1>1, <1>2, <1>4, ChildShape
<1>6. Ending(h) /\ SlotsKept' /\ hooks' \in [Agent!HookIds -> HookRecord] /\ KeysHeld'
  BY <1>2, <1>4, <1>5, FinishEnds DEF Agent!Waiting
<1>7. reboots = 0 /\ Plain(h) => \A n \in Agent!CallIds : ~ActsFor(n, h)'
  BY <1>1, <1>2, <1>4 DEF OneActs, ActsFor
<1>8. reboots = 0 /\ Plain(h) => ~InCharge(h)'
  <2>1. hooks'[h] = Over(h)
    BY <1>2, <1>4, FinishShape DEF AgentInv, Agent!Waiting
  <2>2. hooks'[h].pc = "done"
    BY <1>1, <2>1, OverType
  <2>3. QED
    BY <1>7, <2>2 DEF InCharge, Agent!Live, Agent!Waiting
<1>9. /\ reboots = 0 => \A x \in Agent!HookIds :
             Plain(x) /\ InCharge(x) /\ InCharge(x)' /\ hooks[x].on \notin excused' =>
                /\ ms'[hooks[x].on].round = ms[hooks[x].on].round
                /\ role[hooks[x].on] = "requester" => ms'[hooks[x].on].status = ms[hooks[x].on].status
      /\ \A x \in strays' : \/ x \in strays
                            \/ /\ x \in Agent!HookIds /\ hooks[x].pc # "none"
                               /\ hooks[x].on \in excused' \/ reboots > 0
  BY <1>2, <1>4, <1>8, ChildAlone
<1>10. /\ asking' \cup sessions' \subseteq asking \cup sessions /\ asking' \cap sessions' = {} /\ sessions \subseteq sessions'
       /\ excused \subseteq excused' /\ excused' \subseteq Orders /\ calls' \in [Agent!CallIds -> CallRecord]
  BY <1>1, <1>4 DEF SessionsSound, AgentTyped
<1>11. reboots = 0 /\ hooks[h].on \in Orders \ excused' => \A n \in Agent!CallIds : ~ActsFor(n, h)'
  BY <1>4, <1>7 DEF Plain
<1>12. QED
  BY <1>4, <1>5, <1>6, <1>9, <1>10, <1>11, EndingKeeps DEF MsType

-----------------------------------------------------------------------------
(* One hook changes while it keeps its slot, or has none, as it was.       *)

LEMMA UpdateGoes ==
    ASSUME AgentTyped, SlotsKept, KeysHeld, NEW h \in Agent!HookIds, NEW r \in HookRecord,
           hooks' = [hooks EXCEPT ![h] = r],
           UNCHANGED <<role, hookQueue, activeHookWorkers, activeRecoveryKeys>>,
           hooks[h].pc \notin {"none", "queued"}, r.pc \notin {"none", "queued", "start"},
           r.pc \in Agent!Waiting <=> hooks[h].pc \in Agent!Waiting,
           r.on = hooks[h].on, r.round = hooks[h].round, r.via = hooks[h].via
    PROVE  /\ SlotsKept' /\ KeysHeld' /\ hooks' \in [Agent!HookIds -> HookRecord] /\ GoOn
           /\ hooks'[h] = r /\ \A x \in Agent!HookIds \ {h} : hooks'[x] = hooks[x]
<1>1. SlotsKept' /\ hooks' \in [Agent!HookIds -> HookRecord] /\ OthersSame(h) /\ hooks'[h] = r
  BY UpdateShape
<1>2. \A x \in Agent!HookIds \ {h} : hooks'[x] = hooks[x]
  BY DEF AgentTyped
<1>3. GoOn
  BY <1>1, Going
<1>4. \A x \in Agent!HookIds : x \in Agent!Live' => x \in Agent!Live
  BY <1>1, <1>2 DEF Agent!Live, Agent!Waiting
<1>5. KeysHeld'
  BY <1>3, <1>4, KeysKept
<1>6. QED
  BY <1>1, <1>2, <1>3, <1>5

LEMMA UpdateKeeps ==
    ASSUME AgentInv, NEW h \in Agent!HookIds, NEW r \in HookRecord, hooks' = [hooks EXCEPT ![h] = r],
           SlotsKept', KeysHeld', hooks' \in [Agent!HookIds -> HookRecord], GoOn,
           TablesSound', SessionsSound', asking' \cup sessions' \subseteq Agent!HookIds,
           calls' \in [Agent!CallIds -> CallRecord],
           UNCHANGED <<role, ms, reboots, orphans, strays>>, excused \subseteq excused', excused' \subseteq Orders,
           \A n \in Agent!CallIds, x \in Agent!HookIds \ {h} : ActsFor(n, x)' => ActsFor(n, x),
           reboots = 0 /\ hooks[h].on \in Orders \ excused' /\ r.on = hooks[h].on =>
              /\ InCharge(h)' => InCharge(h)
              /\ \A n \in Agent!CallIds : ActsFor(n, h)' =>
                    /\ r.pc = "wait" /\ r.acted
                    /\ \A m \in Agent!CallIds : ActsFor(m, h)' => m = n,
           r.on = hooks[h].on, r.round = hooks[h].round
    PROVE  AgentInv'
<1>1. AgentTyped /\ OneActs /\ StraysKnown
  BY DEF AgentInv
<1>2. AgentTyped'
  BY <1>1 DEF AgentTyped
<1>3. hooks'[h] = r /\ \A x \in Agent!HookIds \ {h} : hooks'[x] = hooks[x]
  BY <1>1 DEF AgentTyped
<1>4. OneActs'
  <2> SUFFICES ASSUME reboots = 0, NEW x \in Agent!HookIds, hooks'[x].on \in Orders \ excused'
               PROVE  /\ \A n \in Agent!CallIds : ActsFor(n, x)' =>
                            /\ hooks'[x].pc = "wait" /\ hooks'[x].acted
                            /\ \A m \in Agent!CallIds : ActsFor(m, x)' => m = n
                      /\ InCharge(x)' =>
                            /\ hooks'[x].round = ms'[hooks'[x].on].round
                            /\ role'[hooks'[x].on] = "requester" => ms'[hooks'[x].on].status = "submitted"
    BY DEF OneActs, Plain
  <2>1. Plain(x) /\ hooks'[x].on = hooks[x].on /\ hooks'[x].round = hooks[x].round
    BY <1>3 DEF Plain
  <2>2. InCharge(x)' => InCharge(x)
    <3>1. CASE x = h
      BY <1>3, <2>1, <3>1
    <3>2. CASE x # h
      BY <1>3, <3>2 DEF InCharge, Agent!Live
    <3>3. QED
      BY <3>1, <3>2
  <2>3. \A n \in Agent!CallIds : ActsFor(n, x)' =>
            /\ hooks'[x].pc = "wait" /\ hooks'[x].acted
            /\ \A m \in Agent!CallIds : ActsFor(m, x)' => m = n
    <3>1. CASE x = h
      BY <1>3, <2>1, <3>1
    <3>2. CASE x # h
      BY <1>1, <1>3, <2>1, <3>2 DEF OneActs
    <3>3. QED
      BY <3>1, <3>2
  <2>4. InCharge(x) => /\ hooks[x].round = ms[hooks[x].on].round
                       /\ role[hooks[x].on] = "requester" => ms[hooks[x].on].status = "submitted"
    BY <1>1, <2>1 DEF OneActs
  <2>5. QED
    BY <2>1, <2>2, <2>3, <2>4
<1>5. StraysKnown'
  BY <1>1 DEF StraysKnown, GoOn, AgentTyped
<1>6. QED
  BY <1>2, <1>4, <1>5 DEF AgentInv

(* The local agent's part: nothing else is at work for the hook.           *)
LEMMA UpdateLocal ==
    ASSUME AgentInv, NEW h \in Agent!HookIds, NEW r \in HookRecord, hooks' = [hooks EXCEPT ![h] = r],
           hooks[h].pc \in {"start", "cli", "guard"}, r.pc \in {"cli", "guard", "child"},
           r.pc # "cli" => hooks[h].on \in Orders,
           r.on = hooks[h].on, r.round = hooks[h].round, r.via = hooks[h].via,
           UNCHANGED <<role, ms, hookQueue, activeHookWorkers, activeRecoveryKeys, pendingAgentCallbacks,
                       asking, sessions, calls, reboots, orphans, strays>>,
           excused \subseteq excused', excused' \subseteq Orders,
           hooks[h].on \in Orders \ excused' /\ (r.pc = "child" \/ ~r.acted) => ~hooks[h].acted
    PROVE  AgentInv'
<1>1. AgentTyped /\ SlotsKept /\ KeysHeld /\ TablesSound /\ SessionsSound /\ OneActs
  BY DEF AgentInv
<1>2. /\ SlotsKept' /\ KeysHeld' /\ hooks' \in [Agent!HookIds -> HookRecord] /\ GoOn
      /\ hooks'[h] = r /\ \A x \in Agent!HookIds \ {h} : hooks'[x] = hooks[x]
  BY <1>1, UpdateGoes DEF Agent!Waiting
<1>3. TablesSound'
  BY <1>1, <1>2, TablesKept
<1>4. SessionsSound'
  <2>1. \A x \in Agent!HookIds : hooks'[x].pc \in {"guard", "child"} => hooks[x].pc # "none" /\ hooks[x].on \in Orders
    BY <1>1, <1>2 DEF SessionsSound
  <2>2. asking' \cap sessions' = {}
    BY <1>1 DEF SessionsSound
  <2>3. QED
    BY <1>1, <1>2, <2>1, <2>2, SessionsKept
<1>5. calls' \in [Agent!CallIds -> CallRecord] /\ asking' \cup sessions' \subseteq Agent!HookIds
  BY <1>1 DEF AgentTyped
<1>6. \A n \in Agent!CallIds, x \in Agent!HookIds : ActsFor(n, x)' <=> ActsFor(n, x)
  BY DEF ActsFor
<1>7. ASSUME reboots = 0, hooks[h].on \in Orders \ excused'
      PROVE  (InCharge(h)' => InCharge(h)) /\ \A n \in Agent!CallIds : ~ActsFor(n, h)'
  <2>1. \A n \in Agent!CallIds : ~ActsFor(n, h)'
    BY <1>1, <1>6, <1>7 DEF OneActs, Plain
  <2>2. h \in Agent!Live
    BY <1>7 DEF Agent!Live, Agent!Waiting
  <2>3. InCharge(h)' => ~hooks[h].acted
    BY <1>2, <1>7, <2>1 DEF InCharge, Agent!Live
  <2>4. QED
    BY <2>1, <2>2, <2>3 DEF InCharge
<1>8. QED
  BY <1>2, <1>3, <1>4, <1>5, <1>6, <1>7, UpdateKeeps

LEMMA LocalSteps ==
    ASSUME Agent!ConstantsFit, AgentInv, NEW h \in Agent!HookIds,
           \/ Agent!LocalBegins(h) \/ Agent!LocalRetries(h) \/ Agent!LocalActs(h)
           \/ \E v \in Agent!Verdicts : Agent!LocalConcludes(h, v)
    PROVE  AgentInv'
<1>1. AgentTyped /\ SessionsSound /\ hooks[h] \in HookRecord /\ hooks[h].attempt + 1 \in Int
  BY DEF AgentInv, AgentTyped, HookRecord
<1>2. excused \subseteq Orders
  BY <1>1 DEF AgentTyped
<1>3. CASE Agent!LocalBegins(h)
  <2>1. PICK r : r = [hooks[h] EXCEPT !.pc = "cli"]
    OBVIOUS
  <2>2. /\ r \in HookRecord /\ r.pc = "cli" /\ r.on = hooks[h].on /\ r.round = hooks[h].round
        /\ r.via = hooks[h].via /\ r.acted = hooks[h].acted
    BY <1>1, <2>1 DEF HookRecord, Agent!Waiting
  <2>3. /\ hooks' = [hooks EXCEPT ![h] = r] /\ hooks[h].pc = "start"
        /\ UNCHANGED <<role, ms, hookQueue, activeHookWorkers, activeRecoveryKeys, pendingAgentCallbacks,
                       asking, sessions, calls, reboots, orphans, strays, excused>>
    BY <1>1, <1>3, <2>1 DEF Agent!LocalBegins, Agent!Moves, Agent!workers, Agent!platform, Agent!table,
       Agent!history, AgentTyped
  <2>4. QED
    BY <1>2, <2>2, <2>3, UpdateLocal
<1>4. CASE Agent!LocalRetries(h)
  <2>1. PICK r : r = [hooks[h] EXCEPT !.attempt = hooks[h].attempt + 1]
    OBVIOUS
  <2>2. /\ r \in HookRecord /\ r.pc = hooks[h].pc /\ r.on = hooks[h].on /\ r.round = hooks[h].round
        /\ r.via = hooks[h].via /\ r.acted = hooks[h].acted
    BY <1>1, <2>1 DEF HookRecord
  <2>3. /\ hooks' = [hooks EXCEPT ![h] = r] /\ hooks[h].pc = "cli"
        /\ UNCHANGED <<role, ms, hookQueue, activeHookWorkers, activeRecoveryKeys, pendingAgentCallbacks,
                       asking, sessions, calls, reboots, orphans, strays, excused>>
    BY <1>1, <1>4, <2>1 DEF Agent!LocalRetries, Agent!workers, Agent!platform, Agent!table,
       Agent!history, AgentTyped
  <2>4. QED
    BY <1>2, <2>2, <2>3, UpdateLocal
<1>5. CASE Agent!LocalActs(h)
  <2>1. PICK q : q = [hooks[h] EXCEPT !.pc = "child"]
    OBVIOUS
  <2>2. PICK r : r = [q EXCEPT !.acted = TRUE]
    OBVIOUS
  <2>3. /\ q \in HookRecord /\ q.pc = "child" /\ q.on = hooks[h].on /\ q.round = hooks[h].round
        /\ q.via = hooks[h].via
    BY <1>1, <2>1 DEF HookRecord, Agent!Waiting
  <2>4. /\ r \in HookRecord /\ r.pc = "child" /\ r.on = hooks[h].on /\ r.round = hooks[h].round
        /\ r.via = hooks[h].via /\ r.acted
    BY <2>2, <2>3 DEF HookRecord
  <2>5. /\ hooks' = [hooks EXCEPT ![h] = r] /\ hooks[h].pc = "guard"
        /\ UNCHANGED <<role, ms, hookQueue, activeHookWorkers, activeRecoveryKeys, pendingAgentCallbacks,
                       asking, sessions, calls, reboots, orphans, strays>>
        /\ Agent!Excuse(hooks[h].on, hooks[h].acted)
    BY <1>1, <1>5, <2>1, <2>2 DEF Agent!LocalActs, Agent!workers, Agent!platform, Agent!table, AgentTyped
  <2>6. hooks[h].on \in Orders /\ hooks[h].acted \in BOOLEAN
    BY <1>1, <2>5 DEF SessionsSound, HookRecord
  <2>7. excused \subseteq excused' /\ excused' \subseteq Orders /\ (hooks[h].acted => hooks[h].on \in excused')
    BY <1>1, <2>5, <2>6, Excused
  <2>8. QED
    BY <2>4, <2>5, <2>6, <2>7, UpdateLocal
<1>6. ASSUME NEW v \in Agent!Verdicts, Agent!LocalConcludes(h, v) PROVE AgentInv'
  <2>1. PICK q : q = [hooks[h] EXCEPT !.pc = "guard"]
    OBVIOUS
  <2>2. PICK r : r = [q EXCEPT !.verdict = v]
    OBVIOUS
  <2>3. /\ q \in HookRecord /\ q.pc = "guard" /\ q.on = hooks[h].on /\ q.round = hooks[h].round
        /\ q.via = hooks[h].via /\ q.acted = hooks[h].acted
    BY <1>1, <2>1 DEF HookRecord, Agent!Waiting
  <2>4. /\ r \in HookRecord /\ r.pc = "guard" /\ r.on = hooks[h].on /\ r.round = hooks[h].round
        /\ r.via = hooks[h].via /\ r.acted = hooks[h].acted
    BY <2>2, <2>3 DEF HookRecord
  <2>5. /\ hooks' = [hooks EXCEPT ![h] = r] /\ hooks[h].pc = "cli" /\ hooks[h].on \in Orders
        /\ UNCHANGED <<role, ms, hookQueue, activeHookWorkers, activeRecoveryKeys, pendingAgentCallbacks,
                       asking, sessions, calls, reboots, orphans, strays, excused>>
    BY <1>1, <1>6, <2>1, <2>2 DEF Agent!LocalConcludes, Agent!workers, Agent!platform, Agent!table,
       Agent!history, AgentTyped
  <2>6. QED
    BY <1>2, <2>4, <2>5, UpdateLocal
<1>7. QED
  BY <1>3, <1>4, <1>5, <1>6

LEMMA LocalFinish ==
    ASSUME Agent!ConstantsFit, AgentInv, NEW h \in Agent!HookIds, Agent!LocalEnds(h) \/ Agent!LocalGuarded(h)
    PROVE  AgentInv'
<1>1. AgentTyped /\ SessionsSound /\ OneActs
  BY DEF AgentInv
<1>2. /\ hooks[h].pc \in {"cli", "guard"} /\ Agent!finishHook(h)
      /\ UNCHANGED <<role, ms, pendingAgentCallbacks, asking, sessions, calls, reboots, orphans, strays, excused>>
  BY DEF Agent!LocalEnds, Agent!LocalGuarded, Agent!platform, Agent!table, Agent!history
<1>3. Ending(h) /\ SlotsKept' /\ hooks' \in [Agent!HookIds -> HookRecord] /\ KeysHeld'
  BY <1>2, FinishEnds DEF Agent!Waiting
<1>4. reboots = 0 /\ hooks[h].on \in Orders \ excused' => \A n \in Agent!CallIds : ~ActsFor(n, h)'
  BY <1>1, <1>2 DEF OneActs, Plain, ActsFor
<1>5. /\ asking' \cup sessions' \subseteq asking \cup sessions /\ asking' \cap sessions' = {} /\ sessions \subseteq sessions'
      /\ excused \subseteq excused' /\ excused' \subseteq Orders /\ calls' \in [Agent!CallIds -> CallRecord]
      /\ ms' \in [Orders -> [status : {"pending", "submitted", "rejected", "verified"}, round : Int]]
  BY <1>1, <1>2 DEF SessionsSound, AgentTyped
<1>6. QED
  BY <1>2, <1>3, <1>4, <1>5, EndingKeeps

-----------------------------------------------------------------------------
(* The gateway's part.                                                     *)

LEMMA BeginsStep ==
    ASSUME Agent!ConstantsFit, AgentInv, NEW h \in Agent!HookIds, Agent!GatewayBegins(h)
    PROVE  AgentInv'
<1>1. /\ AgentTyped /\ SlotsKept /\ KeysHeld /\ TablesSound /\ SessionsSound /\ hooks[h] \in HookRecord
      /\ excused \subseteq Orders
  BY DEF AgentInv, AgentTyped
<1>2. PICK r : r = [hooks[h] EXCEPT !.pc = "wait"]
  OBVIOUS
<1>3. /\ r \in HookRecord /\ r.pc = "wait" /\ r.on = hooks[h].on /\ r.round = hooks[h].round
      /\ r.via = hooks[h].via /\ r.acted = hooks[h].acted
  BY <1>1, <1>2 DEF HookRecord, Agent!Waiting
<1>4. /\ hooks' = [hooks EXCEPT ![h] = r] /\ hooks[h].pc = "start" /\ (Agent!Reviews(h) \/ hooks[h].on \in Tasks)
      /\ pendingAgentCallbacks' = Agent!With(pendingAgentCallbacks, Agent!dedupeKey(h), h)
      /\ asking' = asking \cup {h}
      /\ UNCHANGED <<role, ms, hookQueue, activeHookWorkers, activeRecoveryKeys,
                     sessions, calls, reboots, orphans, strays, excused>>
  BY <1>1, <1>2 DEF Agent!GatewayBegins, Agent!Moves, Agent!workers, Agent!platform, Agent!history, AgentTyped
<1>5. /\ SlotsKept' /\ KeysHeld' /\ hooks' \in [Agent!HookIds -> HookRecord] /\ GoOn
      /\ hooks'[h] = r /\ \A x \in Agent!HookIds \ {h} : hooks'[x] = hooks[x]
  BY <1>1, <1>3, <1>4, UpdateGoes DEF Agent!Waiting
<1>6. TablesSound'
  <2>1. \A k \in DOMAIN pendingAgentCallbacks' :
            \/ k \in DOMAIN pendingAgentCallbacks /\ pendingAgentCallbacks'[k] = pendingAgentCallbacks[k]
            \/ k = Agent!dedupeKey(h) /\ pendingAgentCallbacks'[k] = h
    BY <1>4 DEF Agent!With
  <2>2. QED
    BY <1>1, <1>4, <1>5, <2>1, TablesKept
<1>7. h \notin asking /\ h \notin sessions /\ \A n \in Agent!CallIds : ~ActsFor(n, h)
  BY <1>1, <1>4 DEF SessionsSound, ActsFor
<1>8. SessionsSound'
  <2>1. \A x \in asking \cup sessions : x \in Agent!HookIds /\ x # h /\ hooks'[x] = hooks[x]
    BY <1>1, <1>5, <1>7 DEF AgentTyped
  <2>2. \A x \in asking' \cup sessions' :
            /\ hooks'[x].pc \notin {"none", "queued", "start"}
            /\ (hooks'[x].on \in Orders /\ role'[hooks'[x].on] = "requester") \/ hooks'[x].on \in Tasks
    <3> TAKE x \in asking' \cup sessions'
    <3>1. CASE x = h
      BY <1>3, <1>4, <1>5, <3>1 DEF Agent!Reviews
    <3>2. CASE x # h
      BY <1>1, <1>4, <2>1, <3>2 DEF SessionsSound, Agent!Reviews
    <3>3. QED
      BY <3>1, <3>2
  <2>3. asking' \cap sessions' = {}
    BY <1>1, <1>4, <1>7 DEF SessionsSound
  <2>4. ASSUME NEW n \in Agent!CallIds, NEW s, s = calls[n].of
        PROVE  /\ calls[n].pc \in {"guard", "child", "post"} => s \in sessions'
               /\ calls[n].pc \in {"guard", "child"} => hooks'[s].on \in Orders /\ role'[hooks'[s].on] = "requester"
               /\ calls[n].pc = "post" => hooks'[s].on \in Tasks
    BY <1>1, <1>4, <2>1, <2>4 DEF SessionsSound, Agent!Reviews
  <2>5. \A x \in Agent!HookIds : hooks'[x].pc \in {"guard", "child"} => hooks'[x].on \in Orders
    BY <1>1, <1>3, <1>5 DEF SessionsSound
  <2>6. QED
    BY <1>4, <2>2, <2>3, <2>4, <2>5 DEF SessionsSound, Agent!Reviews
<1>9. calls' \in [Agent!CallIds -> CallRecord] /\ asking' \cup sessions' \subseteq Agent!HookIds
  BY <1>1, <1>4 DEF AgentTyped
<1>10. \A n \in Agent!CallIds, x \in Agent!HookIds : ActsFor(n, x)' <=> ActsFor(n, x)
  BY <1>4 DEF ActsFor
<1>11. hooks[h].on \in Orders => (InCharge(h)' => InCharge(h))
  <2>1. hooks[h].on \in Orders => h \in Agent!Live
    BY <1>4 DEF Agent!Live, Agent!Waiting
  <2>2. InCharge(h)' => ~hooks[h].acted
    BY <1>3, <1>5, <1>7, <1>10 DEF InCharge, Agent!Live
  <2>3. QED
    BY <2>1, <2>2 DEF InCharge
<1>12. excused \subseteq excused' /\ excused' \subseteq Orders /\ UNCHANGED <<role, ms, reboots, orphans, strays>>
  BY <1>1, <1>4
<1>13. \A n \in Agent!CallIds : ~ActsFor(n, h)'
  BY <1>7, <1>10
<1>14. \A n \in Agent!CallIds, x \in Agent!HookIds \ {h} : ActsFor(n, x)' => ActsFor(n, x)
  BY <1>10
<1>15. QED
  BY <1>3, <1>4, <1>5, <1>6, <1>8, <1>9, <1>11, <1>12, <1>13, <1>14, UpdateKeeps

LEMMA AnswersStep ==
    ASSUME AgentInv, NEW h \in Agent!HookIds, Agent!SpawnAnswers(h)
    PROVE  AgentInv'
<1>1. AgentTyped /\ SessionsSound
  BY DEF AgentInv
<1>2. /\ h \in asking /\ asking' = asking \ {h} /\ sessions' = sessions \cup {h}
      /\ UNCHANGED <<role, ms, hooks, hookQueue, activeHookWorkers, activeRecoveryKeys, pendingAgentCallbacks,
                     calls, reboots, orphans, strays, excused>>
  BY DEF Agent!SpawnAnswers, Agent!platform, Agent!workers, Agent!table, Agent!history
<1>3. SlotsKept' /\ hooks' \in [Agent!HookIds -> HookRecord] /\ KeysHeld' /\ Ending(0)
  BY <1>2, StayEnds
<1>4. /\ asking' \cup sessions' \subseteq asking \cup sessions /\ asking' \cap sessions' = {} /\ sessions \subseteq sessions'
      /\ excused \subseteq excused' /\ excused' \subseteq Orders /\ calls' \in [Agent!CallIds -> CallRecord]
      /\ ms' \in [Orders -> [status : {"pending", "submitted", "rejected", "verified"}, round : Int]]
  BY <1>1, <1>2 DEF SessionsSound, AgentTyped
<1>5. QED
  BY <1>2, <1>3, <1>4, EndingKeeps

LEMMA FailsStep ==
    ASSUME Agent!ConstantsFit, AgentInv, NEW h \in Agent!HookIds, Agent!SpawnFails(h)
    PROVE  AgentInv'
<1>1. AgentTyped /\ SessionsSound
  BY DEF AgentInv
<1>2. /\ h \in asking /\ asking' = asking \ {h} /\ sessions' \in {sessions, sessions \cup {h}}
      /\ pendingAgentCallbacks' = Agent!Without(pendingAgentCallbacks, Agent!dedupeKey(h))
      /\ Agent!Resolve(h, FALSE)
      /\ UNCHANGED <<role, ms, calls, reboots, orphans, strays, excused>>
  BY DEF Agent!SpawnFails, Agent!platform, Agent!history
<1>3. SlotsKept' /\ hooks' \in [Agent!HookIds -> HookRecord] /\ KeysHeld' /\ Ending(h)
  BY <1>2, ResolveEnds
<1>4. /\ asking' \cup sessions' \subseteq asking \cup sessions /\ asking' \cap sessions' = {} /\ sessions \subseteq sessions'
      /\ excused \subseteq excused' /\ excused' \subseteq Orders /\ calls' \in [Agent!CallIds -> CallRecord]
      /\ ms' \in [Orders -> [status : {"pending", "submitted", "rejected", "verified"}, round : Int]]
  BY <1>1, <1>2 DEF SessionsSound, AgentTyped
<1>5. \A n \in Agent!CallIds : ~ActsFor(n, h)'
  BY <1>1, <1>2 DEF SessionsSound, ActsFor
<1>6. \A k \in DOMAIN pendingAgentCallbacks' :
          k \in DOMAIN pendingAgentCallbacks /\ pendingAgentCallbacks'[k] = pendingAgentCallbacks[k]
  BY <1>2 DEF Agent!Without
<1>7. QED
  BY <1>2, <1>3, <1>4, <1>5, <1>6, EndingKeeps

LEMMA TimeoutStep ==
    ASSUME Agent!ConstantsFit, AgentInv, NEW h \in Agent!HookIds, Agent!CallbackTimeout(h)
    PROVE  AgentInv'
<1>1. AgentTyped /\ SessionsSound
  BY DEF AgentInv
<1>2. /\ hooks[h].pc = "wait" /\ Agent!Moves(h, "cli") /\ Agent!Excuse(hooks[h].on, Agent!Outlived(h, 0))
      /\ pendingAgentCallbacks' = Agent!Without(pendingAgentCallbacks, Agent!dedupeKey(h))
      /\ UNCHANGED <<role, ms, asking, sessions, calls, reboots, orphans, strays>>
  BY DEF Agent!CallbackTimeout, Agent!platform
<1>3. SlotsKept' /\ hooks' \in [Agent!HookIds -> HookRecord] /\ KeysHeld' /\ Ending(h)
  BY <1>2, ToLocal
<1>4. /\ excused \subseteq excused' /\ excused' \subseteq Orders
      /\ Agent!Outlived(h, 0) /\ hooks[h].on \in Orders => hooks[h].on \in excused'
  <2>1. Agent!Outlived(h, 0) \in BOOLEAN
    BY DEF Agent!Outlived
  <2>2. QED
    BY <1>1, <1>2, <2>1, Excused
<1>5. hooks[h].on \in Orders \ excused' => \A n \in Agent!CallIds : ~ActsFor(n, h)'
  <2>1. \A n \in Agent!CallIds : ActsFor(n, h)' => Agent!Outlived(h, 0)
    BY <1>2 DEF ActsFor, Agent!Outlived, Agent!CallIds
  <2>2. QED
    BY <1>4, <2>1
<1>6. /\ asking' \cup sessions' \subseteq asking \cup sessions /\ asking' \cap sessions' = {} /\ sessions \subseteq sessions'
      /\ calls' \in [Agent!CallIds -> CallRecord]
      /\ ms' \in [Orders -> [status : {"pending", "submitted", "rejected", "verified"}, round : Int]]
  BY <1>1, <1>2 DEF SessionsSound, AgentTyped
<1>7. \A k \in DOMAIN pendingAgentCallbacks' :
          k \in DOMAIN pendingAgentCallbacks /\ pendingAgentCallbacks'[k] = pendingAgentCallbacks[k]
  BY <1>2 DEF Agent!Without
<1>8. QED
  BY <1>2, <1>3, <1>4, <1>5, <1>6, <1>7, EndingKeeps

(* The other agent moves on only what no hook is in charge of.             *)
LEMMA MovesStep ==
    ASSUME AgentInv, NEW o \in Orders, NEW v, Agent!OrderMoves(o, v)
    PROVE  AgentInv'
<1>1. AgentTyped /\ SessionsSound /\ OneActs
  BY DEF AgentInv
<1>2. UNCHANGED <<role, hooks, hookQueue, activeHookWorkers, activeRecoveryKeys, pendingAgentCallbacks,
                  asking, sessions, calls, reboots, orphans, strays>>
  BY DEF Agent!OrderMoves, Agent!workers, Agent!table
<1>3. /\ excused \subseteq excused' /\ excused' \subseteq Orders
      /\ (v = "submit") = (role[o] = "executor") => o \in excused'
      /\ IF v = "submit" THEN Agent!Submits(o) ELSE Agent!Judges(o, v)
  BY <1>1 DEF Agent!OrderMoves, AgentTyped
<1>4. SlotsKept' /\ hooks' \in [Agent!HookIds -> HookRecord] /\ KeysHeld' /\ Ending(0)
  BY <1>2, StayEnds
<1>5. /\ ms' \in MsType /\ \A p \in Orders : p # o => ms'[p] = ms[p]
      /\ v # "submit" => ms'[o].round = ms[o].round
      /\ v = "submit" => ms[o].status # "submitted"
  BY <1>1, <1>3, SubmitsShape, JudgesShape
<1>6. ASSUME reboots = 0, NEW x \in Agent!HookIds, Plain(x), InCharge(x), hooks[x].on \notin excused'
      PROVE  /\ ms'[hooks[x].on].round = ms[hooks[x].on].round
             /\ role[hooks[x].on] = "requester" => ms'[hooks[x].on].status = ms[hooks[x].on].status
  <2>1. CASE hooks[x].on = o
    <3>1. role[o] \in {"requester", "executor"} /\ (v = "submit") # (role[o] = "executor")
      BY <1>1, <1>3, <1>6, <2>1 DEF AgentTyped
    <3>2. role[o] = "requester" => ms[o].status = "submitted"
      BY <1>1, <1>6, <2>1 DEF OneActs
    <3>3. v # "submit" /\ role[o] = "executor"
      BY <1>5, <3>1, <3>2
    <3>4. QED
      BY <1>5, <2>1, <3>3
  <2>2. CASE hooks[x].on # o
    BY <1>5, <1>6, <2>2 DEF Plain
  <2>3. QED
    BY <2>1, <2>2
<1>7. /\ asking' \cup sessions' \subseteq asking \cup sessions /\ asking' \cap sessions' = {} /\ sessions \subseteq sessions'
      /\ calls' \in [Agent!CallIds -> CallRecord]
  BY <1>1, <1>2 DEF SessionsSound, AgentTyped
<1>8. QED
  BY <1>2, <1>3, <1>4, <1>5, <1>6, <1>7, EndingKeeps DEF MsType

-----------------------------------------------------------------------------
(* A callback comes in, and acts.                                          *)

LEMMA ActsStep ==
    ASSUME Agent!ConstantsFit, AgentInv, NEW n \in Agent!CallIds, Agent!CallbackActs(n)
    PROVE  AgentInv'
<1>1. AgentTyped /\ SlotsKept /\ KeysHeld /\ TablesSound /\ SessionsSound /\ OneActs
  BY DEF AgentInv
<1>2. PICK s : s = calls[n].of
  OBVIOUS
<1>3. /\ s \in sessions /\ s \in Agent!HookIds /\ calls[n].pc = "guard" /\ hooks[s].on \in Orders
      /\ hooks[s].pc \notin {"none", "queued", "start"} /\ hooks[s] \in HookRecord /\ hooks[s].acted \in BOOLEAN
  BY <1>1, <1>2, CalledHook DEF Agent!CallbackActs, SessionsSound, Agent!Reviews, AgentTyped, HookRecord
<1>4. PICK r : r = [hooks[s] EXCEPT !.acted = TRUE]
  OBVIOUS
<1>5. /\ r \in HookRecord /\ r.pc = hooks[s].pc /\ r.on = hooks[s].on /\ r.round = hooks[s].round
      /\ r.via = hooks[s].via /\ r.acted
  BY <1>3, <1>4 DEF HookRecord
<1>6. PICK c : c = [calls[n] EXCEPT !.pc = "child"]
  OBVIOUS
<1>7. c \in CallRecord /\ c.pc = "child" /\ c.of = s /\ c.hook = calls[n].hook
  BY <1>1, <1>2, <1>6 DEF AgentTyped, CallRecord
<1>8. /\ hooks' = [hooks EXCEPT ![s] = r] /\ calls' = [calls EXCEPT ![n] = c]
      /\ Agent!Excuse(hooks[s].on, hooks[s].acted \/ hooks[s].pc # "wait")
      /\ UNCHANGED <<role, ms, hookQueue, activeHookWorkers, activeRecoveryKeys, pendingAgentCallbacks,
                     asking, sessions, reboots, orphans, strays>>
  BY <1>1, <1>2, <1>3, <1>4, <1>6 DEF Agent!CallbackActs, Agent!SetCall, Agent!platform, Agent!workers, Agent!table,
     AgentTyped
<1>9. /\ SlotsKept' /\ KeysHeld' /\ hooks' \in [Agent!HookIds -> HookRecord] /\ GoOn
      /\ hooks'[s] = r /\ \A x \in Agent!HookIds \ {s} : hooks'[x] = hooks[x]
  BY <1>1, <1>3, <1>5, <1>8, UpdateGoes
<1>10. /\ calls' \in [Agent!CallIds -> CallRecord] /\ calls'[n] = c
       /\ \A m \in Agent!CallIds : m # n => calls'[m] = calls[m]
  BY <1>1, <1>7, <1>8 DEF AgentTyped
<1>11. TablesSound'
  BY <1>1, <1>2, <1>7, <1>8, <1>9, <1>10, TablesKept
<1>12. SessionsSound'
  <2>1. \A x \in Agent!HookIds : hooks'[x].pc \in {"guard", "child"} => hooks[x].pc # "none" /\ hooks[x].on \in Orders
    BY <1>1, <1>5, <1>9 DEF SessionsSound
  <2>2. \A m \in Agent!CallIds :
            calls'[m].of = calls[m].of /\ (calls'[m].pc = calls[m].pc \/ (calls'[m].pc = "child" /\ calls[m].pc = "guard"))
    BY <1>2, <1>3, <1>7, <1>10
  <2>3. asking' \cap sessions' = {}
    BY <1>1, <1>8 DEF SessionsSound
  <2>4. QED
    BY <1>1, <1>8, <1>9, <2>1, <2>2, <2>3, SessionsKept
<1>13. /\ excused \subseteq excused' /\ excused' \subseteq Orders
       /\ hooks[s].acted \/ hooks[s].pc # "wait" => hooks[s].on \in excused'
  <2>1. (hooks[s].acted \/ hooks[s].pc # "wait") \in BOOLEAN
    OBVIOUS
  <2>2. QED
    BY <1>1, <1>3, <1>8, <2>1, Excused
<1>14. /\ \A m \in Agent!CallIds, x \in Agent!HookIds \ {s} : ActsFor(m, x)' => ActsFor(m, x)
       /\ \A m \in Agent!CallIds : m # n /\ ActsFor(m, s)' => ActsFor(m, s)
  BY <1>7, <1>10 DEF ActsFor
<1>15. ASSUME reboots = 0, hooks[s].on \in Orders \ excused'
       PROVE  /\ InCharge(s)' => InCharge(s)
              /\ \A m \in Agent!CallIds : ActsFor(m, s)' =>
                    /\ r.pc = "wait" /\ r.acted
                    /\ \A k \in Agent!CallIds : ActsFor(k, s)' => k = m
  <2>1. hooks[s].pc = "wait" /\ ~hooks[s].acted
    BY <1>13, <1>15
  <2>2. \A m \in Agent!CallIds : ~ActsFor(m, s)
    BY <1>1, <1>3, <1>13, <1>15, <2>1 DEF OneActs, Plain
  <2>3. InCharge(s)
    BY <1>3, <2>1 DEF InCharge, Agent!Live, Agent!Waiting
  <2>4. QED
    BY <1>5, <1>14, <2>1, <2>2, <2>3
<1>16. asking' \cup sessions' \subseteq Agent!HookIds
  BY <1>1, <1>8 DEF AgentTyped
<1>17. QED
  BY <1>3, <1>5, <1>8, <1>9, <1>10, <1>11, <1>12, <1>13, <1>14, <1>15, <1>16, UpdateKeeps

LEMMA ArrivesStep ==
    ASSUME Agent!ConstantsFit, AgentInv, NEW s \in Agent!HookIds, NEW n \in Agent!CallIds, NEW v \in Agent!Verdicts,
           Agent!CallbackArrives(s, n, v)
    PROVE  AgentInv'
<1>1. AgentTyped /\ SlotsKept /\ KeysHeld /\ TablesSound /\ SessionsSound /\ OneActs
  BY DEF AgentInv
<1>2. PICK w : w = Agent!Awaiting(s)
  OBVIOUS
<1>3. /\ w \in Agent!HookIds \cup {0}
      /\ w # 0 => hooks[w].pc # "none" /\ Agent!dedupeKey(w) = Agent!dedupeKey(s)
  BY <1>1, <1>2 DEF Agent!Awaiting, TablesSound
<1>4. PICK c : c = [pc |-> IF Agent!Reviews(s) THEN "guard" ELSE "post", of |-> s, hook |-> w, verdict |-> v]
  OBVIOUS
<1>5. /\ c \in CallRecord /\ c.of = s /\ c.hook = w
      /\ c.pc \in {"guard", "post"} /\ (c.pc = "guard" => Agent!Reviews(s)) /\ (c.pc = "post" => ~Agent!Reviews(s))
  BY <1>3, <1>4 DEF CallRecord
<1>6. /\ s \in sessions /\ calls' = [calls EXCEPT ![n] = c]
      /\ UNCHANGED <<role, ms, hooks, hookQueue, activeHookWorkers, activeRecoveryKeys, pendingAgentCallbacks,
                     asking, sessions, reboots, orphans, strays, excused>>
  BY <1>2, <1>4 DEF Agent!CallbackArrives, Agent!NextCall, Agent!SetCall, Agent!platform, Agent!workers, Agent!table,
     Agent!history
<1>7. /\ hooks[s].pc \notin {"none", "queued", "start"} /\ (Agent!Reviews(s) \/ hooks[s].on \in Tasks)
      /\ hooks[s] \in HookRecord
  BY <1>1, <1>6 DEF SessionsSound, AgentTyped
<1>8. /\ calls' \in [Agent!CallIds -> CallRecord] /\ calls'[n] = c
      /\ \A m \in Agent!CallIds : m # n => calls'[m] = calls[m]
  BY <1>1, <1>5, <1>6 DEF AgentTyped
<1>9. PICK r : r = hooks[s]
  OBVIOUS
<1>10. hooks' = [hooks EXCEPT ![s] = r]
  BY <1>1, <1>6, <1>9 DEF AgentTyped
<1>11. SlotsKept' /\ KeysHeld' /\ hooks' \in [Agent!HookIds -> HookRecord]
  BY <1>6, StayEnds
<1>12. GoOn
  BY <1>6 DEF GoOn
<1>13. TablesSound'
  BY <1>1, <1>3, <1>5, <1>6, <1>7, <1>8, <1>12, TablesKept
<1>14. SessionsSound'
  <2>1. \A m \in Agent!CallIds :
            \/ calls'[m] = calls[m]
            \/ m = n /\ calls'[m].of = s /\ calls'[m].pc \in {"guard", "post"}
               /\ (calls'[m].pc = "guard" => Agent!Reviews(s)) /\ (calls'[m].pc = "post" => hooks[s].on \in Tasks)
    BY <1>5, <1>7, <1>8
  <2>2. ASSUME NEW m \in Agent!CallIds, NEW i, i = calls'[m].of
        PROVE  /\ calls'[m].pc \in {"guard", "child", "post"} => i \in sessions'
               /\ calls'[m].pc \in {"guard", "child"} => hooks'[i].on \in Orders /\ role'[hooks'[i].on] = "requester"
               /\ calls'[m].pc = "post" => hooks'[i].on \in Tasks
    BY <1>1, <1>6, <2>1, <2>2 DEF SessionsSound, Agent!Reviews
  <2>3. \A x \in asking' \cup sessions' :
            /\ hooks'[x].pc \notin {"none", "queued", "start"}
            /\ (hooks'[x].on \in Orders /\ role'[hooks'[x].on] = "requester") \/ hooks'[x].on \in Tasks
    BY <1>1, <1>6 DEF SessionsSound, Agent!Reviews
  <2>4. /\ asking' \cap sessions' = {}
        /\ \A x \in Agent!HookIds : hooks'[x].pc \in {"guard", "child"} => hooks'[x].on \in Orders
    BY <1>1, <1>6 DEF SessionsSound
  <2>5. QED
    BY <2>2, <2>3, <2>4 DEF SessionsSound, Agent!Reviews
<1>15. \A m \in Agent!CallIds, x \in Agent!HookIds : ActsFor(m, x)' => ActsFor(m, x)
  BY <1>5, <1>8 DEF ActsFor
<1>16. InCharge(s)' => InCharge(s)
  <2>1. hooks'[s] = hooks[s]
    BY <1>6
  <2>2. QED
    BY <1>15, <2>1 DEF InCharge, Agent!Live
<1>17. ASSUME reboots = 0, hooks[s].on \in Orders \ excused'
       PROVE  \A m \in Agent!CallIds : ActsFor(m, s)' =>
                    /\ r.pc = "wait" /\ r.acted
                    /\ \A k \in Agent!CallIds : ActsFor(k, s)' => k = m
  BY <1>1, <1>6, <1>9, <1>15, <1>17 DEF OneActs, Plain
<1>18. asking' \cup sessions' \subseteq Agent!HookIds /\ excused \subseteq excused' /\ excused' \subseteq Orders
  BY <1>1, <1>6 DEF AgentTyped
<1>19. r \in HookRecord /\ r.on = hooks[s].on /\ r.round = hooks[s].round
  BY <1>7, <1>9
<1>20. \A m \in Agent!CallIds, x \in Agent!HookIds \ {s} : ActsFor(m, x)' => ActsFor(m, x)
  BY <1>15
<1>21. calls' \in [Agent!CallIds -> CallRecord] /\ UNCHANGED <<role, ms, reboots, orphans, strays>>
  BY <1>6, <1>8
<1>22. QED
  BY <1>10, <1>11, <1>12, <1>13, <1>14, <1>16, <1>17, <1>18, <1>19, <1>20, <1>21, UpdateKeeps

-----------------------------------------------------------------------------
(* A hook is queued.                                                       *)

LEMMA QueueKeeps ==
    ASSUME AgentInv, NEW h \in Agent!HookIds, hooks[h].pc = "none", OthersSame(h),
           SlotsKept', hooks' \in [Agent!HookIds -> HookRecord], KeysHeld',
           hooks'[h].pc \in {"queued", "start"},
           UNCHANGED <<role, ms, pendingAgentCallbacks, asking, sessions, calls, orphans, reboots, strays>>,
           excused \subseteq excused', excused' \subseteq Orders,
           hooks'[h].on \in Orders \ excused' =>
              /\ hooks'[h].round = ms[hooks'[h].on].round
              /\ role[hooks'[h].on] = "requester" => ms[hooks'[h].on].status = "submitted"
    PROVE  AgentInv'
<1>1. AgentTyped /\ TablesSound /\ SessionsSound /\ OneActs /\ StraysKnown
  BY DEF AgentInv
<1>2. AgentTyped'
  BY <1>1 DEF AgentTyped
<1>3. GoOn
  BY <1>1, Going
<1>4. TablesSound'
  BY <1>1, <1>3, TablesKept
<1>5. \A x \in Agent!HookIds \ {h} :
          \/ hooks'[x] = hooks[x]
          \/ /\ hooks[x].pc = "queued" /\ hooks'[x].pc = "start" /\ hooks'[x].acted = hooks[x].acted
             /\ hooks'[x].on = hooks[x].on /\ hooks'[x].round = hooks[x].round
  <2> TAKE x \in Agent!HookIds \ {h}
  <2>1. CASE hooks[x].pc = "queued" /\ hooks'[x] = [hooks[x] EXCEPT !.pc = "start"]
    <3>1. hooks[x] \in HookRecord
      BY <1>1 DEF AgentTyped
    <3>2. QED
      BY <2>1, <3>1 DEF HookRecord
  <2>2. QED
    BY <2>1 DEF OthersSame
<1>6. SessionsSound'
  <2>1. \A x \in Agent!HookIds : hooks'[x].pc \in {"guard", "child"} => hooks[x].pc # "none" /\ hooks[x].on \in Orders
    BY <1>1, <1>5 DEF SessionsSound
  <2>2. asking' \cap sessions' = {}
    BY <1>1 DEF SessionsSound
  <2>3. QED
    BY <1>1, <1>3, <2>1, <2>2, SessionsKept
<1>7. \A n \in Agent!CallIds : ~ActsFor(n, h)
  BY <1>1 DEF SessionsSound, ActsFor
<1>8. \A n \in Agent!CallIds, x \in Agent!HookIds : ActsFor(n, x)' <=> ActsFor(n, x)
  BY DEF ActsFor
<1>9. OneActs'
  <2> SUFFICES ASSUME reboots = 0, NEW x \in Agent!HookIds, hooks'[x].on \in Orders \ excused'
               PROVE  /\ \A n \in Agent!CallIds : ActsFor(n, x)' =>
                            /\ hooks'[x].pc = "wait" /\ hooks'[x].acted
                            /\ \A m \in Agent!CallIds : ActsFor(m, x)' => m = n
                      /\ InCharge(x)' =>
                            /\ hooks'[x].round = ms'[hooks'[x].on].round
                            /\ role'[hooks'[x].on] = "requester" => ms'[hooks'[x].on].status = "submitted"
    BY DEF OneActs, Plain
  <2>1. CASE x = h
    BY <1>7, <1>8, <2>1
  <2>2. CASE x # h
    <3>1. Plain(x) /\ hooks'[x].on = hooks[x].on /\ hooks'[x].round = hooks[x].round
      BY <1>5, <2>2 DEF Plain
    <3>2. InCharge(x)' => InCharge(x)
      BY <1>5, <1>8, <2>2 DEF InCharge, Agent!Live, Agent!Waiting
    <3>3. \A n \in Agent!CallIds : ActsFor(n, x) => hooks[x].pc = "wait" /\ hooks'[x] = hooks[x]
      BY <1>1, <1>5, <2>2, <3>1 DEF OneActs
    <3>4. QED
      BY <1>1, <1>8, <3>1, <3>2, <3>3 DEF OneActs
  <2>3. QED
    BY <2>1, <2>2
<1>10. StraysKnown'
  BY <1>1, <1>3 DEF StraysKnown, GoOn, AgentTyped
<1>11. QED
  BY <1>2, <1>4, <1>6, <1>9, <1>10 DEF AgentInv

(* queueAgentHook, for a stage that is not under way or for one that is.   *)
LEMMA OrderQueued ==
    ASSUME Agent!ConstantsFit, AgentInv, NEW h \in Agent!HookIds, Agent!NextHook(h),
           NEW o \in Orders, NEW r \in Agent!Rounds, NEW via \in {"notify", "reconcile"},
           Agent!queueAgentHook(h, o, r, via),
           UNCHANGED <<role, ms, pendingAgentCallbacks, asking, sessions, calls, orphans, reboots, strays>>
    PROVE  AgentInv'
<1>1. AgentTyped /\ SlotsKept /\ KeysHeld /\ SessionsSound /\ hooks[h].pc = "none" /\ r \in Int
  BY DEF AgentInv, Agent!NextHook, Agent!Rounds, Agent!ConstantsFit
<1>2. PICK key : key = Agent!buildMilestoneHookRecoveryKey(o, r)
  OBVIOUS
<1>3. CASE key \in activeRecoveryKeys
  <2>1. UNCHANGED <<hooks, hookQueue, activeHookWorkers, activeRecoveryKeys, excused>>
    BY <1>2, <1>3 DEF Agent!queueAgentHook, Agent!workers
  <2>2. SlotsKept' /\ hooks' \in [Agent!HookIds -> HookRecord] /\ KeysHeld' /\ Ending(0)
    BY <2>1, StayEnds
  <2>3. /\ asking' \cup sessions' \subseteq asking \cup sessions /\ asking' \cap sessions' = {}
        /\ sessions \subseteq sessions' /\ calls' \in [Agent!CallIds -> CallRecord]
        /\ excused \subseteq excused' /\ excused' \subseteq Orders
        /\ ms' \in [Orders -> [status : {"pending", "submitted", "rejected", "verified"}, round : Int]]
    BY <1>1, <2>1 DEF SessionsSound, AgentTyped
  <2>4. QED
    BY <2>1, <2>2, <2>3, EndingKeeps
<1>4. CASE key \notin activeRecoveryKeys
  <2>1. /\ Agent!Queued(h, o, r, via) /\ activeRecoveryKeys' = activeRecoveryKeys \cup {key}
        /\ Agent!Excuse(o, Agent!Outdated(o, r))
    BY <1>2, <1>4 DEF Agent!queueAgentHook
  <2>2. /\ SlotsKept' /\ hooks' \in [Agent!HookIds -> HookRecord] /\ OthersSame(h)
        /\ hooks'[h].pc \in {"queued", "start"}
        /\ hooks'[h].on = o /\ hooks'[h].round = r
    BY <1>1, <2>1, QueuedShape
  <2>3. Agent!recoveryKey(h)' = key
    BY <1>2, <2>2 DEF Agent!recoveryKey, Agent!buildMilestoneHookRecoveryKey
  <2>4. KeysHeld'
    BY <1>1, <1>4, <2>1, <2>2, <2>3, KeysQueue
  <2>5. /\ excused \subseteq excused' /\ excused' \subseteq Orders /\ (Agent!Outdated(o, r) => o \in excused')
    <3>1. Agent!Outdated(o, r) \in BOOLEAN
      BY DEF Agent!Outdated
    <3>2. QED
      BY <1>1, <2>1, <3>1, Excused
  <2>6. o \notin excused' => r = ms[o].round /\ (role[o] = "requester" => ms[o].status = "submitted")
    BY <2>5 DEF Agent!Outdated
  <2>7. QED
    BY <1>1, <2>2, <2>4, <2>5, <2>6, QueueKeeps
<1>5. QED
  BY <1>3, <1>4

LEMMA QueueingStep ==
    ASSUME Agent!ConstantsFit, AgentInv, NEW h \in Agent!HookIds, Agent!Queueing(h)
    PROVE  AgentInv'
<1>1. ASSUME NEW o \in Orders, NEW r \in Agent!Rounds, Agent!NotifyHook(h, o, r) PROVE AgentInv'
  BY <1>1, OrderQueued DEF Agent!NotifyHook, Agent!platform, Agent!table
<1>2. ASSUME NEW o \in Orders, NEW r \in Agent!Rounds, Agent!ReconcileHook(h, o, r) PROVE AgentInv'
  BY <1>2, OrderQueued DEF Agent!ReconcileHook, Agent!platform, Agent!table
<1>3. ASSUME NEW t \in Tasks, Agent!TaskHook(h, t) PROVE AgentInv'
  <2>1. /\ AgentTyped /\ SlotsKept /\ KeysHeld /\ hooks[h].pc = "none" /\ t \notin Orders
        /\ excused \subseteq Orders
    BY <1>3 DEF AgentInv, AgentTyped, Agent!TaskHook, Agent!NextHook, Agent!ConstantsFit
  <2>2. /\ Agent!Queued(h, t, 0, "notify")
        /\ UNCHANGED <<role, ms, activeRecoveryKeys, pendingAgentCallbacks, asking, sessions, calls, orphans,
                       reboots, strays, excused>>
    BY <1>3 DEF Agent!TaskHook, Agent!platform, Agent!table, Agent!history
  <2>3. /\ SlotsKept' /\ hooks' \in [Agent!HookIds -> HookRecord] /\ OthersSame(h)
        /\ hooks'[h].pc \in {"queued", "start"} /\ hooks'[h].on = t
    BY <2>1, <2>2, QueuedShape
  <2>4. KeysHeld'
    <3>1. GoOn
      BY <2>1, <2>3, Going
    <3>2. \A x \in Agent!HookIds : x \in Agent!Live' => x \in Agent!Live
      <4> TAKE x \in Agent!HookIds
      <4>1. CASE x = h
        BY <2>1, <2>3, <4>1 DEF Agent!Live
      <4>2. CASE x # h
        <5>1. hooks'[x].pc \in Agent!Waiting \cup {"queued"} => hooks[x].pc \in Agent!Waiting \cup {"queued"}
          BY <2>3, <4>2 DEF OthersSame
        <5>2. QED
          BY <3>1, <5>1 DEF GoOn, Agent!Live, Agent!Waiting
      <4>3. QED
        BY <4>1, <4>2
    <3>3. QED
      BY <2>1, <2>2, <3>1, <3>2, KeysKept
  <2>5. QED
    BY <2>1, <2>2, <2>3, <2>4, QueueKeeps
<1>4. QED
  BY <1>1, <1>2, <1>3 DEF Agent!Queueing

-----------------------------------------------------------------------------
(* A restart, and what outlives it.                                        *)

LEMMA NothingLinedUp ==
    ASSUME Agent!ConstantsFit, NEW f, \A h \in Agent!HookIds : f[h].pc \notin Agent!Waiting \cup {"queued"}
    PROVE  Lined(<<>>, 0, f)
<1>1. {h \in Agent!HookIds : f[h].pc \in Agent!Waiting} = {} /\ Cardinality({}) = 0
  BY FS_EmptySet
<1>2. <<>> \in Seq(Agent!HookIds)
  OBVIOUS
<1>3. Len(<<>>) = 0 /\ 1..0 = {}
  OBVIOUS
<1>4. MAX_HOOK_CONCURRENCY \in Nat /\ 0 <= MAX_HOOK_CONCURRENCY
  BY DEF Agent!ConstantsFit
<1>5. QED
  BY <1>1, <1>2, <1>3, <1>4 DEF Lined

LEMMA HooksRestart ==
    ASSUME Agent!ConstantsFit, AgentInv, Agent!Restart
    PROVE  AgentInv'
<1>1. AgentTyped /\ SessionsSound /\ StraysKnown
  BY DEF AgentInv
<1>2. /\ hooks' = [h \in Agent!HookIds |-> IF hooks[h].pc = "none" THEN Agent!NoHook
                                           ELSE [hooks[h] EXCEPT !.pc = "done"]]
      /\ calls' = [n \in Agent!CallIds |-> IF calls[n].pc = "none" THEN Agent!NoCall ELSE Agent!Closed]
      /\ hookQueue' = <<>> /\ activeHookWorkers' = 0 /\ pendingAgentCallbacks' = <<>> /\ asking' = {}
      /\ reboots' = reboots + 1 /\ UNCHANGED <<role, ms, sessions, excused, strays>>
  BY DEF Agent!Restart, Agent!platform, Agent!history
<1>3. reboots' \in Nat /\ reboots' > 0
  BY <1>1, <1>2 DEF AgentTyped
<1>4. /\ hooks' \in [Agent!HookIds -> HookRecord]
      /\ \A h \in Agent!HookIds :
            /\ hooks'[h].pc = IF hooks[h].pc = "none" THEN "none" ELSE "done"
            /\ hooks[h].pc # "none" => hooks'[h].on = hooks[h].on
  <2>1. Agent!NoHook \in HookRecord /\ Agent!NoHook.pc = "none"
    BY DEF HookRecord, Agent!NoHook, Agent!Verdicts
  <2>2. \A r \in HookRecord : LET q == [r EXCEPT !.pc = "done"] IN q \in HookRecord /\ q.pc = "done" /\ q.on = r.on
    BY DEF HookRecord
  <2>3. \A h \in Agent!HookIds : hooks[h] \in HookRecord
    BY <1>1 DEF AgentTyped
  <2>4. QED
    BY <1>2, <2>1, <2>2, <2>3
<1>5. /\ calls' \in [Agent!CallIds -> CallRecord]
      /\ \A n \in Agent!CallIds : calls'[n].pc \in {"none", "done"} /\ calls'[n].hook = 0
  BY <1>2 DEF Agent!NoCall, Agent!Closed, CallRecord, Agent!Verdicts
<1>6. AgentTyped'
  BY <1>1, <1>2, <1>3, <1>4, <1>5 DEF AgentTyped
<1>7. SlotsKept'
  <2>1. Lined(<<>>, 0, hooks')
    BY <1>4, NothingLinedUp DEF Agent!Waiting
  <2>2. QED
    BY <1>2, <2>1 DEF SlotsKept, Lined
<1>8. TablesSound'
  BY <1>2, <1>5 DEF TablesSound
<1>9. SessionsSound'
  <2>1. \A h \in asking' \cup sessions' : h \in Agent!HookIds /\ hooks[h].pc # "none"
            /\ ((hooks[h].on \in Orders /\ role[hooks[h].on] = "requester") \/ hooks[h].on \in Tasks)
    BY <1>1, <1>2 DEF SessionsSound, AgentTyped, Agent!Reviews
  <2>2. \A h \in Agent!HookIds : hooks'[h].pc \notin {"queued", "start", "guard", "child"}
    BY <1>4
  <2>3. \A h \in asking' \cup sessions' :
            /\ hooks'[h].pc \notin {"none", "queued", "start"}
            /\ (hooks'[h].on \in Orders /\ role'[hooks'[h].on] = "requester") \/ hooks'[h].on \in Tasks
    BY <1>2, <1>4, <2>1, <2>2
  <2>4. QED
    BY <1>2, <1>5, <2>2, <2>3 DEF SessionsSound, Agent!Reviews
<1>10. KeysHeld'
  BY <1>4 DEF KeysHeld, Agent!Live, Agent!Waiting
<1>11. OneActs'
  BY <1>3 DEF OneActs
<1>12. StraysKnown'
  <2>1. \A c \in orphans' : c.hook \in Agent!HookIds /\ hooks[c.hook].pc # "none" /\ hooks[c.hook].on \in Orders
    <3>1. \A c \in orphans' :
              \/ c \in orphans
              \/ \E h \in Agent!HookIds : hooks[h].pc = "child" /\ c.hook = h
              \/ \E n \in Agent!CallIds : calls[n].pc = "child" /\ c.hook = calls[n].of
      BY DEF Agent!Restart
    <3>2. \A n \in Agent!CallIds : calls[n].pc = "child" =>
              calls[n].of \in Agent!HookIds /\ hooks[calls[n].of].pc # "none" /\ hooks[calls[n].of].on \in Orders
      BY <1>1, CalledHook DEF SessionsSound, Agent!Reviews
    <3>3. QED
      BY <1>1, <3>1, <3>2 DEF StraysKnown, SessionsSound
  <2>2. QED
    BY <1>1, <1>2, <1>3, <1>4, <2>1 DEF StraysKnown, AgentTyped
<1>13. QED
  BY <1>6, <1>7, <1>8, <1>9, <1>10, <1>11, <1>12 DEF AgentInv

LEMMA OrphanStep ==
    ASSUME AgentInv, NEW c \in orphans, Agent!OrphanLands(c)
    PROVE  AgentInv'
<1>1. AgentTyped /\ SessionsSound /\ StraysKnown
  BY DEF AgentInv
<1>2. PICK h : h = c.hook
  OBVIOUS
<1>3. reboots > 0 /\ h \in Agent!HookIds /\ hooks[h].pc # "none" /\ hooks[h].on \in Orders
  BY <1>1, <1>2 DEF StraysKnown
<1>4. /\ Agent!Lands(h, c.verdict) /\ orphans' \subseteq orphans
      /\ UNCHANGED <<hooks, hookQueue, activeHookWorkers, activeRecoveryKeys, pendingAgentCallbacks,
                     asking, sessions, calls, reboots, excused>>
  BY <1>2 DEF Agent!OrphanLands, Agent!workers, Agent!table
<1>5. Agent!ChildEnds(h, c.verdict, TRUE)
  BY <1>4 DEF Agent!ChildEnds
<1>6. UNCHANGED role /\ ms' \in MsType /\ strays' \subseteq strays \cup {h}
  BY <1>1, <1>3, <1>5, ChildShape
<1>7. SlotsKept' /\ hooks' \in [Agent!HookIds -> HookRecord] /\ KeysHeld' /\ Ending(0)
  BY <1>4, <1>6, StayEnds
<1>8. /\ asking' \cup sessions' \subseteq asking \cup sessions /\ asking' \cap sessions' = {}
      /\ sessions \subseteq sessions' /\ calls' \in [Agent!CallIds -> CallRecord]
      /\ excused \subseteq excused' /\ excused' \subseteq Orders /\ reboots # 0
  BY <1>1, <1>3, <1>4 DEF SessionsSound, AgentTyped
<1>9. QED
  BY <1>3, <1>4, <1>6, <1>7, <1>8, EndingKeeps DEF MsType

LEMMA AgentStutters == ASSUME AgentInv, UNCHANGED Agent!vars PROVE AgentInv'
<1>1. UNCHANGED <<role, ms, hooks, hookQueue, activeHookWorkers, activeRecoveryKeys, pendingAgentCallbacks,
                  asking, sessions, calls, orphans, reboots, excused, strays>>
  BY DEF Agent!vars, Agent!platform, Agent!workers, Agent!table, Agent!history
<1>2. AgentTyped /\ SessionsSound
  BY DEF AgentInv
<1>3. SlotsKept' /\ hooks' \in [Agent!HookIds -> HookRecord] /\ KeysHeld' /\ Ending(0)
  BY <1>1, StayEnds
<1>4. /\ asking' \cup sessions' \subseteq asking \cup sessions /\ asking' \cap sessions' = {}
      /\ sessions \subseteq sessions' /\ calls' \in [Agent!CallIds -> CallRecord]
      /\ excused \subseteq excused' /\ excused' \subseteq Orders
      /\ ms' \in [Orders -> [status : {"pending", "submitted", "rejected", "verified"}, round : Int]]
  BY <1>1, <1>2 DEF SessionsSound, AgentTyped
<1>5. QED
  BY <1>1, <1>3, <1>4, EndingKeeps

-----------------------------------------------------------------------------
LEMMA AgentInit == ASSUME Agent!ConstantsFit, Agent!Init PROVE AgentInv
<1> USE DEF Agent!Init
<1>1. Agent!NoHook \in HookRecord /\ Agent!NoHook.pc = "none"
  BY DEF HookRecord, Agent!NoHook, Agent!Verdicts
<1>2. Agent!NoCall \in CallRecord /\ Agent!NoCall.pc = "none" /\ Agent!NoCall.hook = 0
  BY DEF CallRecord, Agent!NoCall, Agent!Verdicts
<1>3. AgentTyped
  BY <1>1, <1>2 DEF AgentTyped
<1>4. \A h \in Agent!HookIds : hooks[h].pc = "none"
  BY <1>1
<1>5. SlotsKept
  BY <1>4, NothingLinedUp DEF SlotsKept, Agent!Waiting
<1>6. TablesSound
  BY <1>2 DEF TablesSound
<1>7. SessionsSound
  BY <1>2, <1>4 DEF SessionsSound
<1>8. KeysHeld
  BY <1>4 DEF KeysHeld, Agent!Live, Agent!Waiting
<1>9. OneActs
  <2>1. \A h \in Agent!HookIds, n \in Agent!CallIds : ~ActsFor(n, h)
    BY <1>2 DEF ActsFor
  <2>2. \A h \in Agent!HookIds : ~InCharge(h)
    BY <1>4, <2>1 DEF InCharge, Agent!Live, Agent!Waiting
  <2>3. QED
    BY <2>1, <2>2 DEF OneActs
<1>10. StraysKnown
  BY DEF StraysKnown
<1>11. QED
  BY <1>3, <1>5, <1>6, <1>7, <1>8, <1>9, <1>10 DEF AgentInv

LEMMA AgentStep == ASSUME Agent!ConstantsFit, AgentInv, [Agent!Next]_Agent!vars PROVE AgentInv'
<1>1. CASE UNCHANGED Agent!vars
  BY <1>1, AgentStutters
<1>2. ASSUME NEW o \in Orders, NEW v \in Agent!Verdicts, Agent!OrderMoves(o, v) PROVE AgentInv'
  BY <1>2, MovesStep
<1>3. ASSUME NEW h \in Agent!HookIds, Agent!Queueing(h) PROVE AgentInv'
  BY <1>3, QueueingStep
<1>4. ASSUME NEW h \in Agent!HookIds, Agent!Session(h) PROVE AgentInv'
  <2>1. PICK n \in Agent!CallIds :
            \/ Agent!CallbackFailed(h, n) \/ Agent!CallbackSkipped(h, n)
            \/ \E v \in Agent!Verdicts : Agent!CallbackDuplicate(h, n, v) \/ Agent!CallbackArrives(h, n, v)
    BY <1>4 DEF Agent!Session
  <2>2. QED
    BY <2>1, FailedStep, SkippedStep, DuplicateStep, ArrivesStep
<1>5. ASSUME NEW h \in Agent!HookIds, Agent!Gateway(h) PROVE AgentInv'
  BY <1>5, BeginsStep, AnswersStep, FailsStep, TimeoutStep DEF Agent!Gateway
<1>6. ASSUME NEW h \in Agent!HookIds, Agent!Local(h) PROVE AgentInv'
  <2>1. \/ Agent!LocalBegins(h) \/ Agent!LocalRetries(h) \/ Agent!LocalActs(h)
        \/ Agent!LocalEnds(h) \/ Agent!LocalGuarded(h)
        \/ \E v \in Agent!Verdicts : Agent!LocalConcludes(h, v)
        \/ \E ok \in BOOLEAN : Agent!LocalActed(h, ok)
    BY <1>6 DEF Agent!Local
  <2>2. QED
    BY <2>1, LocalSteps, LocalFinish, LocalActedStep
<1>7. ASSUME NEW n \in Agent!CallIds, Agent!Callback(n) PROVE AgentInv'
  BY <1>7, GuardedStep, ActsStep, ActedStep, PostedStep DEF Agent!Callback
<1>8. CASE Agent!Restart
  BY <1>8, HooksRestart
<1>9. ASSUME NEW c \in orphans, Agent!OrphanLands(c) PROVE AgentInv'
  BY <1>9, OrphanStep
<1>10. QED
  BY <1>1, <1>2, <1>3, <1>4, <1>5, <1>6, <1>7, <1>8, <1>9 DEF Agent!Next

(* The slots for hooks are counted right however hooks end, and none is    *)
(* left in the queue while one is free (processHookQueue and the callback  *)
(* table): for any number of hooks, slots, retries and callbacks.          *)
THEOREM SlotsOfHooks == Agent!ConstantsFit => (Agent!Spec => []SlotsHeld)
<1> SUFFICES ASSUME Agent!ConstantsFit PROVE Agent!Spec => []SlotsHeld
  OBVIOUS
<1>1. Agent!Init => AgentInv
  BY AgentInit
<1>2. AgentInv /\ [Agent!Next]_Agent!vars => AgentInv'
  BY AgentStep
<1>3. AgentInv => SlotsHeld
  <2>1. Running = Agent!Running
    BY DEF HookIds, Running, Waiting, Agent!HookIds, Agent!Running, Agent!Waiting
  <2>2. AgentInv => Agent!SlotsHeld
    BY SlotsAreHeld DEF AgentInv
  <2>3. QED
    BY <2>1, <2>2, SameCardinality DEF SlotsHeld, HookIds, Agent!SlotsHeld, Agent!HookIds
<1>4. QED
  BY <1>1, <1>2, <1>3, PTL DEF Agent!Spec

(* What an agent concluded lands on the submission it was asked about, on  *)
(* an order where only the hook in charge acted (executeRecommended-       *)
(* ActionDirect with its guard and its keys), whatever overlaps.           *)
THEOREM StraysAreExplained == Agent!ConstantsFit => (Agent!Spec => []StraysExplained)
<1> SUFFICES ASSUME Agent!ConstantsFit PROVE Agent!Spec => []StraysExplained
  OBVIOUS
<1>1. Agent!Init => AgentInv
  BY AgentInit
<1>2. AgentInv /\ [Agent!Next]_Agent!vars => AgentInv'
  BY AgentStep
<1>3. AgentInv => StraysExplained
  BY DEF AgentInv, StraysKnown, StraysExplained
<1>4. QED
  BY <1>1, <1>2, <1>3, PTL DEF Agent!Spec
=============================================================================
