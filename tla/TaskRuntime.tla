---------------------------- MODULE TaskRuntime -----------------------------
(***************************************************************************)
(* The life of a peer-to-peer task in `atel start` (src/bin/atel.mjs):     *)
(* its handler checks it, may queue it for confirmation, else registers it *)
(* and hands it to the executor; `atel approve` and `atel reject` settle   *)
(* what is queued; the executor posts results.  Handlers suspend at their  *)
(* awaits and overlap there.  Every task message draws an id of its own,   *)
(* so that a task here is one arrival.  The queue of tasks to confirm is   *)
(* kept in a file that the runtime and the commands read and rewrite       *)
(* whole; the table of registered tasks is kept in memory and saved.       *)
(***************************************************************************)
EXTENDS Integers, FiniteSets

CONSTANTS
    Tasks,
    Signed,         \* the tasks that carry a signature to verify
    MaxConcurrent,  \* of the policy
    Approvals,      \* bound on the approvals at one time
    Posts,          \* bound on the result posts at one time
    MaxAsks,        \* bound on the approvals of each task
    MaxPosts,       \* bound on the result posts for each task
    MaxRestarts,    \* bound on the restarts
    None

ASSUME TaskRuntimeAssumption ==
    /\ IsFiniteSet(Tasks) /\ Signed \subseteq Tasks
    /\ None \notin {"pending_confirm", "approved", "rejected"}
    /\ MaxConcurrent \in Nat \ {0}
    /\ MaxAsks \in [Tasks -> Nat] /\ MaxPosts \in [Tasks -> Nat] /\ MaxRestarts \in Nat

VARIABLES
    executor,   \* whether an executor is configured, which does not change
    stage,      \* where the handler of each task has come
    pending,    \* the file of tasks to confirm: the status of each
    tasks,      \* pendingTasks, and its file
    active,     \* activeTasks of the PolicyEnforcer
    approvals,  \* approvals under way, with what they have read of the file
    posts,      \* result posts under way
    asked,      \* history: how often each task was approved by its user
    runs,       \* history: how often the approval of each was forwarded
    posted,     \* history: how often a result of each was taken
    finished,   \* history: how often each was finished
    torn,       \* history: whether a restart cut a save of the table short
    restarts

counts == <<asked, runs, posted, finished, torn>>
vars == <<executor, stage, pending, tasks, active, approvals, posts, counts, restarts>>

Stages == {"new", "verifying", "started", "refused", "queued", "accepted", "echo", "completed", "lost"}
Statuses == {None, "pending_confirm", "approved", "rejected"}

Forgotten == [t \in Tasks |-> None]

Approval == [task : Tasks, step : {"asked", "running", "answered"}, waits : BOOLEAN,
             read : [Tasks -> Statuses],  \* by the endpoint
             cli : [Tasks -> Statuses]]   \* by the command

Post == [task : Tasks, scored : BOOLEAN]

Init ==
    /\ executor \in BOOLEAN
    /\ stage = [t \in Tasks |-> "new"]
    /\ pending = Forgotten
    /\ tasks = {} /\ active = 0
    /\ approvals = [c \in Approvals |-> None]
    /\ posts = [p \in Posts |-> None]
    /\ asked = [t \in Tasks |-> 0] /\ runs = [t \in Tasks |-> 0]
    /\ posted = [t \in Tasks |-> 0] /\ finished = [t \in Tasks |-> 0]
    /\ torn = FALSE
    /\ restarts = 0

At(t, s) == stage' = [stage EXCEPT ![t] = s]

-----------------------------------------------------------------------------
(* Audit, policy, capability, signature or access may refuse a task. *)
Refuse(t) ==
    /\ stage[t] \in {"new", "verifying"}
    /\ At(t, "refused")
    /\ UNCHANGED <<executor, pending, tasks, active, approvals, posts, counts, restarts>>

(* PolicyEnforcer.check. *)
Room == active < MaxConcurrent

(* Mutant: the slot is not given back. *)
FinishedIdle == active

TaskFinished == IF active = 0 THEN 0 ELSE active - 1

(* What has passed the checks is queued, or takes its slot.                *)
Admit(t) ==
    /\ \/ At(t, "queued") /\ pending' = [pending EXCEPT ![t] = "pending_confirm"]
          /\ UNCHANGED active
       \/ At(t, "started") /\ active' = active + 1 /\ UNCHANGED pending
    /\ UNCHANGED <<executor, tasks, approvals, posts, counts, restarts>>

Arrive(t) ==
    /\ stage[t] = "new" /\ Room
    /\ IF t \in Signed
       THEN At(t, "verifying")
            /\ UNCHANGED <<executor, pending, tasks, active, approvals, posts, counts, restarts>>
       ELSE Admit(t)

Verified(t) == stage[t] = "verifying" /\ Admit(t)

(* The sender was looked up: the task is registered and handed over, or    *)
(* echoed if nobody is there to take it.                                   *)
Register(t) ==
    /\ stage[t] = "started"
    /\ tasks' = tasks \cup {t}
    /\ \/ At(t, "accepted") /\ UNCHANGED active
       \/ ~executor /\ At(t, "echo") /\ active' = TaskFinished
    /\ UNCHANGED <<executor, pending, approvals, posts, counts, restarts>>

Echoed(t) ==
    /\ stage[t] = "echo" /\ At(t, "completed")
    /\ tasks' = tasks \ {t}
    /\ finished' = [finished EXCEPT ![t] = @ + 1]
    /\ UNCHANGED <<executor, pending, active, approvals, posts, asked, runs, posted, torn, restarts>>

-----------------------------------------------------------------------------
(* atel approve: the command reads the file and asks the runtime. *)
AskApproval(c, t) ==
    /\ approvals[c] = None /\ asked[t] < MaxAsks[t]
    /\ pending[t] = "pending_confirm"
    /\ approvals' = [approvals EXCEPT ![c] =
           [task |-> t, step |-> "asked", waits |-> TRUE, read |-> Forgotten, cli |-> pending]]
    /\ asked' = [asked EXCEPT ![t] = @ + 1]
    /\ UNCHANGED <<executor, stage, pending, tasks, active, posts, runs, posted, finished, torn, restarts>>

(* POST /atel/v1/approve forwards the task and awaits the executor.        *)
RunApproval(c) ==
    LET t == approvals[c].task
    IN  /\ approvals[c] # None /\ approvals[c].step = "asked"
        /\ executor /\ pending[t] = "pending_confirm"
        /\ approvals' = [approvals EXCEPT ![c].step = "running", ![c].read = pending]
        /\ tasks' = tasks \cup {t} /\ active' = active + 1
        /\ runs' = [runs EXCEPT ![t] = @ + 1]
        /\ UNCHANGED <<executor, stage, pending, posts, asked, posted, finished, torn, restarts>>

(* The endpoint refuses, the executor fails, or nobody answers. *)
FailApproval(c) ==
    /\ approvals[c] # None
    /\ \/ approvals[c].step = "running"
       \/ /\ approvals[c].step = "asked"
          /\ ~executor \/ pending[approvals[c].task] # "pending_confirm" \/ ~approvals[c].waits
    /\ approvals' = [approvals EXCEPT ![c] = None]
    /\ UNCHANGED <<executor, stage, pending, tasks, active, posts, counts, restarts>>

(* The command gives up after ten seconds, the endpoint after ten minutes. *)
Timeout(c) ==
    /\ approvals[c] # None /\ approvals[c].waits /\ approvals[c].step # "answered"
    /\ approvals' = [approvals EXCEPT ![c].waits = FALSE, ![c].cli = Forgotten]
    /\ UNCHANGED <<executor, stage, pending, tasks, active, posts, counts, restarts>>

(* The executor has answered: the file is rewritten as it was read.        *)
EndApproval(c) ==
    /\ approvals[c] # None /\ approvals[c].step = "running"
    /\ pending' = [approvals[c].read EXCEPT ![approvals[c].task] = "approved"]
    /\ approvals' = [approvals EXCEPT ![c] =
           IF approvals[c].waits
           THEN [approvals[c] EXCEPT !.step = "answered", !.read = Forgotten] ELSE None]
    /\ UNCHANGED <<executor, stage, tasks, active, posts, counts, restarts>>

(* The command rewrites the file as it had read it. *)
ConfirmApproval(c) ==
    /\ approvals[c] # None /\ approvals[c].step = "answered"
    /\ pending' = [approvals[c].cli EXCEPT ![approvals[c].task] = "approved"]
    /\ approvals' = [approvals EXCEPT ![c] = None]
    /\ UNCHANGED <<executor, stage, tasks, active, posts, counts, restarts>>

(* atel reject. *)
Reject(t) ==
    /\ pending[t] = "pending_confirm"
    /\ pending' = [pending EXCEPT ![t] = "rejected"]
    /\ UNCHANGED <<executor, stage, tasks, active, approvals, posts, counts, restarts>>

-----------------------------------------------------------------------------
(* POST /atel/v1/result of a registered task gives its slot back. *)
TakeResult(p, t) ==
    /\ posts[p] = None /\ posted[t] < MaxPosts[t]
    /\ t \in tasks /\ stage[t] # "echo"
    /\ posts' = [posts EXCEPT ![p] = [task |-> t, scored |-> FALSE]]
    /\ active' = TaskFinished
    /\ posted' = [posted EXCEPT ![t] = @ + 1]
    /\ UNCHANGED <<executor, stage, pending, tasks, approvals, asked, runs, finished, torn, restarts>>

(* The trace or the proof throws: the task stays registered. *)
FailResult(p) ==
    /\ posts[p] # None /\ ~posts[p].scored
    /\ posts' = [posts EXCEPT ![p] = None]
    /\ UNCHANGED <<executor, stage, pending, tasks, active, approvals, counts, restarts>>

(* Anchored: the scores are updated and saved ... *)
ScoreResult(p) ==
    /\ posts[p] # None /\ ~posts[p].scored
    /\ posts' = [posts EXCEPT ![p].scored = TRUE]
    /\ finished' = [finished EXCEPT ![posts[p].task] = @ + 1]
    /\ UNCHANGED <<executor, stage, pending, tasks, active, approvals, asked, runs, posted, torn, restarts>>

(* ... and, the result pushed or entered in its queue, the task is done.   *)
CloseResult(p) ==
    /\ posts[p] # None /\ posts[p].scored
    /\ posts' = [posts EXCEPT ![p] = None]
    /\ tasks' = tasks \ {posts[p].task}
    /\ UNCHANGED <<executor, stage, pending, active, approvals, counts, restarts>>

-----------------------------------------------------------------------------
(* Something is about to save the table, which is rewritten in place. *)
SaveUnderWay ==
    \/ \E t \in Tasks : stage[t] \in {"started", "echo"}
    \/ \E c \in Approvals : approvals[c] # None /\ approvals[c].step = "asked"
    \/ \E p \in Posts : posts[p] # None /\ posts[p].scored

(* Mutant: the registered tasks are not read back. *)
ReloadNothing == tasks' = {} /\ UNCHANGED torn

(* The table is read back; nothing is if its save was cut short.           *)
Reload ==
    \/ UNCHANGED <<tasks, torn>>
    \/ SaveUnderWay /\ tasks' = {} /\ torn' = TRUE

(* The runtime ends, whatever its handlers were doing, and starts again;   *)
(* a command that has its answer goes on.                                  *)
Restart ==
    /\ restarts < MaxRestarts /\ restarts' = restarts + 1
    /\ active' = 0
    /\ Reload
    /\ stage' = [t \in Tasks |-> IF stage[t] \in {"verifying", "started", "echo"} THEN "lost" ELSE stage[t]]
    /\ approvals' = [c \in Approvals |->
           IF approvals[c] # None /\ approvals[c].step = "answered" THEN approvals[c] ELSE None]
    /\ posts' = [p \in Posts |-> None]
    /\ UNCHANGED <<executor, pending, asked, runs, posted, finished>>

Next ==
    \/ \E t \in Tasks :
           \/ Refuse(t) \/ Arrive(t) \/ Verified(t) \/ Register(t) \/ Echoed(t)
           \/ Reject(t)
           \/ \E c \in Approvals : AskApproval(c, t)
           \/ \E p \in Posts : TakeResult(p, t)
    \/ \E c \in Approvals :
           RunApproval(c) \/ FailApproval(c) \/ Timeout(c) \/ EndApproval(c) \/ ConfirmApproval(c)
    \/ \E p \in Posts : FailResult(p) \/ ScoreResult(p) \/ CloseResult(p)
    \/ Restart

Spec == Init /\ [][Next]_vars

-----------------------------------------------------------------------------
(* Every variable has its type. *)
TypeOK ==
    /\ executor \in BOOLEAN
    /\ stage \in [Tasks -> Stages]
    /\ pending \in [Tasks -> Statuses]
    /\ tasks \subseteq Tasks /\ active \in Nat
    /\ approvals \in [Approvals -> Approval \cup {None}]
    /\ posts \in [Posts -> Post \cup {None}]
    /\ asked \in [Tasks -> Nat] /\ runs \in [Tasks -> Nat]
    /\ posted \in [Tasks -> Nat] /\ finished \in [Tasks -> Nat]
    /\ \A t \in Tasks : asked[t] <= MaxAsks[t] /\ posted[t] <= MaxPosts[t]
    /\ torn \in BOOLEAN
    /\ restarts \in 0..MaxRestarts

(* Until a restart forgets the slots taken, there is one for each task     *)
(* that is being started or awaits its result, as long as no task is       *)
(* approved or reported more than once: none leaks, none is given back     *)
(* that another task holds.                                                *)
SlotsMatch ==
    restarts = 0 /\ (\A t \in Tasks : runs[t] <= 1 /\ posted[t] <= 1) =>
        active = Cardinality({t \in Tasks : stage[t] = "started"})
               + Cardinality({t \in tasks : stage[t] # "echo" /\ posted[t] = 0})

(* What was answered as accepted is registered until it is finished,       *)
(* whatever restarts, unless one cuts a save of the table short: the       *)
(* result the executor will post is not refused.                           *)
AcceptedTracked ==
    torn \/ \A t \in Tasks : stage[t] = "accepted" /\ finished[t] = 0 => t \in tasks
=============================================================================
