----------------------------- MODULE AgentHooks -----------------------------
(***************************************************************************)
(* The work a runtime hands to AI agents (src/bin/atel.mjs): a queue of    *)
(* hooks with a few slots, a session of the gateway that calls back with   *)
(* its conclusion, the local agent as the fallback, and the child process  *)
(* that carries the conclusion out on the platform.  A callback is awaited *)
(* for ten minutes, the session gives up on its answer after ten seconds,  *)
(* and the action it asked for may take three minutes: callbacks are       *)
(* repeated, overlap, come late, and come for hooks that went on without   *)
(* them.  Orders are seen from one side, through the one milestone that    *)
(* is under way; the platform and the other agent move it too.             *)
(***************************************************************************)
EXTENDS HookPromises

CONSTANTS
    Orders, Tasks,           \* what hooks are about; tasks are those of peers
    MaxAttempts,             \* retries of the local agent
    MaxCallbacks,            \* bound: callbacks of all sessions
    Budgets,                 \* bound: what one behaviour has of callbacks and mishaps
    RejectLimit              \* submissions of a milestone before arbitration

ConstantsFit ==
    /\ Orders \cap Tasks = {}
    /\ MAX_HOOK_CONCURRENCY \in Nat \ {0}
    /\ MaxHooks \in Nat /\ MaxAttempts \in Nat /\ MaxCallbacks \in Nat /\ RejectLimit \in Nat
    /\ Budgets \subseteq [calls : 0..MaxCallbacks, restarts : Nat, retries : 0..MaxAttempts,
                            hand : BOOLEAN, old : BOOLEAN, tasks : BOOLEAN]

ASSUME AgentHooksAssumption == ConstantsFit

VARIABLES
    budget,
    role,        \* of this agent in each order
    ms,          \* the milestone of each order: its status, submitCount as round
    answered,    \* tasks whose result /result took
    activeRecoveryKeys,
    hooked,      \* keys of notifications that were hooked: 'hook:' in processedEvents
    pendingAgentCallbacks, \* the hook that awaits a callback, by key
    persisted,   \* the file of pending callbacks
    inflight,    \* __atelActiveDirectActionKeys
    asking,      \* hooks whose request for a session is under way
    sessions,    \* hooks that have a session, answered for or not
    calls,       \* callbacks, by the order they came in
    orphans      \* child processes that outlived the runtime

platform == <<budget, role, ms, answered>>
workers == <<hookQueue, activeHookWorkers, activeRecoveryKeys>>
table == <<pendingAgentCallbacks, persisted>>
history == <<excused, strays>>
vars == <<platform, hooks, workers, hooked, table, inflight, asking, sessions, calls, orphans, reboots, history>>

CallIds == 1..MaxCallbacks
Rounds == 0..RejectLimit
Verdicts == {"pass", "reject", "submit", "none"}
NoHook == [pc |-> "none", on |-> "none", round |-> 0, via |-> "none", verdict |-> "none",
           attempt |-> 0, acted |-> FALSE]
NoCall == [pc |-> "none", of |-> 0, hook |-> 0, verdict |-> "none"]
Closed == [NoCall EXCEPT !.pc = "done"]

Init ==
    /\ budget \in Budgets
    /\ role \in [Orders -> {"requester", "executor"}]
    /\ ms = [o \in Orders |-> [status |-> "pending", round |-> 0]]
    /\ answered = {}
    /\ hooks = [h \in HookIds |-> NoHook]
    /\ hookQueue = <<>> /\ activeHookWorkers = 0 /\ activeRecoveryKeys = {}
    /\ hooked = {}
    /\ pendingAgentCallbacks = <<>> /\ persisted = <<>>
    /\ inflight = {}
    /\ asking = {} /\ sessions = {}
    /\ calls = [n \in CallIds |-> NoCall]
    /\ orphans = {} /\ reboots = 0
    /\ excused = {} /\ strays = {}
-----------------------------------------------------------------------------
(* The platform. *)

Reviews(h) == hooks[h].on \in Orders /\ role[hooks[h].on] = "requester"

Submits(o) ==
    /\ ms[o].status \in {"pending", "rejected"} /\ ms[o].round < RejectLimit
    /\ ms' = [ms EXCEPT ![o] = [status |-> "submitted", round |-> @.round + 1]]

Judges(o, verdict) ==
    /\ ms[o].status = "submitted"
    /\ ms' = [ms EXCEPT ![o].status = IF verdict = "pass" THEN "verified" ELSE "rejected"]

\* The other agent submits or judges, or the user of this one and the shell
\* of its agent do.
OrderMoves(o, verdict) ==
    LET hand == (role[o] = "executor") <=> (verdict = "submit") IN
    /\ hand => budget.hand
    /\ IF verdict = "submit" THEN Submits(o) ELSE Judges(o, verdict)
    /\ excused' = IF hand THEN excused \cup {o} ELSE excused
    /\ UNCHANGED <<budget, role, answered, hooks, workers, hooked, table, inflight, asking, sessions, calls,
                   orphans, reboots, strays>>

\* What the command of a child process does there, for hook `h`.
Lands(h, verdict) ==
    LET o == hooks[h].on IN
    /\ IF verdict = "submit" THEN Submits(o) ELSE Judges(o, verdict)
    /\ strays' = IF hooks[h].round # ms[o].round THEN strays \cup {h} ELSE strays
    /\ UNCHANGED <<budget, role, answered>>
-----------------------------------------------------------------------------
(* The queue. *)

buildMilestoneHookRecoveryKey(o, r) == <<o, IF role[o] = "requester" THEN r ELSE 0, role[o]>>

recoveryKey(h) == buildMilestoneHookRecoveryKey(hooks[h].on, hooks[h].round)

dedupeKey(h) == <<hooks[h].on, hooks[h].round, hooks[h].via>>

\* processHookQueue: how many of `queue` start when `active` slots are taken.
Starts(queue, active) ==
    IF Len(queue) < MAX_HOOK_CONCURRENCY - active THEN Len(queue) ELSE MAX_HOOK_CONCURRENCY - active

processHookQueue(queue, active, after) ==
    LET k == Starts(queue, active)
        started == {queue[i] : i \in 1..k}
    IN /\ hookQueue' = SubSeq(queue, k + 1, Len(queue))
       /\ activeHookWorkers' = active + k
       /\ hooks' = [h \in HookIds |-> IF h \in started THEN [after[h] EXCEPT !.pc = "start"] ELSE after[h]]

Queued(h, on, r, via) ==
    processHookQueue(Append(hookQueue, h), activeHookWorkers,
        [hooks EXCEPT ![h] = [NoHook EXCEPT !.pc = "queued", !.on = on, !.round = r, !.via = via]])

\* Something else than the one hook in charge acts on an order, or may.
Excuse(o, cause) == excused' = IF cause /\ o \in Orders THEN excused \cup {o} ELSE excused

\* What it was queued for is no longer so.
Outdated(o, r) ==
    \/ r # ms[o].round
    \/ ms[o].status \notin IF role[o] = "requester" THEN {"submitted"} ELSE {"pending", "rejected"}

\* Mutant: a stage that is under way is queued again.
queueAgentHookAgain(h, o, r, via) ==
    LET key == buildMilestoneHookRecoveryKey(o, r) IN
    /\ Queued(h, o, r, via)
    /\ activeRecoveryKeys' = activeRecoveryKeys \cup {key}
    /\ Excuse(o, Outdated(o, r))

queueAgentHook(h, o, r, via) ==
    LET key == buildMilestoneHookRecoveryKey(o, r) IN
    IF key \in activeRecoveryKeys
    THEN UNCHANGED <<hooks, workers, excused>>
    ELSE /\ Queued(h, o, r, via)
         /\ activeRecoveryKeys' = activeRecoveryKeys \cup {key}
         /\ Excuse(o, Outdated(o, r))

\* The next hook; what follows is possible until the bound is reached.
NextHook(h) == hooks[h].pc = "none" /\ \A i \in 1..(h-1) : hooks[i].pc # "none"

\* Rounds of which the platform may have told, now or earlier.
Told(o) == IF role[o] = "requester" THEN 1..ms[o].round ELSE {r \in 0..ms[o].round : r < RejectLimit}

\* A notification, however old: one hook for its key.
NotifyHook(h, o, r) ==
    /\ NextHook(h) /\ r \in Told(o) /\ budget.old
    /\ <<o, r, "notify">> \notin hooked
    /\ hooked' = hooked \cup {<<o, r, "notify">>}
    /\ queueAgentHook(h, o, r, "notify")
    /\ UNCHANGED <<platform, table, inflight, asking, sessions, calls, orphans, reboots, strays>>

\* The reconciliation of orders, every three seconds, with what it fetched.
ReconcileHook(h, o, r) ==
    /\ NextHook(h) /\ r \in Told(o)
    /\ Outdated(o, r) => budget.old
    /\ queueAgentHook(h, o, r, "reconcile")
    /\ UNCHANGED <<platform, hooked, table, inflight, asking, sessions, calls, orphans, reboots, strays>>

\* A task of a peer: its id is new, and it has no recovery key.
TaskHook(h, t) ==
    /\ NextHook(h) /\ budget.tasks
    /\ \A i \in HookIds : hooks[i].on # t
    /\ Queued(h, t, 0, "notify")
    /\ UNCHANGED <<platform, activeRecoveryKeys, hooked, table, inflight, asking, sessions, calls, orphans, reboots, history>>

Ended(h) == [hooks EXCEPT ![h] = [@ EXCEPT !.pc = "done", !.attempt = 0, !.verdict = "none", !.acted = FALSE]]

\* Mutant: the queue is not looked at when a hook ends.
finishHookAlone(h) ==
    /\ hookQueue' = hookQueue /\ activeHookWorkers' = activeHookWorkers - 1
    /\ hooks' = Ended(h)
    /\ activeRecoveryKeys' = IF hooks[h].on \in Orders THEN activeRecoveryKeys \ {recoveryKey(h)}
                             ELSE activeRecoveryKeys

finishHook(h) ==
    /\ processHookQueue(hookQueue, activeHookWorkers - 1, Ended(h))
    /\ activeRecoveryKeys' = IF hooks[h].on \in Orders THEN activeRecoveryKeys \ {recoveryKey(h)}
                             ELSE activeRecoveryKeys

Moves(h, pc) == hooks' = [hooks EXCEPT ![h].pc = pc] /\ UNCHANGED workers
-----------------------------------------------------------------------------
(* The two tables of callbacks, memory and file, by key. *)

Without(f, k) == [x \in DOMAIN f \ {k} |-> f[x]]
With(f, k, v) == [x \in DOMAIN f \cup {k} |-> IF x = k THEN v ELSE f[x]]

\* Resolving: the hook that awaited the callback ends, or goes on locally;
\* one that no longer waits does not notice.
Resolve(h, ok) ==
    IF hooks[h].pc # "wait" THEN UNCHANGED <<hooks, workers>>
    ELSE IF ok THEN finishHook(h) ELSE Moves(h, "cli")

\* A callback other than `m` is at work for `h`, which stops waiting.
Outlived(h, m) == \E n \in CallIds \ {m} : calls[n].of = h /\ calls[n].pc = "child"

\* runGatewayAgentTask, for reviews and tasks of peers; any other hook, and
\* these where there is no gateway, go to the local agent.
GatewayBegins(h) ==
    /\ hooks[h].pc = "start" /\ (Reviews(h) \/ hooks[h].on \in Tasks)
    /\ pendingAgentCallbacks' = With(pendingAgentCallbacks, dedupeKey(h), h)
    /\ persisted' = With(persisted, dedupeKey(h), "open")
    /\ asking' = asking \cup {h}
    /\ Moves(h, "wait")
    /\ UNCHANGED <<platform, hooked, inflight, sessions, calls, orphans, reboots, history>>

LocalBegins(h) ==
    /\ hooks[h].pc = "start"
    /\ Moves(h, "cli")
    /\ UNCHANGED <<platform, hooked, table, inflight, asking, sessions, calls, orphans, reboots, history>>

\* Sessions call back after this answer, or after it was given up on.
SpawnAnswers(h) ==
    /\ h \in asking /\ asking' = asking \ {h}
    /\ sessions' = sessions \cup {h}
    /\ UNCHANGED <<platform, hooks, workers, hooked, table, inflight, calls, orphans, reboots, history>>

\* An error, or no answer in 15 seconds, though the session may have started.
SpawnFails(h) ==
    /\ h \in asking /\ asking' = asking \ {h}
    /\ sessions' \in {sessions, sessions \cup {h}}
    /\ pendingAgentCallbacks' = Without(pendingAgentCallbacks, dedupeKey(h))
    /\ persisted' = Without(persisted, dedupeKey(h))
    /\ Resolve(h, FALSE)
    /\ UNCHANGED <<platform, hooked, inflight, calls, orphans, reboots, history>>

\* Mutant: the timer clears the tables and does not resolve.
CallbackTimeoutKept(h) ==
    /\ hooks[h].pc = "wait"
    /\ pendingAgentCallbacks' = Without(pendingAgentCallbacks, dedupeKey(h))
    /\ persisted' = With(persisted, dedupeKey(h), "open")
    /\ UNCHANGED <<platform, hooks, workers, hooked, inflight, asking, sessions, calls, orphans, reboots, history>>

\* Ten minutes without a conclusion, though one may be under way.
CallbackTimeout(h) ==
    /\ hooks[h].pc = "wait"
    /\ pendingAgentCallbacks' = Without(pendingAgentCallbacks, dedupeKey(h))
    /\ persisted' = With(persisted, dedupeKey(h), "open")
    /\ Moves(h, "cli")
    /\ Excuse(hooks[h].on, Outlived(h, 0))
    /\ UNCHANGED <<platform, hooked, inflight, asking, sessions, calls, orphans, reboots, strays>>
-----------------------------------------------------------------------------
(* executeRecommendedActionDirect, for a callback or for a local agent. *)

\* The command: a reason or a result is that of its author, a pass is a pass.
ActionKey(h, verdict, author) == <<hooks[h].on, verdict, IF verdict = "pass" THEN 0 ELSE author>>

\* The status a command is for; any other, and it is not run.
expectedStatuses(h, verdict) ==
    IF verdict # "submit" THEN {"submitted"}
    ELSE IF hooks[h].round > 0 THEN {"pending", "rejected"} ELSE {"pending"}

Expected(h, verdict) == ms[hooks[h].on].status \in expectedStatuses(h, verdict)

\* How a child process may end: it did its work or not, and says so or not;
\* a refusal because the work is done already counts as done.
Done(h, verdict) == (ms[hooks[h].on].status = "submitted") <=> (verdict = "submit")

ChildEnds(h, verdict, ok) ==
    \/ Lands(h, verdict)
    \/ UNCHANGED <<platform, strays>> /\ (ok => Done(h, verdict))
-----------------------------------------------------------------------------
(* POST /agent-callback. *)

SetCall(n, call) == calls' = [calls EXCEPT ![n] = call]

\* A callback that was expected has its result: `w` is the hook it was for.
Concluded(s, w, ok) ==
    /\ pendingAgentCallbacks' = Without(pendingAgentCallbacks, dedupeKey(s))
    /\ persisted' = IF ok THEN With(persisted, dedupeKey(s), "terminal") ELSE Without(persisted, dedupeKey(s))
    /\ Resolve(w, ok)

\* One for which nothing waits: only the file changes.
LateConcluded(s, ok) ==
    /\ persisted' = IF ok THEN Without(persisted, dedupeKey(s)) ELSE persisted
    /\ UNCHANGED <<pendingAgentCallbacks, hooks, workers>>

Ends(s, w, ok) == IF w = 0 THEN LateConcluded(s, ok) ELSE Concluded(s, w, ok)

Awaiting(s) == IF dedupeKey(s) \in DOMAIN pendingAgentCallbacks THEN pendingAgentCallbacks[dedupeKey(s)] ELSE 0

\* Whether a callback acts: it is awaited, or the file knows of it and not
\* that it was completed.
Acts(s) ==
    \/ Awaiting(s) # 0
    \/ dedupeKey(s) \in DOMAIN persisted /\ persisted[dedupeKey(s)] # "terminal"

NextCall(s, n) == n <= budget.calls /\ s \in sessions /\ calls[n].pc = "none" /\ \A i \in 1..(n-1) : calls[i].pc # "none"

\* "failed", or a body that is of no use: the hook goes on without it.
CallbackFailed(s, n) ==
    /\ NextCall(s, n)
    /\ SetCall(n, Closed)
    /\ IF Awaiting(s) # 0 THEN Concluded(s, Awaiting(s), FALSE) ELSE UNCHANGED <<table, hooks, workers>>
    /\ Excuse(hooks[s].on, Outlived(Awaiting(s), n))
    /\ UNCHANGED <<platform, hooked, inflight, asking, sessions, orphans, reboots, strays>>

\* After completion, or unknown: answered and forgotten.
CallbackSkipped(s, n) ==
    /\ NextCall(s, n) /\ ~Acts(s)
    /\ SetCall(n, Closed)
    /\ UNCHANGED <<platform, hooks, workers, hooked, table, inflight, asking, sessions, orphans, reboots, history>>

\* The very command is under way: taken for done.
CallbackDuplicate(s, n, verdict) ==
    /\ NextCall(s, n) /\ Acts(s) /\ Reviews(s)
    /\ ActionKey(s, verdict, s) \in inflight
    /\ SetCall(n, Closed)
    /\ Ends(s, Awaiting(s), TRUE)
    /\ Excuse(hooks[s].on, Outlived(Awaiting(s), n))
    /\ UNCHANGED <<platform, hooked, inflight, asking, sessions, orphans, reboots, strays>>

\* Otherwise the status of the milestone is asked for, or the result posted.
CallbackArrives(s, n, verdict) ==
    /\ NextCall(s, n) /\ Acts(s)
    /\ Reviews(s) => ActionKey(s, verdict, s) \notin inflight
    /\ ~Reviews(s) => verdict = "submit"
    /\ SetCall(n, [pc |-> IF Reviews(s) THEN "guard" ELSE "post", of |-> s, hook |-> Awaiting(s), verdict |-> verdict])
    /\ UNCHANGED <<platform, hooks, workers, hooked, table, inflight, asking, sessions, orphans, reboots, history>>

CallbackGuarded(n) ==
    LET s == calls[n].of IN
    /\ calls[n].pc = "guard" /\ ~Expected(s, calls[n].verdict)
    /\ SetCall(n, Closed)
    /\ Ends(s, calls[n].hook, TRUE)
    /\ Excuse(hooks[s].on, Outlived(calls[n].hook, n))
    /\ UNCHANGED <<platform, hooked, inflight, asking, sessions, orphans, reboots, strays>>

\* The status is the expected one, or could not be read.
CallbackActs(n) ==
    LET s == calls[n].of IN
    /\ calls[n].pc = "guard"
    /\ SetCall(n, [calls[n] EXCEPT !.pc = "child"])
    /\ inflight' = inflight \cup {ActionKey(s, calls[n].verdict, s)}
    /\ hooks' = [hooks EXCEPT ![s].acted = TRUE]
    /\ Excuse(hooks[s].on, hooks[s].acted \/ hooks[s].pc # "wait")
    /\ UNCHANGED <<platform, workers, hooked, table, asking, sessions, orphans, reboots, strays>>

CallbackActed(n, ok) ==
    LET s == calls[n].of IN
    /\ calls[n].pc = "child"
    /\ SetCall(n, Closed)
    /\ inflight' = inflight \ {ActionKey(s, calls[n].verdict, s)}
    /\ ChildEnds(s, calls[n].verdict, ok)
    /\ Ends(s, calls[n].hook, ok)
    /\ Excuse(hooks[s].on, Outlived(calls[n].hook, n))
    /\ UNCHANGED <<hooked, asking, sessions, orphans, reboots>>

\* The result of a peer's task is posted to the runtime itself, which takes
\* one; the answer may be an error although it was taken.
CallbackPosted(n, ok) ==
    LET s == calls[n].of IN
    /\ calls[n].pc = "post"
    /\ SetCall(n, Closed)
    /\ \/ hooks[s].on \notin answered /\ answered' = answered \cup {hooks[s].on}
       \/ ~ok /\ UNCHANGED answered
    /\ Ends(s, calls[n].hook, ok)
    /\ UNCHANGED <<budget, role, ms, hooked, inflight, asking, sessions, orphans, reboots, history>>
-----------------------------------------------------------------------------
(* The local agent. *)

\* A locked session, a broken network, or no output in JSON: once more.
LocalRetries(h) ==
    /\ hooks[h].pc = "cli" /\ hooks[h].attempt < budget.retries
    /\ hooks' = [hooks EXCEPT ![h].attempt = @ + 1]
    /\ UNCHANGED <<platform, workers, hooked, table, inflight, asking, sessions, calls, orphans, reboots, history>>

\* An error, output that is no conclusion, a command that is under way
\* already; and the result of a peer's task, which is no command at all.
LocalEnds(h) ==
    /\ hooks[h].pc = "cli"
    /\ finishHook(h)
    /\ UNCHANGED <<platform, hooked, table, inflight, asking, sessions, calls, orphans, reboots, history>>

LocalConcludes(h, verdict) ==
    /\ hooks[h].pc = "cli" /\ hooks[h].on \in Orders
    /\ Reviews(h) <=> verdict # "submit"
    /\ ActionKey(h, verdict, -h) \notin inflight
    /\ hooks' = [hooks EXCEPT ![h].pc = "guard", ![h].verdict = verdict]
    /\ UNCHANGED <<platform, workers, hooked, table, inflight, asking, sessions, calls, orphans, reboots, history>>

LocalGuarded(h) ==
    /\ hooks[h].pc = "guard" /\ ~Expected(h, hooks[h].verdict)
    /\ finishHook(h)
    /\ UNCHANGED <<platform, hooked, table, inflight, asking, sessions, calls, orphans, reboots, history>>

LocalActs(h) ==
    /\ hooks[h].pc = "guard"
    /\ inflight' = inflight \cup {ActionKey(h, hooks[h].verdict, -h)}
    /\ hooks' = [hooks EXCEPT ![h].pc = "child", ![h].acted = TRUE]
    /\ Excuse(hooks[h].on, hooks[h].acted)
    /\ UNCHANGED <<platform, workers, hooked, table, asking, sessions, calls, orphans, reboots, strays>>

LocalActed(h, ok) ==
    /\ hooks[h].pc = "child"
    /\ inflight' = inflight \ {ActionKey(h, hooks[h].verdict, -h)}
    /\ ChildEnds(h, hooks[h].verdict, ok)
    /\ finishHook(h)
    /\ UNCHANGED <<hooked, table, asking, sessions, calls, orphans, reboots, excused>>
-----------------------------------------------------------------------------
(* A restart: memory is gone, the file stays, children and sessions run on. *)

Restart ==
    /\ reboots < budget.restarts /\ reboots' = reboots + 1
    /\ orphans' = orphans
         \cup {[hook |-> h, verdict |-> hooks[h].verdict] : h \in {i \in HookIds : hooks[i].pc = "child"}}
         \cup {[hook |-> calls[n].of, verdict |-> calls[n].verdict] : n \in {m \in CallIds : calls[m].pc = "child"}}
    /\ hooks' = [h \in HookIds |-> IF hooks[h].pc = "none" THEN NoHook ELSE [hooks[h] EXCEPT !.pc = "done"]]
    /\ hookQueue' = <<>> /\ activeHookWorkers' = 0 /\ activeRecoveryKeys' = {}
    /\ hooked' = {} /\ pendingAgentCallbacks' = <<>> /\ inflight' = {}
    /\ asking' = {}
    /\ calls' = [n \in CallIds |-> IF calls[n].pc = "none" THEN NoCall ELSE Closed]
    /\ UNCHANGED <<platform, persisted, sessions, history>>

OrphanLands(c) ==
    /\ c \in orphans /\ orphans' = orphans \ {c}
    /\ Lands(c.hook, c.verdict)
    /\ UNCHANGED <<hooks, workers, hooked, table, inflight, asking, sessions, calls, reboots, excused>>
-----------------------------------------------------------------------------
Queueing(h) ==
    \/ \E o \in Orders, r \in Rounds : NotifyHook(h, o, r) \/ ReconcileHook(h, o, r)
    \/ \E t \in Tasks : TaskHook(h, t)

Session(h) ==
    \E n \in CallIds :
        \/ CallbackFailed(h, n) \/ CallbackSkipped(h, n)
        \/ \E v \in Verdicts \ {"none"} :
               (Reviews(h) <=> v # "submit") /\ (CallbackDuplicate(h, n, v) \/ CallbackArrives(h, n, v))

Callback(n) ==
    \/ CallbackGuarded(n) \/ CallbackActs(n)
    \/ \E ok \in BOOLEAN : CallbackActed(n, ok) \/ CallbackPosted(n, ok)

Gateway(h) == GatewayBegins(h) \/ SpawnAnswers(h) \/ SpawnFails(h) \/ CallbackTimeout(h)

Local(h) ==
    \/ LocalBegins(h) \/ LocalRetries(h) \/ LocalEnds(h) \/ LocalGuarded(h) \/ LocalActs(h)
    \/ \E v \in Verdicts \ {"none"} : LocalConcludes(h, v)
    \/ \E ok \in BOOLEAN : LocalActed(h, ok)

Next ==
    \/ \E o \in Orders, v \in Verdicts \ {"none"} : OrderMoves(o, v)
    \/ \E h \in HookIds : Queueing(h) \/ Session(h) \/ Gateway(h) \/ Local(h)
    \/ \E n \in CallIds : Callback(n)
    \/ Restart
    \/ \E c \in orphans : OrphanLands(c)

\* Timers fire, requests are answered or given up, and processes end or are
\* killed: every await of a hook that runs ends.
Fairness == \A h \in HookIds : WF_vars(Gateway(h) \/ Local(h))

Spec == Init /\ [][Next]_vars /\ Fairness
-----------------------------------------------------------------------------
(* Every variable has its type. *)
TypeOK ==
    /\ role \in [Orders -> {"requester", "executor"}]
    /\ ms \in [Orders -> [status : {"pending", "submitted", "rejected", "verified"}, round : Rounds]]
    /\ answered \subseteq Tasks
    /\ hooks \in [HookIds -> [pc : Waiting \cup {"none", "queued", "done"}, on : Orders \cup Tasks \cup {"none"},
                              round : Rounds, via : {"none", "notify", "reconcile"}, verdict : Verdicts,
                              attempt : 0..MaxAttempts, acted : BOOLEAN]]
    /\ hookQueue \in Seq(HookIds) /\ activeHookWorkers \in 0..MAX_HOOK_CONCURRENCY
    /\ \A k \in DOMAIN pendingAgentCallbacks : pendingAgentCallbacks[k] \in HookIds
    /\ \A k \in DOMAIN persisted : persisted[k] \in {"open", "terminal"}
    /\ asking \subseteq HookIds /\ sessions \subseteq HookIds
    /\ calls \in [CallIds -> [pc : {"none", "guard", "child", "post", "done"},
                              of : HookIds \cup {0}, hook : HookIds \cup {0}, verdict : Verdicts]]
    /\ budget \in Budgets /\ reboots \in 0..budget.restarts
    /\ excused \subseteq Orders /\ strays \subseteq HookIds

Live == {h \in HookIds : hooks[h].pc \in Waiting \cup {"queued"} /\ hooks[h].on \in Orders}

\* Every hook that is queued ends, or is forgotten in a restart.
HooksDrain == \A h \in HookIds : hooks[h].pc = "queued" ~> hooks[h].pc = "done"
=============================================================================
