----------------------------- MODULE TradeOrder -----------------------------
(***************************************************************************)
(* Orders (src/bin/atel.mjs).  The platform keeps them; a requester and an *)
(* executor move them with commands, each a process of its own.  The       *)
(* runtimes of both run such commands too: for notifications, which may be *)
(* lost, late or repeated, and every three seconds for what they find the  *)
(* orders to wait for.  Work and reviews are left to agent hooks; what     *)
(* happens inside a hook is module AgentHooks, and here it asks for a      *)
(* command or ends without one.  A file of each agent lists the orders it  *)
(* tracks; runtime and commands read it, change it and write it back.      *)
(***************************************************************************)
EXTENDS TradePromises, Integers, FiniteSets

CONSTANTS
    Orders,
    RejectLimit,   \* rejections after which somebody must arbitrate (three)
    Keyed,         \* notifications the platform gives a dedupeKey of their own
    Budgets,       \* bounds of a behaviour: the orders it is about, those with
                   \* a price, their milestones (five in production), the policy
                   \* it starts with, how often users type each command, how
                   \* many failures of any kind there are and notifications
                   \* that arrive; orders fetched and not yet dealt with, and
                   \* commands under way when a runtime starts one
    NoHook

ASSUME TradeOrderAssumption ==
    /\ RejectLimit \in Nat \ {0}
    /\ \A b \in Budgets : /\ b.orders \cup b.paid \subseteq Orders /\ b.policy \subseteq {"free", "paid"}
                         /\ \A n \in DOMAIN b.hand : b.hand[n] \in Nat
                         /\ {b.faults, b.heard, b.views, b.commands} \subseteq Nat
                         /\ b.milestones \in Nat \ {0}

VARIABLES
    sent,       \* every notification the platform ever sent
    policy,     \* does the executor's policy accept free, or paid, orders?
    processed,  \* processedEvents of each runtime
    hooks,      \* agent hooks under way
    views,      \* orders fetched by a reconciliation under way
    commands,   \* commands under way
    edits,      \* changes of that file that were read and not yet written
    budget      \* what is left of the bounds

platform == <<order, sent>>
runtime == <<processed, hooks, views>>
files == <<tracked, edits, mine, overlapped>>
vars == <<platform, policy, runtime, commands, files, budget>>

Listed == {"created", "milestone_review", "executing"}
Statuses == Terminal \cup Listed \cup {"none", "pending_escrow", "completed"}
Done == {"completed", "settled"}

Init ==
    /\ order = [o \in Orders |-> [status |-> "none", agreed |-> {}, at |-> 0, ms |-> "pending",
                                  count |-> 0, locked |-> FALSE]]
    /\ sent = {}
    /\ budget \in Budgets /\ policy = budget.policy
    /\ processed = [a \in Agents |-> {}]
    /\ hooks = {} /\ views = {} /\ commands = {} /\ edits = {}
    /\ tracked = [a \in Agents |-> {}]
    /\ mine = [a \in Agents |-> {}] /\ overlapped = [a \in Agents |-> {}]

Spends(b) == budget[b] > 0 /\ budget' = [budget EXCEPT ![b] = @ - 1]
Fault == Spends("faults")

\* A user types command `n` once more, or edits the policy.
Types(n) ==
    /\ n \in DOMAIN budget.hand /\ budget.hand[n] > 0
    /\ budget' = [budget EXCEPT !.hand[n] = @ - 1]

-----------------------------------------------------------------------------
(* The platform, as the code uses it.                                      *)

Is(o, s) == order[o].status = s
MsStatus(o, i) == IF i < order[o].at THEN "verified" ELSE IF i = order[o].at THEN order[o].ms ELSE "pending"

Advanced(r) ==
    IF r.at + 1 = budget.milestones THEN [r EXCEPT !.status = "settled", !.at = @ + 1, !.ms = "pending", !.count = 0]
    ELSE [r EXCEPT !.at = @ + 1, !.ms = "pending", !.count = 0]

\* Would the platform do what command `c` posts, and what is the order then?
Takes(c) ==
    LET o == c.order IN
    CASE c.name \in {"order", "trade-task"} -> Is(o, "none")
      [] c.name \in {"accept", "reject"} -> Is(o, "created")
      [] c.name = "order-cancel" -> ~Is(o, "none") /\ order[o].status \notin Terminal
      [] c.name = "escrow" -> Is(o, "pending_escrow") /\ order[o].locked
      [] c.name = "milestone-feedback" -> Is(o, "milestone_review")
      [] c.name = "milestone-submit" ->
            Is(o, "executing") /\ c.at = order[o].at /\ order[o].ms \in {"pending", "rejected"}
      [] c.name = "milestone-verify" -> Is(o, "executing") /\ c.at = order[o].at /\ order[o].ms = "submitted"
      [] c.name = "milestone-arbitrate" ->
            Is(o, "executing") /\ c.at = order[o].at /\ order[o].ms = "rejected" /\ order[o].count >= RejectLimit
      [] c.name = "complete" -> Is(o, "executing")
      [] c.name = "confirm" -> Is(o, "completed")

Results(c) ==
    LET r == order[c.order]
        to(s) == {[r EXCEPT !.status = s]} IN
    CASE c.name \in {"order", "trade-task"} -> to("created")
      [] c.name = "accept" -> to(IF c.order \in budget.paid THEN "pending_escrow" ELSE "milestone_review")
      [] c.name = "reject" -> to("rejected")
      [] c.name = "order-cancel" -> to("cancelled")
      [] c.name = "escrow" -> to("milestone_review")
      [] c.name = "milestone-feedback" ->
            IF ~c.pass THEN {[r EXCEPT !.agreed = {}]}
            ELSE IF r.agreed \cup {c.by} = Agents THEN {[r EXCEPT !.agreed = Agents, !.status = "executing"]}
            ELSE {[r EXCEPT !.agreed = @ \cup {c.by}]}
      [] c.name = "milestone-submit" -> {[r EXCEPT !.ms = "submitted", !.count = @ + 1]}
      [] c.name = "milestone-verify" -> IF c.pass THEN {Advanced(r)} ELSE {[r EXCEPT !.ms = "rejected"]}
      [] c.name = "milestone-arbitrate" -> {Advanced(r), [r EXCEPT !.status = "cancelled"]}
      [] c.name = "complete" -> to("completed")
      [] c.name = "confirm" -> to("settled")

Notice(to, type, o, r) == [to |-> to, type |-> type, order |-> o, at |-> r.at, count |-> r.count]

\* What the platform tells of an order that was `r` and is `s`.
Notices(o, r, s) ==
    CASE s.status = "created" /\ r.status = "none" -> {Notice("executor", "order_created", o, s)}
      [] s.status = "milestone_review" /\ r.status # "milestone_review" ->
            {Notice(a, "order_accepted", o, s) : a \in Agents}
      [] s.status = "executing" /\ r.status = "milestone_review" ->
            {Notice("executor", "milestone_plan_confirmed", o, s)}
      [] s.status = "executing" /\ s.at > r.at -> {Notice("executor", "milestone_verified", o, s)}
      [] s.status = "executing" /\ s.ms = "submitted" -> {Notice("requester", "milestone_submitted", o, s)}
      [] s.status = "executing" /\ s.ms = "rejected" -> {Notice("executor", "milestone_rejected", o, s)}
      [] OTHER -> {}

Expires(o) ==
    /\ Is(o, "created") /\ Fault
    /\ order' = [order EXCEPT ![o].status = "expired"]
    /\ UNCHANGED <<sent, policy, runtime, commands, files>>

-----------------------------------------------------------------------------
(* The file of tracked orders.                                             *)

Edit(a, o, what, via) == [by |-> a, order |-> o, what |-> what, via |-> via, file |-> tracked[a]]

\* The runtime reads and writes in one go; only commands come in between.
RuntimeFree(a) == \A e \in edits : ~(e.by = a /\ e.via = "runtime")

\* Mutant: the filter of untrackOrder keeps what it should drop.
WrittenInverted(e) == IF e.what = "track" THEN e.file \cup {e.order} ELSE e.file \cap {e.order}

Written(e) == IF e.what = "track" THEN e.file \cup {e.order} ELSE e.file \ {e.order}

\* trackOrder, untrackOrder: what was read is written back, with one change.
Save(e) ==
    /\ e \in edits /\ edits' = edits \ {e}
    /\ tracked' = [tracked EXCEPT ![e.by] = Written(e)]
    /\ mine' = IF e.what = "track" THEN [mine EXCEPT ![e.by] = @ \cup {e.order}] ELSE mine
    /\ overlapped' = [overlapped EXCEPT ![e.by] =
          @ \cup ((tracked[e.by] \ e.file) \cup (e.file \ tracked[e.by]))]
    /\ UNCHANGED <<platform, policy, runtime, commands, budget>>

\* A process is killed before it writes, or while it does: what cannot be
\* parsed is read as an empty list.
SaveCut(e) ==
    /\ e \in edits /\ edits' = edits \ {e} /\ Fault
    /\ \/ UNCHANGED <<tracked, overlapped>>
       \/ /\ tracked' = [tracked EXCEPT ![e.by] = {}]
          /\ overlapped' = [overlapped EXCEPT ![e.by] = @ \cup tracked[e.by]]
    /\ UNCHANGED <<platform, policy, runtime, commands, mine>>

-----------------------------------------------------------------------------
(* Commands.                                                               *)

\* `from`: who started it, a user, the runtime as a child, or a timer in it.
Command(a, name, o, i, pass, from, of) ==
    [by |-> a, name |-> name, order |-> o, at |-> i, pass |-> pass, from |-> from, of |-> of,
     stage |-> IF name \in {"order-cancel", "complete", "escrow"} THEN "check" ELSE "post"]

\* What users type.  Both may answer for milestones and plans by hand.
Typed(o) ==
    LET i == order[o].at
        C(a, name, pass) == Command(a, name, o, i, pass, "user", NoHook) IN
    {C("executor", n, TRUE) : n \in {"accept", "reject", "milestone-submit", "complete"}}
    \cup {C("requester", n, TRUE) : n \in {"order-cancel", "escrow", "confirm"}}
    \cup {C("requester", "milestone-verify", p) : p \in BOOLEAN}
    \cup {C(a, "milestone-feedback", p) : a \in Agents, p \in BOOLEAN}
    \cup {C("executor", "milestone-arbitrate", TRUE)}

UserRuns(o) ==
    /\ ~Is(o, "none")
    /\ \E c \in Typed(o) \ commands : Types(c.name) /\ commands' = commands \cup {c}
    /\ UNCHANGED <<platform, policy, runtime, files>>

\* Of the two ways to order, trade-task keeps no file.
UserOrders(o) ==
    /\ Is(o, "none") /\ o \in budget.orders /\ \A c \in commands : c.order # o
    /\ \E n \in {"order", "trade-task"} :
          /\ commands' = commands \cup {Command("requester", n, o, 0, TRUE, "user", NoHook)}
          /\ IF n = "order" THEN UNCHANGED budget ELSE Types(n)
    /\ UNCHANGED <<platform, policy, runtime, files>>

PolicyEdited ==
    /\ Types("policy")
    /\ policy' \in SUBSET {"free", "paid"}
    /\ UNCHANGED <<platform, runtime, commands, files>>

\* The child of a hook ends, and with it the hook: its key is free.
Ends(c) == commands' = commands \ {c}

Stage(c, s) == commands' = (commands \ {c}) \cup {[c EXCEPT !.stage = s]}

Checks(c, name, stop, next) ==
    /\ c \in commands /\ c.stage = "check" /\ c.name = name
    /\ IF order[c.order].status \in stop THEN Ends(c) ELSE Stage(c, next)
    /\ UNCHANGED <<platform, policy, runtime, files, budget>>

\* preflightOrderCancel; the executor is refused before that.
ChecksCancel(c) == Checks(c, "order-cancel", Terminal, "post")

\* An order completed before is left alone.  A signature that does not match,
\* an audit or a policy that blocks end the command too (PostFails).
ChecksComplete(c) == Checks(c, "complete", Done, "post")

\* cmdEscrow goes on with an order that waits for a deposit only.
ChecksEscrow(c) == Checks(c, "escrow", Statuses \ {"pending_escrow"}, "lock")

\* createEscrow: the contract takes one deposit for an order, and the command
\* ends when it refuses.
Locks(c) ==
    /\ c \in commands /\ c.stage = "lock"
    /\ IF order[c.order].locked THEN Ends(c) /\ UNCHANGED order
       ELSE /\ order' = [order EXCEPT ![c.order].locked = TRUE]
            /\ Stage(c, "post")
    /\ UNCHANGED <<sent, policy, runtime, files, budget>>

\* trade-task confirms what was completed; it may give up at any time.
Polls(c) ==
    /\ c \in commands /\ c.stage = "poll"
    /\ \/ Is(c.order, "completed") /\
             commands' = (commands \ {c}) \cup {Command(c.by, "confirm", c.order, 0, TRUE, "user", NoHook)}
       \/ Ends(c)
    /\ UNCHANGED <<platform, policy, runtime, files, budget>>

\* The platform's part of a post.
Lands(c) ==
    \E r \in Results(c) :
          /\ order' = [order EXCEPT ![c.order] = r]
          /\ sent' = sent \cup Notices(c.order, order[c.order], r)

\* The answer came.  order, accept and order-cancel go on to the file, and
\* trade-task, which keeps no file, waits for the order to be completed.
Posts(c) ==
    /\ c \in commands /\ c.stage = "post"
    /\ IF c.name = "trade-task" /\ Takes(c) THEN Stage(c, "poll") ELSE Ends(c)
    /\ IF Takes(c)
       THEN /\ Lands(c)
            /\ edits' = CASE c.name \in {"order", "accept"} /\ c.from # "timer" ->
                               edits \cup {Edit(c.by, c.order, "track", "command")}
                          [] c.name = "order-cancel" -> edits \cup {Edit(c.by, c.order, "untrack", "command")}
                          [] OTHER -> edits
       ELSE UNCHANGED <<platform, edits>>
    /\ UNCHANGED <<policy, runtime, tracked, mine, overlapped, budget>>

\* The request or its answer is lost, or the child is killed after three
\* minutes: the command fails, whatever the platform did.
PostFails(c) ==
    /\ c \in commands /\ c.stage \in {"check", "lock", "post"} /\ Ends(c) /\ Fault
    /\ \/ /\ c.stage = "post" /\ Takes(c) /\ Lands(c)
       \/ UNCHANGED <<order, sent>>
    /\ UNCHANGED <<policy, runtime, files>>
-----------------------------------------------------------------------------
(* What a runtime starts.                                                  *)

Key(h) == IF h.type = "milestone_submitted" THEN <<"requester", h.order, h.at, h.count>>
          ELSE <<"executor", h.order, h.at>>

\* activeRecoveryKeys: hooks under way, and those whose command is.
Active == {Key(h) : h \in hooks} \cup {Key(c.of) : c \in {d \in commands : d.of # NoHook}}

Hook(a, o, type, i, n) == [by |-> a, order |-> o, type |-> type, at |-> i, count |-> n]

\* queueAgentHook: one hook for a stage at a time.
queueAgentHook(h) == hooks' = IF Key(h) \in Active THEN hooks ELSE hooks \cup {h}

Same(c, d) == c.by = d.by /\ c.name = d.name /\ c.order = d.order /\ c.at = d.at /\ c.pass = d.pass

\* executeRecommendedActionDirect starts no command that is under way already.
Starts(c) ==
    IF \E d \in commands : d.from = "child" /\ Same(c, d) THEN UNCHANGED commands
    ELSE Cardinality(commands) < budget.commands /\ commands' = commands \cup {c}

Child(a, name, o) == Command(a, name, o, 0, TRUE, "child", NoHook)

\* A plan is approved if, by the guard, the order still waits for that.
Approves(a, o) == IF Is(o, "milestone_review") THEN Starts(Child(a, "milestone-feedback", o)) ELSE UNCHANGED commands

\* getDirectExecutableActions, for an order that was created.
Allowed(o) == IF o \in budget.paid THEN "paid" \in policy ELSE policy # {}

Accepts(o) == IF Allowed(o) THEN Starts(Child("executor", "accept", o)) ELSE UNCHANGED commands

Hears(n) ==
    /\ n \in sent /\ Spends("heard")
    /\ n \notin processed[n.to]

\* POST /notify: what was created is accepted if the policy says so; in policy
\* mode a timer, which does not track it, accepts it too.
NotifyCreated(n) ==
    /\ Hears(n) /\ n.type = "order_created"
    /\ processed' = [processed EXCEPT ![n.to] = @ \cup {n}]
    /\ \/ Accepts(n.order)
       \/ Allowed(n.order) /\ commands' = commands \cup {Command("executor", "accept", n.order, 0, TRUE, f, NoHook) :
                                                           f \in {"child", "timer"}}
    /\ UNCHANGED <<platform, policy, hooks, views, files>>

\* The plan is approved at once, and in policy mode by a timer besides.
NotifyAccepted(n) ==
    /\ Hears(n) /\ n.type = "order_accepted"
    /\ processed' = [processed EXCEPT ![n.to] = @ \cup {n}]
    /\ \/ Approves(n.to, n.order)
       \/ commands' = commands \cup {Command(n.to, "milestone-feedback", n.order, 0, TRUE, "timer", NoHook)}
    /\ UNCHANGED <<platform, policy, hooks, views, files>>

dedupeKey(n) == IF n.type \in Keyed THEN n ELSE <<n.type, n.order>>

Work == {"milestone_plan_confirmed", "milestone_submitted", "milestone_verified", "milestone_rejected"}

\* Work is for the agent, once for every dedupeKey; the key is used up even
\* if the stage has a hook already.
NotifyWork(n) ==
    /\ Hears(n) /\ n.type \in Work
    /\ IF (n.type = "milestone_rejected" /\ n.count >= RejectLimit) \/ dedupeKey(n) \in processed[n.to]
       THEN /\ processed' = [processed EXCEPT ![n.to] = @ \cup {n}]
            /\ UNCHANGED hooks
       ELSE /\ processed' = [processed EXCEPT ![n.to] = @ \cup {n, dedupeKey(n)}]
            /\ queueAgentHook(Hook(n.to, n.order, n.type, n.at, n.count))
    /\ UNCHANGED <<platform, policy, views, commands, files>>

-----------------------------------------------------------------------------
(* reconcileActiveTradeOrders.                                             *)

\* Whose turn is it, and is it not somebody else's to arbitrate?
Turn(a, r) ==
    IF a = "requester" THEN r.ms = "submitted"
    ELSE r.ms = "pending" \/ (r.ms = "rejected" /\ r.count < RejectLimit)

\* Mutant: only what the lists give is looked at.
ConcernsListed(a, o) ==
    \/ Is(o, "created") /\ a = "executor"
    \/ Is(o, "milestone_review")
    \/ Is(o, "executing") /\ Turn(a, order[o])

\* The orders a pass does something about: of those the lists give, and of the
\* tracked ones, which matter once they are closed.
Concerns(a, o) ==
    \/ Is(o, "created") /\ a = "executor"
    \/ Is(o, "milestone_review")
    \/ Is(o, "executing") /\ Turn(a, order[o])
    \/ order[o].status \in Terminal /\ o \in tracked[a]

\* An order is fetched, and its milestones if it is executing.
Fetches(a, o) ==
    /\ Concerns(a, o)
    /\ Cardinality(views) < budget.views /\ \A v \in views : v.by # a
    /\ views' = views \cup {[by |-> a, order |-> o, status |-> order[o].status, ms |-> order[o].ms,
                             at |-> order[o].at, count |-> order[o].count]}
    /\ UNCHANGED <<platform, policy, processed, hooks, commands, files, budget>>

\* reconcileSingleTradeOrder.
ReconcileOrder(v) ==
    /\ v \in views /\ v.status # "executing"
    /\ views' = views \ {v}
    /\ IF v.status \in Terminal
       THEN RuntimeFree(v.by) /\ edits' = edits \cup {Edit(v.by, v.order, "untrack", "runtime")}
       ELSE UNCHANGED edits
    /\ CASE v.status = "created" /\ v.by = "executor" -> Accepts(v.order)
         [] v.status = "milestone_review" -> Approves(v.by, v.order)
         [] OTHER -> UNCHANGED commands
    /\ UNCHANGED <<platform, policy, processed, hooks, tracked, mine, overlapped, budget>>

Event(v) ==
    CASE v.ms = "submitted" -> "milestone_submitted"
      [] v.ms = "rejected" -> "milestone_rejected"
      [] v.ms = "pending" -> IF v.at = 0 THEN "milestone_plan_confirmed" ELSE "milestone_verified"

ReconcileMilestone(v) ==
    /\ v \in views /\ v.status = "executing"
    /\ views' = views \ {v}
    /\ queueAgentHook(Hook(v.by, v.order, Event(v), v.at, v.count))
    /\ UNCHANGED <<platform, policy, processed, commands, files, budget>>

-----------------------------------------------------------------------------
(* The end of a hook.                                                      *)

\* The states of the milestone in which a conclusion is carried out.
Expected(h) ==
    CASE h.type = "milestone_submitted" -> {"submitted"}
      [] h.type = "milestone_rejected" -> {"pending", "rejected"}
      [] OTHER -> {"pending"}

Current(h) == MsStatus(h.order, h.at) \in Expected(h) /\ (h.by = "executor" => Is(h.order, "executing"))

\* Mutant: a hook whose conclusion is dropped keeps its stage.
HookActsStays(h) ==
    /\ h \in hooks
    /\ \E p \in IF h.by = "requester" THEN BOOLEAN ELSE {TRUE} :
          IF Current(h)
          THEN /\ Starts(Command(h.by, IF h.by = "requester" THEN "milestone-verify" ELSE "milestone-submit",
                                 h.order, h.at, p, "child", h))
               /\ hooks' = hooks \ {h}
          ELSE UNCHANGED <<hooks, commands>>
    /\ UNCHANGED <<platform, policy, processed, views, files, budget>>

\* The agent is done; a conclusion that is late is dropped, others are posted.
HookActs(h) ==
    /\ h \in hooks /\ hooks' = hooks \ {h}
    /\ \E p \in IF h.by = "requester" THEN BOOLEAN ELSE {TRUE} :
          IF Current(h)
          THEN Starts(Command(h.by, IF h.by = "requester" THEN "milestone-verify" ELSE "milestone-submit",
                              h.order, h.at, p, "child", h))
          ELSE UNCHANGED commands
    /\ UNCHANGED <<platform, policy, processed, views, files, budget>>

HookFails(h) ==
    /\ h \in hooks /\ Fault
    /\ hooks' = hooks \ {h}
    /\ UNCHANGED <<platform, policy, processed, views, commands, files>>

\* A runtime starts again: hooks, timers and what it had heard are gone, its
\* children live on.
Restart(a) ==
    /\ Fault
    /\ processed' = [processed EXCEPT ![a] = {}]
    /\ hooks' = {h \in hooks : h.by # a} /\ views' = {v \in views : v.by # a}
    /\ commands' = {IF c.by = a /\ c.from = "child" THEN [c EXCEPT !.from = "user", !.of = NoHook] ELSE c :
                       c \in {d \in commands : ~(d.by = a /\ d.from = "timer")}}
    /\ edits' = {e \in edits : ~(e.by = a /\ e.via = "runtime")}
    /\ UNCHANGED <<platform, policy, tracked, mine, overlapped>>

-----------------------------------------------------------------------------
CommandStep(c) == ChecksCancel(c) \/ ChecksComplete(c) \/ ChecksEscrow(c) \/ Locks(c) \/ Posts(c) \/ Polls(c)
ViewStep(v) == ReconcileOrder(v) \/ ReconcileMilestone(v)

Next ==
    \/ \E o \in Orders : UserOrders(o) \/ UserRuns(o) \/ Expires(o)
    \/ PolicyEdited
    \/ \E c \in commands : CommandStep(c) \/ PostFails(c)
    \/ \E e \in edits : Save(e) \/ SaveCut(e)
    \/ \E n \in sent : NotifyCreated(n) \/ NotifyAccepted(n) \/ NotifyWork(n)
    \/ \E a \in Agents : Restart(a) \/ \E o \in Orders : Fetches(a, o)
    \/ \E v \in views : ViewStep(v)
    \/ \E h \in hooks : HookActs(h) \/ HookFails(h)

\* Commands, hooks and saves end, and a reconciliation is always under way.
\* Only approvals of a plan can follow each other for ever: the other commands
\* share a condition.
Reconciles(a) == (\E o \in Orders : Fetches(a, o)) \/ \E v \in views : v.by = a /\ ViewStep(v)
Approval(c, a) == c.name = "milestone-feedback" /\ c.by = a

Fairness ==
    /\ WF_vars(\E c \in commands : c.name # "milestone-feedback" /\ CommandStep(c))
    /\ \A a \in Agents : WF_vars(\E c \in commands : Approval(c, a) /\ CommandStep(c))
    /\ WF_vars(\E e \in edits : Save(e))
    /\ WF_vars(\E h \in hooks : HookActs(h))
    /\ \A a \in Agents : SF_vars(Reconciles(a))

Spec == Init /\ [][Next]_vars /\ Fairness

-----------------------------------------------------------------------------
(* Every variable has its type. *)
TypeOK ==
    /\ \A o \in Orders :
          /\ order[o].status \in Statuses /\ order[o].agreed \subseteq Agents
          /\ order[o].at \in 0..budget.milestones /\ order[o].ms \in {"pending", "submitted", "rejected"}
          /\ order[o].count \in Nat
    /\ policy \subseteq {"free", "paid"}
    /\ \A a \in Agents : tracked[a] \cup mine[a] \cup overlapped[a] \subseteq Orders
    /\ {budget.faults, budget.heard} \subseteq Nat

\* What is closed is not tracked for ever, whichever process read the file
\* when (reconcileActiveTradeOrders over the tracked orders).
TrackedDrain ==
    []<>(\A a \in Agents : \A o \in tracked[a] : order[o].status \notin Terminal)

Waits(o) ==
    \/ Is(o, "milestone_review")
    \/ Is(o, "executing") /\ ~(order[o].ms = "rejected" /\ order[o].count >= RejectLimit)

\* An order whose plan waits for approval, or whose milestone waits for work
\* or a review, goes on until it is closed, completed or a matter for an
\* arbitrator, though notifications are lost, hooks and commands fail and
\* runtimes restart (reconcileSingleTradeOrder).
OrderAdvances == []<>(\A o \in Orders : ~Waits(o))

=============================================================================
