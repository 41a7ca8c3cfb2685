-------------------------- MODULE MessageDelivery ---------------------------
(***************************************************************************)
(* Signed messages on their way to one AgentEndpoint, and what is checked  *)
(* before a task is taken: the endpoint's rate limiter, nonce tracker and  *)
(* timestamp check (src/src/endpoint, src/src/envelope), and behind them   *)
(* the store of used nonces the runtime keeps on disk (src/bin/atel.mjs).  *)
(* The network may lose, delay, reorder and repeat a message, and a sender *)
(* repeats one itself after a timeout: a message that was sent can arrive  *)
(* any number of times, or never.  Limiter and tracker live in memory and  *)
(* do not survive a restart; nor does what a handler was doing between the *)
(* nonce it saved and the task it registers, several awaits later.         *)
(* Messages are well formed and carry their sender's signature.            *)
(***************************************************************************)
EXTENDS Integers, Sequences, FiniteSets

CONSTANTS
    Messages, Senders,
    From,         \* the sender of each message
    Skew,         \* by how much a sender's clock may be off
    MaxAge,       \* MAX_MESSAGE_AGE_MS
    MaxFuture,    \* how far ahead of the receiver's clock a timestamp may be
    NonceAge,     \* maxAgeMs of the NonceTracker, which keeps 2 * MAX_MESSAGE_AGE_MS
    MaxRequests, Window,  \* of the rate limiter
    Keep,         \* how many nonces saveNonces writes
    MaxTime,      \* bound on the clock
    MaxFaults,    \* bound on the saves that fail
    MaxRestarts,  \* bound on the restarts
    None

ASSUME MessageDeliveryAssumption ==
    /\ From \in [Messages -> Senders]
    /\ Skew \subseteq Int
    /\ MaxAge \in Nat /\ MaxFuture \in Nat /\ Window \in Nat
    /\ NonceAge \in Nat /\ NonceAge >= MaxAge + MaxFuture
    /\ MaxRequests \in Nat \ {0}
    /\ Keep \in Nat
    /\ MaxTime \in Nat /\ MaxFaults \in Nat /\ MaxRestarts \in Nat
    /\ None \notin Int \cup [count : Nat, resetAt : Nat]

VARIABLES
    now,       \* the receiver's clock
    stamp,     \* the timestamp of each message, None until it is created
    seen,      \* the tracker: when each nonce was first seen
    windows,   \* the limiter: a window for each sender
    accepted,  \* history: the messages handed to a handler in this process's life
    used,      \* usedNonces of the runtime, in the order they were added
    saved,     \* nonces.json
    taken,     \* history: the messages the runtime took, in all its lives
    handling,  \* the tasks taken whose handler is still at work
    settled,   \* history: those it accepted, queued or refused for a reason
    cut,       \* history: those it threw on or died over
    faults, restarts

tasks == <<handling, settled, cut>>
store == <<used, saved, taken, faults>>
vars  == <<now, stamp, seen, windows, accepted, store, tasks, restarts>>

Init ==
    /\ now = 0
    /\ stamp = [m \in Messages |-> None]
    /\ seen = [m \in Messages |-> None]
    /\ windows = [s \in Senders |-> None]
    /\ accepted = <<>>
    /\ used = <<>> /\ saved = <<>> /\ taken = <<>>
    /\ handling = {} /\ settled = {} /\ cut = {}
    /\ faults = 0 /\ restarts = 0

(* createMessage reads the sender's clock and draws a fresh nonce. *)
CreateMessage(m) ==
    /\ stamp[m] = None
    /\ \E skew \in Skew : stamp' = [stamp EXCEPT ![m] = now + skew]
    /\ UNCHANGED <<now, seen, windows, accepted, store, tasks, restarts>>

(* Mutant: the comparison is the wrong way round. *)
NewWindowEarly(s) == windows[s] = None \/ (windows[s] # None /\ now <= windows[s].resetAt)

(* RateLimiter.check opens a window on the first request after the last    *)
(* one has run out, and counts the others in it.                           *)
NewWindow(s) == windows[s] = None \/ (windows[s] # None /\ now > windows[s].resetAt)

Limited(s) == ~NewWindow(s) /\ windows[s].count >= MaxRequests

Counted(s) ==
    IF NewWindow(s) THEN [count |-> 1, resetAt |-> now + Window]
    ELSE [windows[s] EXCEPT !.count = @ + 1]

(* Mutant: an entry goes one tick early. *)
EvictedEarly ==
    [m \in Messages |->
        IF seen[m] # None /\ seen[m] <= now - NonceAge THEN None ELSE seen[m]]

(* NonceTracker.evict. *)
Evicted ==
    [m \in Messages |->
        IF seen[m] # None /\ seen[m] < now - NonceAge THEN None ELSE seen[m]]

(* The timestamp check of verifyMessage. *)
Fresh(m) == now - stamp[m] <= MaxAge /\ stamp[m] <= now + MaxFuture

(* verifyIncoming: a request the limiter refuses leaves no trace ...       *)
Admit(m) ==
    /\ stamp[m] # None /\ ~Limited(From[m])
    /\ windows' = [windows EXCEPT ![From[m]] = Counted(From[m])]

(* ... a repeated nonce is refused before the timestamp is looked at ...   *)
RefuseReplay(m) ==
    /\ Admit(m)
    /\ Evicted[m] # None
    /\ seen' = Evicted
    /\ UNCHANGED <<now, stamp, accepted, store, tasks, restarts>>

(* ... and a new one is recorded whatever becomes of the message.          *)
Judge(m) ==
    /\ Admit(m)
    /\ Evicted[m] = None
    /\ seen' = [Evicted EXCEPT ![m] = now]

Expired(m) ==
    /\ Judge(m) /\ ~Fresh(m)
    /\ UNCHANGED <<now, stamp, accepted, store, tasks, restarts>>

Has(log, m) == \E i \in 1..Len(log) : log[i] = m

LastOf(log) ==
    IF Len(log) <= Keep THEN log ELSE SubSeq(log, Len(log) - Keep + 1, Len(log))

(* Mutant: the oldest nonces are written. *)
TakeKeepingOldest(m) ==
    /\ ~Has(used, m)
    /\ used' = Append(used, m) /\ taken' = Append(taken, m)
    /\ saved' = SubSeq(used', 1, IF Len(used') <= Keep THEN Len(used') ELSE Keep)
    /\ UNCHANGED faults

(* The runtime refuses a nonce it has used; one it takes is added and the  *)
(* last ones are saved, in vain if that fails, which nobody hears of.      *)
Take(m) ==
    /\ ~Has(used, m)
    /\ used' = Append(used, m) /\ taken' = Append(taken, m)
    /\ \/ saved' = LastOf(used') /\ UNCHANGED faults
       \/ saved' \in {saved, <<>>} /\ faults < MaxFaults /\ faults' = faults + 1

Accept(m) ==
    /\ Judge(m) /\ Fresh(m)
    /\ accepted' = Append(accepted, [msg |-> m, at |-> now])
    /\ UNCHANGED <<now, stamp, settled, cut, restarts>>

HandleNew(m)  == Accept(m) /\ Take(m) /\ handling' = handling \cup {m}
HandleUsed(m) == Accept(m) /\ Has(used, m) /\ UNCHANGED <<store, handling>>
Handle(m)     == HandleNew(m) \/ HandleUsed(m)

(* Past the signature and the registry, both awaited, the task is accepted *)
(* or queued on disk, unless it is refused ...                             *)
Settle(m) ==
    /\ m \in handling
    /\ handling' = handling \ {m} /\ settled' = settled \cup {m}
    /\ UNCHANGED <<now, stamp, seen, windows, accepted, store, cut, restarts>>

(* ... or writing it throws.                                               *)
Throw(m) ==
    /\ m \in handling
    /\ handling' = handling \ {m} /\ cut' = cut \cup {m}
    /\ UNCHANGED <<now, stamp, seen, windows, accepted, store, settled, restarts>>

Tick ==
    /\ now < MaxTime
    /\ now' = now + 1
    /\ UNCHANGED <<stamp, seen, windows, accepted, store, tasks, restarts>>

(* A start reads the nonces back: none if the process died while it wrote  *)
(* them.                                                                   *)
Restart ==
    /\ restarts < MaxRestarts /\ restarts' = restarts + 1
    /\ seen' = [m \in Messages |-> None]
    /\ windows' = [s \in Senders |-> None]
    /\ accepted' = <<>>
    /\ \/ used' = saved /\ UNCHANGED <<saved, faults>>
       \/ used' = <<>> /\ saved' = <<>> /\ faults < MaxFaults /\ faults' = faults + 1
    /\ handling' = {} /\ cut' = cut \cup handling
    /\ UNCHANGED <<now, stamp, taken, settled>>

Next ==
    \/ \E m \in Messages :
           \/ CreateMessage(m) \/ RefuseReplay(m) \/ Expired(m) \/ Handle(m)
           \/ Settle(m) \/ Throw(m)
    \/ Tick
    \/ Restart

Spec == Init /\ [][Next]_vars

-----------------------------------------------------------------------------
Time == 0..MaxTime

(* Every variable has its type. *)
TypeOK ==
    /\ now \in Time
    /\ stamp \in [Messages -> Int \cup {None}]
    /\ seen \in [Messages -> Nat \cup {None}]
    /\ windows \in [Senders -> [count : Nat, resetAt : Nat] \cup {None}]
    /\ accepted \in Seq([msg : Messages, at : Nat])
    /\ used \in Seq(Messages) /\ saved \in Seq(Messages) /\ taken \in Seq(Messages)
    /\ handling \subseteq Messages /\ settled \subseteq Messages /\ cut \subseteq Messages
    /\ faults \in 0..MaxFaults /\ restarts \in 0..MaxRestarts

(* However often and however late a message arrives, no handler of one     *)
(* process sees it twice: its nonce is only forgotten once its timestamp,  *)
(* which the sender's clock may have put ahead, is too old as well.        *)
AtMostOnce ==
    \A i, j \in 1..Len(accepted) : accepted[i].msg = accepted[j].msg => i = j

(* The windows of the limiter are fixed, so a sender may see two of them   *)
(* within the time of one, but never more.                                 *)
BurstBounded ==
    \A s \in Senders : \A t \in Time :
        Cardinality({i \in 1..Len(accepted) :
            From[accepted[i].msg] = s /\ accepted[i].at \in t..t + Window})
                <= 2 * MaxRequests

(* What the runtime has taken it takes again only if a save failed, or     *)
(* after as many other messages as its file holds: restarts and replays    *)
(* within the window do not repeat a task.                                 *)
TakenOnce ==
    \A i, j \in 1..Len(taken) : i < j /\ taken[i] = taken[j] =>
        faults > 0 \/ Cardinality({taken[k] : k \in i + 1..j - 1}) >= Keep
=============================================================================
