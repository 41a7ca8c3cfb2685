-------------------------- MODULE ResultPushQueue ---------------------------
(***************************************************************************)
(* The durable queue of results that could not be pushed to the requester  *)
(* (src/bin/atel.mjs).  A result whose push failed is entered in the queue *)
(* and its file; a timer starts a flush every five seconds, whether or not *)
(* the last one has ended.  A flush walks the array the queue was when it  *)
(* started, awaiting a push for each entry that was due then, and in the   *)
(* end puts the array of what remains in the place of the queue, which by  *)
(* then may be another array.  Saves and logs may fail, and the process    *)
(* may restart.                                                            *)
(***************************************************************************)
EXTENDS QueuePromises, Sequences, SequencesExt

CONSTANTS
    Tasks,
    MaxFlushes,   \* bound on the flushes at one time
    FirstWait,    \* until the first retry: fifteen seconds
    RetryWait,    \* until a later one: twenty seconds to a minute
    MaxPosts,     \* bound on the results that come to be entered
    MaxFaults,    \* bound on the restarts and the moments when saves or logs fail
    None

ConstantsFit ==
    /\ MaxFlushes \in Nat /\ FirstWait \in Nat \ {0} /\ RetryWait \in Nat \ {0}
    /\ MaxPosts \in Nat /\ MaxFaults \in Nat

ASSUME ResultPushQueueAssumption == ConstantsFit

VARIABLES
    file,     \* the queue's file
    flushes,  \* the flushes under way
    posts     \* how many results came to be entered

vars == <<queue, file, flushes, posts, owed, exposed, faults, restarts>>

FailedTries == 4   \* retryCount of a result whose four pushes have failed
ThrownTries == 1   \* retryCount if that could not be logged or saved
GiveUp      == 6

Entry == [task : Tasks, tries : 1..GiveUp - 1, wait : 0..FirstWait + RetryWait]
Flush == [todo : Seq(Entry), ripe : SUBSET Tasks, busy : Entry, kept : Seq(Entry), live : BOOLEAN]

Flushes == 1..MaxFlushes

Active == {f \in Flushes : flushes[f] # None}

Init ==
    /\ queue = <<>> /\ file = <<>>
    /\ flushes = [f \in Flushes |-> None]
    /\ posts = 0
    /\ owed = {} /\ exposed = {}
    /\ faults = 0 /\ restarts = 0

(* writeFileSync of the whole queue; cost is what has failed before it.    *)
Save(cost) ==
    \/ file' = queue' /\ faults' = faults + cost
    \/ file' \in {file, <<>>} /\ faults' = faults + cost + 1

-----------------------------------------------------------------------------
Item(t, tries) == [task |-> t, tries |-> tries, wait |-> FirstWait]

(* The array, with the item in the place of the task's entry or at the end. *)
Put(entries, item) ==
    IF item.task \in TasksOf(entries)
    THEN [i \in DOMAIN entries |-> IF entries[i].task = item.task THEN item ELSE entries[i]]
    ELSE Append(entries, item)

(* A flush walks the array itself, as long as that is the queue: what it   *)
(* has yet to reach changes with it.                                       *)
Reaches(flush, item) ==
    IF flush.live /\ (item.task \in TasksOf(flush.todo) \/ item.task \notin TasksOf(queue))
    THEN [flush EXCEPT !.todo = Put(@, item), !.ripe = @ \ {item.task}]
    ELSE flush

Entered(item) ==
    /\ queue' = Put(queue, item)
    /\ flushes' = [f \in Flushes |-> IF f \in Active THEN Reaches(flushes[f], item) ELSE None]

(* A push that has failed is entered; if that throws it is entered again.  *)
EnqueueResultPush(t) ==
    /\ posts < MaxPosts
    /\ posts' = posts + 1
    /\ \/ Entered(Item(t, FailedTries)) /\ file' = queue' /\ UNCHANGED faults
       \/ Entered(Item(t, ThrownTries)) /\ Save(1)
    /\ owed' = owed \cup {t}
    /\ exposed' = IF t \in TasksOf(queue) \/ \E f \in Active : ~flushes[f].live
                  THEN exposed \cup {t} ELSE exposed
    /\ UNCHANGED restarts

-----------------------------------------------------------------------------
(* Mutant: the entries that were not due are dropped. *)
ReplacedDropping(f, todo, kept, cost) ==
    /\ queue' = kept
    /\ flushes' = [g \in Flushes |->
           IF g = f \/ flushes[g] = None THEN None ELSE [flushes[g] EXCEPT !.live = FALSE]]
    /\ Save(cost)

(* The end of a flush: the queue is what remains. *)
Replaced(f, todo, kept, cost) ==
    /\ queue' = kept \o todo
    /\ flushes' = [g \in Flushes |->
           IF g = f \/ flushes[g] = None THEN None ELSE [flushes[g] EXCEPT !.live = FALSE]]
    /\ Save(cost)

(* A flush runs on without a pause to the next entry that is due. *)
Proceed(f, todo, ripe, kept, live, cost) ==
    LET next == SelectInSeq(todo, LAMBDA e : e.task \in ripe)
    IN  IF next = 0
        THEN Replaced(f, todo, kept, cost)
        ELSE /\ flushes' = [flushes EXCEPT ![f] =
                    [todo |-> SubSeq(todo, next + 1, Len(todo)), ripe |-> ripe,
                     busy |-> todo[next], kept |-> kept \o SubSeq(todo, 1, next - 1),
                     live |-> live]]
             /\ faults' = faults + cost
             /\ UNCHANGED <<queue, file>>

Ripe == {queue[i].task : i \in {j \in DOMAIN queue : queue[j].wait = 0}}

(* A flush takes the first free number. *)
Start(f) ==
    /\ flushes[f] = None /\ 1..f - 1 \subseteq Active /\ queue # <<>>
    /\ Proceed(f, queue, Ripe, <<>>, TRUE, 0)
    /\ UNCHANGED <<posts, owed, exposed, restarts>>

Resume(f, kept, cost) ==
    /\ Proceed(f, flushes[f].todo, flushes[f].ripe, kept, flushes[f].live, cost)
    /\ UNCHANGED <<posts, exposed, restarts>>

Delivered(f) ==
    /\ flushes[f] # None
    /\ Resume(f, flushes[f].kept, 0)
    /\ owed' = owed \ {flushes[f].busy.task}

(* Mutant: the retries are not counted. *)
RetriedForever(f, tries, cost) ==
    LET e == flushes[f].busy
    IN  /\ Resume(f, Append(flushes[f].kept, [e EXCEPT !.wait = RetryWait]), cost)
        /\ UNCHANGED owed

(* The entry is kept for another retry, or given up. *)
Retried(f, tries, cost) ==
    LET e == flushes[f].busy
    IN  IF tries >= GiveUp
        THEN Resume(f, flushes[f].kept, cost) /\ owed' = owed \ {e.task}
        ELSE /\ Resume(f, Append(flushes[f].kept, [e EXCEPT !.tries = tries, !.wait = RetryWait]), cost)
             /\ UNCHANGED owed

(* Two pushes have failed, or else something threw, a log after a push     *)
(* that has not failed included.                                           *)
Failed(f) == flushes[f] # None /\ Retried(f, flushes[f].busy.tries + 2, 0)

Threw(f) == flushes[f] # None /\ Retried(f, flushes[f].busy.tries + 1, 1)

(* That an entry is given up cannot be logged: the flush is abandoned.     *)
Abandoned(f) ==
    /\ flushes[f] # None /\ flushes[f].busy.tries + 1 >= GiveUp
    /\ flushes' = [flushes EXCEPT ![f] = None]
    /\ faults' = faults + 1
    /\ UNCHANGED <<queue, file, posts, owed, exposed, restarts>>

Settle(f) == Delivered(f) \/ Failed(f) \/ Threw(f) \/ Abandoned(f)

-----------------------------------------------------------------------------
Sooner(entries) == [i \in DOMAIN entries |-> [entries[i] EXCEPT !.wait = IF @ = 0 THEN 0 ELSE @ - 1]]

(* Time passes for every copy of an entry. *)
Tick ==
    /\ queue' = Sooner(queue)
    /\ file' = Sooner(file)
    /\ flushes' = [f \in Flushes |-> IF f \notin Active THEN None ELSE
           [flushes[f] EXCEPT !.todo = Sooner(@), !.kept = Sooner(@)]]
    /\ UNCHANGED <<posts, owed, exposed, faults, restarts>>

Restart ==
    /\ restarts' = restarts + 1
    /\ queue' = file
    /\ flushes' = [f \in Flushes |-> None]
    /\ UNCHANGED <<file, posts, owed, exposed, faults>>

Next ==
    /\ \/ \E t \in Tasks : EnqueueResultPush(t)
       \/ \E f \in Flushes : Start(f) \/ Settle(f)
       \/ Tick
       \/ Restart
    /\ faults' + restarts' <= MaxFaults

(* The timer fires, time passes, and every push is answered or times out.  *)
Fairness ==
    /\ WF_vars(Tick)
    /\ WF_vars(\E f \in Flushes : Start(f) /\ faults' + restarts' <= MaxFaults)
    /\ \A f \in Flushes : WF_vars(Settle(f) /\ faults' + restarts' <= MaxFaults)

Spec == Init /\ [][Next]_vars /\ Fairness

-----------------------------------------------------------------------------
(* Every variable has its type. *)
TypeOK ==
    /\ queue \in Seq(Entry) /\ file \in Seq(Entry)
    /\ flushes \in [Flushes -> Flush \cup {None}]
    /\ posts \in 0..MaxPosts
    /\ owed \subseteq Tasks /\ exposed \subseteq Tasks
    /\ faults \in 0..MaxFaults /\ restarts \in 0..MaxFaults

(* No result stays in the queue for ever: flushes that put back older      *)
(* counts and due times cannot do so again and again, and once the last    *)
(* result has been entered the queue drains.                               *)
QueueDrains == <>[](queue = <<>>)
=============================================================================
