----------------------------- MODULE SealedLog ------------------------------
(***************************************************************************)
(* What a consumer of execution traces relies on, whoever records into     *)
(* them: each is a log that only grows, until one verdict closes it for    *)
(* good.                                                                   *)
(***************************************************************************)
EXTENDS Naturals, Sequences

CONSTANTS
    Logs,
    Verdict   \* the event types that close a log

VARIABLES
    log,      \* the events of each log, each with a type
    verdict   \* "none" or the verdict given

vars == <<log, verdict>>

Extends(m, l) == Len(m) > Len(l) /\ SubSeq(m, 1, Len(l)) = l

Init ==
    /\ log = [l \in Logs |-> <<>>]
    /\ verdict = [l \in Logs |-> "none"]

(* Only log l grows. *)
Grow(l) ==
    /\ verdict[l] = "none"
    /\ Extends(log'[l], log[l])
    /\ log' = [log EXCEPT ![l] = log'[l]]

Record(l) ==
    /\ Grow(l)
    /\ \A i \in 1..Len(log'[l]) : log'[l][i].type \notin Verdict
    /\ UNCHANGED verdict

(* Closing records exactly one verdict, perhaps with something after it. *)
Close(l, v) ==
    /\ Grow(l)
    /\ verdict' = [verdict EXCEPT ![l] = v]
    /\ \E i \in Len(log[l]) + 1..Len(log'[l]) :
           /\ log'[l][i].type = v
           /\ \A j \in 1..Len(log'[l]) : log'[l][j].type \in Verdict => j = i

Next == \E l \in Logs : Record(l) \/ \E v \in Verdict : Close(l, v)

Spec == Init /\ [][Next]_vars
=============================================================================
