------------------------------ MODULE Rollback ------------------------------
(***************************************************************************)
(* The compensations of one task (src/src/rollback/index.ts).  rollback    *)
(* copies the list, newest first, and awaits one compensation after the    *)
(* other, whether the last one succeeded or not; it reads the status of a  *)
(* compensation before the call and writes it after the await.  Meanwhile  *)
(* the list may grow, be cleared, or be rolled back by another call.       *)
(***************************************************************************)
EXTENDS Integers, Sequences, SequencesExt

CONSTANTS
    MaxCompensations,   \* bound on the compensations that are registered
    Calls               \* the calls of rollback, each made at most once

VARIABLES
    actions,    \* this.actions, the oldest first
    status,     \* of each compensation; "unknown" until it is registered
    begun,      \* the calls that were made
    rollbacks,  \* what each call has copied, where it is and what it has counted
    runs,       \* history: the calls that have run each compensation
    shared      \* history: compensations run while another call awaited them

vars == <<actions, status, begun, rollbacks, runs, shared>>

Compensations == 1..MaxCompensations   \* in the order of their registration

Statuses == {"unknown", "pending", "completed", "failed"}

Rollback == [reversed : Seq(Compensations), at : Nat \ {0}, succeeded : Nat, failed : Nat]

Fresh(reversed) == [reversed |-> reversed, at |-> 1, succeeded |-> 0, failed |-> 0]

Init ==
    /\ actions = <<>>
    /\ status = [a \in Compensations |-> "unknown"]
    /\ begun = {} /\ rollbacks = [c \in Calls |-> Fresh(<<>>)]
    /\ runs = [a \in Compensations |-> {}] /\ shared = {}

(* The call awaits the compensation it has come to. *)
Awaits(c, a) ==
    /\ c \in begun /\ rollbacks[c].at \in DOMAIN rollbacks[c].reversed
    /\ a = rollbacks[c].reversed[rollbacks[c].at]

-----------------------------------------------------------------------------
RegisterCompensation(a) ==
    /\ status[a] = "unknown" /\ \A b \in 1..a - 1 : status[b] # "unknown"
    /\ actions' = Append(actions, a)
    /\ status' = [status EXCEPT ![a] = "pending"]
    /\ UNCHANGED <<begun, rollbacks, runs, shared>>

Clear ==
    /\ actions # <<>> /\ actions' = <<>>
    /\ UNCHANGED <<status, begun, rollbacks, runs, shared>>

(* The loop runs on, without a pause, to the next compensation that is     *)
(* pending and calls it, or to the end, where it reports.                  *)
Run(c, a) ==
    /\ status'[a] = "pending"
    /\ runs' = [runs EXCEPT ![a] = @ \cup {c}]
    /\ shared' = IF \E d \in Calls \ {c} : Awaits(d, a) THEN shared \cup {a} ELSE shared

Proceed(c, r) ==
    \E j \in r.at..Len(r.reversed) + 1 :
        /\ \A i \in r.at..j - 1 : status'[r.reversed[i]] # "pending"
        /\ rollbacks' = [rollbacks EXCEPT ![c] = [r EXCEPT !.at = j]]
        /\ \/ j <= Len(r.reversed) /\ Run(c, r.reversed[j])
           \/ j = Len(r.reversed) + 1 /\ UNCHANGED <<runs, shared>>

Begin(c) ==
    /\ c \notin begun /\ begun' = begun \cup {c}
    /\ UNCHANGED <<actions, status>>
    /\ Proceed(c, Fresh(Reverse(actions)))

Complete(c) ==
    \E a \in Compensations :
        /\ Awaits(c, a)
        /\ status' = [status EXCEPT ![a] = "completed"]
        /\ Proceed(c, [rollbacks[c] EXCEPT !.at = @ + 1, !.succeeded = @ + 1])
        /\ UNCHANGED <<actions, begun>>

(* Mutant: a compensation that has failed stays pending. *)
FailPending(c) ==
    \E a \in Compensations :
        /\ Awaits(c, a)
        /\ UNCHANGED <<actions, status, begun>>
        /\ Proceed(c, [rollbacks[c] EXCEPT !.at = @ + 1, !.failed = @ + 1])

Fail(c) ==
    \E a \in Compensations :
        /\ Awaits(c, a)
        /\ status' = [status EXCEPT ![a] = "failed"]
        /\ Proceed(c, [rollbacks[c] EXCEPT !.at = @ + 1, !.failed = @ + 1])
        /\ UNCHANGED <<actions, begun>>

Next ==
    \/ \E a \in Compensations : RegisterCompensation(a)
    \/ Clear
    \/ \E c \in Calls : Begin(c) \/ Complete(c) \/ Fail(c)

Spec == Init /\ [][Next]_vars

-----------------------------------------------------------------------------
(* Every variable has its type. *)
TypeOK ==
    /\ actions \in Seq(Compensations) /\ begun \subseteq Calls
    /\ status \in [Compensations -> Statuses]
    /\ rollbacks \in [Calls -> Rollback]
    /\ runs \in [Compensations -> SUBSET Calls] /\ shared \subseteq Compensations

(* A compensation is run once, even if it fails: only a call that comes to *)
(* it while another awaits it, so that its status is still pending, runs   *)
(* it again.                                                               *)
RunOnceUnlessShared ==
    \A a \in Compensations : \A c, d \in runs[a] : c = d \/ a \in shared
=============================================================================
