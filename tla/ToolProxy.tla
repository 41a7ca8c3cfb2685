----------------------------- MODULE ToolProxy ------------------------------
(***************************************************************************)
(* The tool proxy of `atel start` (startToolGatewayProxy in                *)
(* src/bin/atel.mjs): the executor of a task opens a gateway with /init,   *)
(* names its tools, makes its calls, which are awaited concurrently, and   *)
(* takes the trace of them with /finalize.  With its result it posts the   *)
(* trace to the runtime, which copies the events into a trace of its own,  *)
(* adds its verdict and proves that one.                                   *)
(***************************************************************************)
EXTENDS TraceLog

(* Data holds Calls and the distinct values Note and Summary.              *)
CONSTANTS
    Tasks,
    MaxGateways,    \* bound on the gateways that are opened
    Calls,
    Interval,       \* checkpoint interval of the traces
    Note,           \* the data of events that are not about a call
    MaxRestarts,    \* bound on the restarts of the runtime
    None            \* not a number of a gateway

VARIABLES
    taskGateways,   \* the gateway of each task
    trace,          \* the trace of each gateway that was opened
    registered,     \* the gateways whose tool is registered
    state,          \* what became of each call
    gatewayOf,      \* the gateway a call was made on
    returned,       \* the events /finalize has answered with, for each gateway
    proved,         \* the runtime's trace of each task whose result was posted
    restarts

gatewayVars == <<taskGateways, trace, registered>>
callVars == <<state, gatewayOf>>
vars == <<gatewayVars, callVars, returned, proved, restarts>>

Gateways == 1..MaxGateways   \* in the order they are opened

(* answered: with a result; failed: with an error; cut: by a restart.      *)
CallStates == {"new", "running", "answered", "failed", "cut"}

Init ==
    /\ taskGateways = [t \in Tasks |-> None]
    /\ trace = [g \in Gateways |-> None]
    /\ registered = {}
    /\ state = [c \in Calls |-> "new"] /\ gatewayOf = [c \in Calls |-> None]
    /\ returned = [g \in Gateways |-> None]
    /\ proved = [t \in Tasks |-> None]
    /\ restarts = 0

-----------------------------------------------------------------------------
(* /init opens another gateway, whether or not the task has one already.   *)
InitTask(t, g) ==
    /\ trace[g] = None /\ \A h \in 1..g - 1 : trace[h] # None
    /\ taskGateways' = [taskGateways EXCEPT ![t] = g]
    /\ trace' = [trace EXCEPT ![g] = NewTrace(Interval)]
    /\ UNCHANGED <<registered, callVars, returned, proved, restarts>>

(* A tool that is registered already is an error of its own. *)
Register(t) ==
    /\ taskGateways[t] # None /\ taskGateways[t] \notin registered
    /\ registered' = registered \cup {taskGateways[t]}
    /\ UNCHANGED <<taskGateways, trace, callVars, returned, proved, restarts>>

(* Every action is allowed.  A call without a gateway, a tool, or an input *)
(* that can be hashed is answered with an error, and leaves no trace.      *)
CallFails(c) ==
    /\ state[c] = "new"
    /\ state' = [state EXCEPT ![c] = "failed"]
    /\ UNCHANGED <<gatewayVars, gatewayOf, returned, proved, restarts>>

CallStarts(t, c) ==
    LET g == taskGateways[t]
    IN  /\ state[c] = "new" /\ g \in registered
        /\ state' = [state EXCEPT ![c] = "running"]
        /\ gatewayOf' = [gatewayOf EXCEPT ![c] = g]
        /\ trace' = [trace EXCEPT ![g] = Appended(@, "TOOL_CALL", c)]
        /\ UNCHANGED <<taskGateways, registered, returned, proved, restarts>>

(* The tool's endpoint has answered, failed, or not answered in time: the  *)
(* outcome is traced, unless the trace was finalized meanwhile.            *)
CallAnswered(c) ==
    /\ state[c] = "running" /\ IsOpen(trace[gatewayOf[c]])
    /\ state' = [state EXCEPT ![c] = "answered"]
    /\ trace' = [trace EXCEPT ![gatewayOf[c]] = Appended(@, "TOOL_RESULT", c)]
    /\ UNCHANGED <<taskGateways, registered, gatewayOf, returned, proved, restarts>>

(* Mutant: a result that cannot be traced is answered all the same. *)
CallLateAnswered(c) ==
    /\ state[c] = "running" /\ ~IsOpen(trace[gatewayOf[c]])
    /\ state' = [state EXCEPT ![c] = "answered"]
    /\ UNCHANGED <<gatewayVars, gatewayOf, returned, proved, restarts>>

CallLate(c) ==
    /\ state[c] = "running" /\ ~IsOpen(trace[gatewayOf[c]])
    /\ state' = [state EXCEPT ![c] = "failed"]
    /\ UNCHANGED <<gatewayVars, gatewayOf, returned, proved, restarts>>

CallSettles(c) == CallAnswered(c) \/ CallLate(c)

Finalize(t, verdict) ==
    LET g == taskGateways[t]
    IN  /\ g # None
        /\ trace' = [trace EXCEPT ![g] = Sealed(@, verdict, Note)]
        /\ returned' = [returned EXCEPT ![g] = trace'[g].events]
        /\ taskGateways' = [taskGateways EXCEPT ![t] = None]
        /\ UNCHANGED <<registered, callVars, proved, restarts>>

-----------------------------------------------------------------------------
(* Mutant: only what is about calls is copied. *)
CopiedCalls(events) ==
    [NewTrace(Interval) EXCEPT !.events = SelectSeq(events, LAMBDA e : e.type \notin Verdicts \cup {"CHECKPOINT"})]

(* The events are pushed as they are: the trace still counts from nothing. *)
Copied(events) == [NewTrace(Interval) EXCEPT !.events = events]

Fallback ==
    LET received  == Appended(NewTrace(Interval), "TASK_RECEIVED", Note)
        checked   == Appended(Appended(received, "POLICY_CHECK", Note), "CAPABILITY_CHECK", Note)
        forwarded == Appended(Appended(checked, "CONTENT_AUDIT", Note), "TASK_FORWARDED", Note)
    IN  Appended(forwarded, "EXECUTOR_RESULT", Note)

(* A failure is recorded, compensated, and then given as the verdict. *)
Concluded(t, success) ==
    IF success
    THEN Finalized(Appended(t, "OUTPUT_AUDIT", Note), Note)
    ELSE Failed(Appended(Appended(t, "TASK_FAILED", Note), "ROLLBACK", Note), Note)

(* POST /result, with the trace of a gateway or without. *)
PostResult(t, g, success) ==
    /\ proved[t] = None
    /\ g # None => returned[g] # None
    /\ proved' = [proved EXCEPT ![t] =
           [from |-> g,
            events |-> Concluded(IF g = None THEN Fallback ELSE Copied(returned[g]), success).events]]
    /\ UNCHANGED <<gatewayVars, callVars, returned, restarts>>

(* The map of gateways is not kept, and what awaits them is cut off. *)
Restart ==
    /\ restarts < MaxRestarts /\ restarts' = restarts + 1
    /\ taskGateways' = [t \in Tasks |-> None]
    /\ state' = [c \in Calls |-> IF state[c] = "running" THEN "cut" ELSE state[c]]
    /\ UNCHANGED <<trace, registered, gatewayOf, returned, proved>>

Next ==
    \/ \E t \in Tasks, g \in Gateways : InitTask(t, g)
    \/ \E t \in Tasks : Register(t)
    \/ \E c \in Calls : CallFails(c) \/ CallSettles(c) \/ \E t \in Tasks : CallStarts(t, c)
    \/ \E t \in Tasks, verdict \in Verdicts : Finalize(t, verdict)
    \/ \E t \in Tasks, g \in Gateways \cup {None}, success \in BOOLEAN : PostResult(t, g, success)
    \/ Restart

Spec == Init /\ [][Next]_vars

-----------------------------------------------------------------------------
Recorded(events, type) == {events[i].data : i \in Positions(events, type)}

(* Every variable has its type. *)
TypeOK ==
    /\ taskGateways \in [Tasks -> Gateways \cup {None}]
    /\ trace \in [Gateways -> Trace \cup {None}]
    /\ registered \subseteq Gateways
    /\ state \in [Calls -> CallStates] /\ gatewayOf \in [Calls -> Gateways \cup {None}]
    /\ returned \in [Gateways -> Seq(Event) \cup {None}]
    /\ restarts \in 0..MaxRestarts

Complete(g) ==
    \A c \in Calls : gatewayOf[c] = g =>
        /\ c \in Recorded(returned[g], "TOOL_CALL")
        /\ state[c] = "answered" => c \in Recorded(returned[g], "TOOL_RESULT")

(* The trace the executor is given is complete: it has every call that ran *)
(* on the gateway, and every result its caller was answered with, before   *)
(* or after; a call that is under way then is recorded without a result,   *)
(* and its caller is answered with an error.  And what the runtime proves  *)
(* is a hash chain, though it goes on from events of another trace with a  *)
(* verdict and a numbering of its own, and has every result of that trace  *)
(* (atel.mjs:4176-4218, 6318-6378).                                        *)
ReturnedIsComplete ==
    /\ \A g \in Gateways : returned[g] # None => Complete(g)
    /\ \A t \in Tasks : proved[t] # None =>
           /\ Verify(proved[t].events)
           /\ proved[t].from # None =>
                  Recorded(returned[proved[t].from], "TOOL_RESULT") \subseteq Recorded(proved[t].events, "TOOL_RESULT")
=============================================================================
