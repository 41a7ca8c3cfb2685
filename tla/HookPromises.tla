---------------------------- MODULE HookPromises ----------------------------
(***************************************************************************)
(* What the queue of agent hooks and their conclusions promise             *)
(* (src/bin/atel.mjs), over the state that takes; see AccessPromises for   *)
(* why it stands apart from module AgentHooks, which changes that state.   *)
(***************************************************************************)
EXTENDS Integers, Sequences, FiniteSets

CONSTANTS
    MaxHooks,    \* bound: the hooks queued, which are numbered
    MAX_HOOK_CONCURRENCY

VARIABLES
    hooks,       \* every hook, by the order it was queued in
    hookQueue, activeHookWorkers,
    reboots,     \* how often the runtime was started again
    excused,     \* history: orders on which something else than the hook in charge acted
    strays       \* history: hooks that acted on another round than their own

HookIds == 1..MaxHooks
Waiting == {"start", "wait", "cli", "guard", "child"}  \* a hook that holds a slot
Running == {h \in HookIds : hooks[h].pc \in Waiting}

\* Slots are counted right through every way a hook may end, whatever
\* callbacks, timers and retries overlapped: none leaks, none is given back
\* twice, and no hook is left in the queue while one is free.
SlotsHeld ==
    /\ activeHookWorkers = Cardinality(Running)
    /\ hookQueue # <<>> => activeHookWorkers = MAX_HOOK_CONCURRENCY
    /\ Len(hookQueue) = Cardinality({h \in HookIds : hooks[h].pc = "queued"})

\* A conclusion lands on the submission it is about, in an order on which
\* nothing but the hook in charge acted.  Excused are those a user moved, a
\* hook queued for what was past, one that acted twice, and an action that
\* outlived its hook, because its callback was repeated, given up or late, or
\* an earlier session of the same key ended the wait for it.
StraysExplained == \A h \in strays : hooks[h].on \in excused \/ reboots > 0
=============================================================================
