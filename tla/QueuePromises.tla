--------------------------- MODULE QueuePromises ----------------------------
(***************************************************************************)
(* What the queue of results that could not be pushed promises             *)
(* (src/bin/atel.mjs), over the state that takes; see AccessPromises for   *)
(* why it stands apart from module ResultPushQueue.                        *)
(***************************************************************************)
EXTENDS Integers

VARIABLES
    queue,    \* resultPushQueue
    owed,     \* history: the tasks entered and neither delivered nor given up since
    exposed,  \* history: tasks entered when a flush of an older array was
              \* under way, or that were in the queue already
    faults, restarts

TasksOf(entries) == {entries[i].task : i \in DOMAIN entries}

(* A result that was entered stays in the queue until it is delivered or   *)
(* given up, unless it was entered while a flush of an older array was     *)
(* under way or in the place of an earlier one of its task, or a failed    *)
(* save met a restart: overlapping flushes alone lose nothing.             *)
OwedKept ==
    faults = 0 \/ restarts = 0 => owed \subseteq TasksOf(queue) \cup exposed
=============================================================================
