--------------------------- MODULE AccessPromises ---------------------------
(***************************************************************************)
(* What the files of module PeerAccess promise (src/bin/atel.mjs), over    *)
(* the state that takes.  It stands apart for two readers, PeerAccess and  *)
(* the proofs about it, which have a system of their own beside it.        *)
(***************************************************************************)
EXTENDS Integers

CONSTANTS
    Incoming, Outgoing,  \* ids of friend requests, by direction
    SessionIds,
    TTL,                 \* of the cache of sessions
    Never

VARIABLES
    now,
    requests,  \* friend-requests.json: the status of each
    truth,     \* history: the status each request was last given
    touched,   \* history: requests whose last change another process may undo
    admitted,  \* history: tasks admitted under each session
    removed,   \* history: when each session last left the file
    held       \* history: sessions another process still held as they left it

RequestIds == Incoming \cup Outgoing

\* The file of requests says of each what it was last given, by a command or
\* by a message of the peer, unless another process was then between its read
\* and its write of the file, or the file was read or left half written:
\* nothing else loses a queued request or takes an answer back.
RequestsKept == \A i \in RequestIds \ touched : requests[i] = truth[i]

\* A session that was revoked or cleaned admits a task only for as long as
\* the cache of the runtime may be old, never when the TTL has passed; unless
\* another process had read the file with the session in it, and was to write
\* it back.
RevokedSoonShut ==
    [][\A i \in SessionIds : admitted'[i] # admitted[i] =>
           removed[i] = Never \/ now - removed[i] < TTL \/ i \in held]_admitted
=============================================================================
