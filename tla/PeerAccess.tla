----------------------------- MODULE PeerAccess -----------------------------
(***************************************************************************)
(* Whom an agent lets in (src/bin/atel.mjs): its friends, the requests for *)
(* friendship in both directions, and the temporary sessions that admit a  *)
(* stranger for a while and for a number of tasks.  All three live in      *)
(* files.  Two kinds of process work on them: the runtime, which answers   *)
(* the messages of peers and keeps what it read of the sessions for a TTL, *)
(* and the commands of the user, each a process of its own.  Each reads a  *)
(* file of requests or sessions in one step and writes it back whole in a  *)
(* later one, and the others may work on it, or the process die, in        *)
(* between; `atel friend request` even awaits the network there.  The list *)
(* of friends is only looked up here, and moves in one step.               *)
(***************************************************************************)
EXTENDS AccessPromises, FiniteSets, Sequences

CONSTANTS
    Peers,
    Commands,            \* processes of the user's commands
    Runtime,             \* the process of `atel start`
    Sender, Receiver,    \* the peer each request comes from, or goes to
    Policies,            \* contents of the policy file
    MaxTasks,            \* the limits `--max-tasks` may set
    Durations,           \* the lifetimes `--duration` may set
    RequestLimit,        \* of friend requests of a peer within an hour
    MaxTime, MaxAdmitted \* bounds on the clock and on the tasks admitted

ConstantsFit ==
    /\ Incoming \cap Outgoing = {} /\ Runtime \notin Commands
    /\ Sender \in [Incoming -> Peers] /\ Receiver \in [Outgoing -> Peers]
    /\ MaxTasks \subseteq Nat \ {0} /\ Durations \subseteq Nat \ {0}
    /\ TTL \in Nat /\ RequestLimit \in Nat
    /\ MaxTime \in Nat /\ MaxAdmitted \in Nat
    /\ Never \notin Nat \cup RequestIds

VARIABLES
    half,      \* bound: a behaviour moves the requests or the sessions, which
               \* meet in the list of friends only, and that moves in both
    policy,
    friends,   \* friends.json
    doing,     \* what a process has read of the requests and will write back
    answers,   \* what the peer made of each outgoing request it got
    sessions,  \* temp-sessions.json
    cache,     \* friendSystemCache.tempSessions of the runtime
    editing    \* the sessions as a process will write them back

mailbox == <<requests, doing, answers, truth, touched>>
guests == <<sessions, cache, editing, admitted, removed, held>>
vars == <<half, now, policy, friends, mailbox, guests>>

Writers == Commands \cup {Runtime}
Statuses == {"none", "pending", "accepted", "rejected", "send_failed"}
Session == [id : SessionIds, did : Peers, expires : Nat, max : Nat, count : Nat]
Times == (0..MaxTime) \cup {Never}

NoFile == [i \in RequestIds |-> "none"]
Idle == [id |-> Never, file |-> NoFile, todo |-> <<>>]
NoEdit == [on |-> FALSE, data |-> {}]
NoCache == [at |-> Never, data |-> {}]

Init ==
    /\ half \in {"requests", "sessions"}
    /\ now = 0
    /\ policy \in Policies
    /\ friends = {}
    /\ requests = NoFile
    /\ truth = [i \in RequestIds |-> "none"]
    /\ doing = [a \in Writers |-> Idle]
    /\ answers = [i \in Outgoing |-> "unasked"]
    /\ touched = {}
    /\ sessions = {} /\ cache = NoCache
    /\ editing = [a \in Writers |-> NoEdit]
    /\ admitted = [s \in SessionIds |-> 0]
    /\ removed = [s \in SessionIds |-> Never]
    /\ held = {}

Tick ==
    /\ half = "sessions"  \* no request is timed
    /\ now < MaxTime
    /\ now' = now + 1
    /\ UNCHANGED <<half, policy, friends, mailbox, guests>>

\* The policy file is edited by hand; it is read anew for every message.
PolicyEdited ==
    /\ policy' \in Policies
    /\ UNCHANGED <<half, now, friends, mailbox, guests>>

-----------------------------------------------------------------------------
(* Friends. *)

isFriend(p) == p \in friends

addFriend(p) == friends' = friends \cup {p}

removeFriend(p) == friends' = friends \ {p}

FriendAdd(p) ==
    /\ addFriend(p)
    /\ UNCHANGED <<half, now, policy, mailbox, guests>>

\* What is removed after the prompt is looked up anew.
FriendRemove(p) ==
    /\ isFriend(p)
    /\ removeFriend(p)
    /\ UNCHANGED <<half, now, policy, mailbox, guests>>

-----------------------------------------------------------------------------
(* Friend requests. *)

OthersBusy(a) == \E b \in Writers \ {a} : doing[b].id # Never

\* loadFriendRequests: the file, or an empty one if another process is just
\* writing it.
loadFriendRequests(a) == IF OthersBusy(a) THEN {requests, NoFile} ELSE {requests}

\* A process has read `file` and will write to it what is `todo` with `i`.
Load(a, file, i, todo) ==
    /\ doing[a] = Idle
    /\ doing' = [doing EXCEPT ![a] = [id |-> i, file |-> file, todo |-> todo]]
    /\ touched' = touched \cup {j \in RequestIds : file[j] # requests[j]}
    /\ UNCHANGED <<half, now, policy, requests, truth, guests>>

\* saveFriendRequests: the file becomes what was read before, with a new
\* status.  The others that have read it will overwrite that.
saveFriendRequests(a, status, rest) ==
    LET i == doing[a].id
        file == [doing[a].file EXCEPT ![i] = status]
    IN /\ requests' = file
       /\ truth' = [truth EXCEPT ![i] = status]
       /\ touched' = IF OthersBusy(a) THEN touched \cup {i} ELSE touched \ {i}
       /\ doing' = [doing EXCEPT ![a] =
              IF rest = <<>> THEN Idle ELSE [id |-> i, file |-> file, todo |-> rest]]

\* The hour over which they are counted is longer than all that is modelled.
checkFriendRequestRateLimit(p) ==
    Cardinality({i \in Incoming : requests[i] # "none" /\ Sender[i] = p}) < RequestLimit

\* A friend_request, which is queued for the user, and then accepted at once
\* if the policy says so.
FriendRequestArrives(i) ==
    /\ checkFriendRequestRateLimit(Sender[i])
    /\ ~isFriend(Sender[i])
    /\ Sender[i] \notin policy.blocked
    /\ \E file \in loadFriendRequests(Runtime) :
          /\ file[i] = "none"
          /\ Load(Runtime, file, i, IF policy.auto THEN <<"pending", "accepted">> ELSE <<"pending">>)
    /\ UNCHANGED <<friends, answers>>

\* `atel friend accept` and `atel friend reject`; that the peer hears of it is
\* not awaited before anything else.
FriendAccept(c, i) ==
    /\ \E file \in loadFriendRequests(c) : file[i] = "pending" /\ Load(c, file, i, <<"accepted">>)
    /\ UNCHANGED <<friends, answers>>

FriendReject(c, i) ==
    /\ \E file \in loadFriendRequests(c) : file[i] = "pending" /\ Load(c, file, i, <<"rejected">>)
    /\ UNCHANGED <<friends, answers>>

\* Mutant: the change is made to the copy only.
StatusUnsaved(a) ==
    LET job == doing[a] IN
    /\ job.todo # <<>>
    /\ truth' = [truth EXCEPT ![job.id] = Head(job.todo)]
    /\ doing' = [doing EXCEPT ![a] = Idle]
    /\ UNCHANGED <<half, now, policy, friends, requests, touched, answers, guests>>

Peer(i) == IF i \in Incoming THEN Sender[i] ELSE Receiver[i]

\* What was to be done with a request is done: who is accepted is a friend.
StatusSaved(a) ==
    LET todo == doing[a].todo IN
    /\ todo # <<>>
    /\ saveFriendRequests(a, Head(todo), Tail(todo))
    /\ IF Head(todo) = "accepted" THEN addFriend(Peer(doing[a].id)) ELSE UNCHANGED friends
    /\ UNCHANGED <<half, now, policy, answers, guests>>

\* `atel friend request` reads the file and starts to look the peer up.
FriendRequestBegins(c, i) ==
    /\ truth[i] = "none" /\ answers[i] = "unasked" /\ \A a \in Commands : doing[a].id # i
    /\ ~isFriend(Receiver[i])
    /\ \E file \in loadFriendRequests(c) :
          /\ ~\E j \in Outgoing : Receiver[j] = Receiver[i] /\ file[j] = "pending"
          /\ Load(c, file, i, <<>>)
    /\ UNCHANGED <<friends, answers>>

Asking(c) == doing[c].id # Never /\ doing[c].todo = <<>>

\* The peer has it, and decides; an agent that accepts by itself sends nothing.
FriendRequestReaches(c, answer) ==
    /\ Asking(c)
    /\ answers[doing[c].id] = "unasked"
    /\ answers' = [answers EXCEPT ![doing[c].id] = answer]
    /\ UNCHANGED <<half, now, policy, friends, requests, doing, truth, touched, guests>>

\* The call ends, in an answer or in an error, which a late answer also is:
\* the file that was read before is written back with the request added.
FriendRequestEnds(c, sent) ==
    /\ Asking(c)
    /\ sent => answers[doing[c].id] # "unasked"
    /\ saveFriendRequests(c, IF sent THEN "pending" ELSE "send_failed", <<>>)
    /\ UNCHANGED <<half, now, policy, friends, answers, guests>>

\* A friend_accept; one for a request that is not in the file is answered
\* with an error, and forgotten.
FriendAcceptArrives(i) ==
    /\ answers[i] = "accept"
    /\ \E file \in loadFriendRequests(Runtime) :
          file[i] # "none" /\ Load(Runtime, file, i, <<"accepted">>)
    /\ UNCHANGED <<friends, answers>>

\* What comes through the relay has a handler of its own, which does the same.
FriendAcceptRelayed(i) == FriendAcceptArrives(i)

FriendRejectArrives(i) ==
    /\ answers[i] = "reject"
    /\ \E file \in loadFriendRequests(Runtime) :
          file[i] # "none" /\ Load(Runtime, file, i, <<"rejected">>)
    /\ UNCHANGED <<friends, answers>>

FriendRejectRelayed(i) == FriendRejectArrives(i)

\* A process dies with what it has read, and may leave half a file, which
\* reads as an empty one.
Dies(a) ==
    /\ doing[a] # Idle
    /\ doing' = [doing EXCEPT ![a] = Idle]
    /\ requests' \in {requests, NoFile}
    /\ touched' = touched \cup {i \in RequestIds : requests'[i] # requests[i]}
    /\ UNCHANGED <<half, now, policy, friends, answers, truth, guests>>

-----------------------------------------------------------------------------
(* Temporary sessions. *)

Active(data, p) == {s \in data : s.did = p /\ s.expires > now}
Expired(data) == {s \in data : s.expires <= now}
In(id, data) == \E s \in data : s.id = id

\* loadTempSessions: the file, or an empty one if another process is just
\* writing it.
loadTempSessions(a) ==
    IF \E b \in Writers \ {a} : editing[b].on THEN {sessions, {}} ELSE {sessions}

Edit(a, data) == /\ ~editing[a].on
                 /\ editing' = [editing EXCEPT ![a] = [on |-> TRUE, data |-> data]]

\* The file becomes `data`, and process `a` is done with it.
WriteSessions(a, data) ==
    LET gone == {i \in SessionIds : In(i, sessions) /\ ~In(i, data)}
        copied == {i \in gone : \E b \in Writers \ {a} : In(i, editing[b].data)}
    IN /\ sessions' = data
       /\ editing' = [editing EXCEPT ![a] = NoEdit]
       /\ removed' = [i \in SessionIds |-> IF i \in gone THEN now ELSE removed[i]]
       /\ held' = (held \ gone) \cup copied

addTempSession(c, p, id, max, duration) ==
    \E data \in loadTempSessions(c) :
        /\ Active(data, p) = {}
        /\ Edit(c, data \cup {[id |-> id, did |-> p, expires |-> now + duration,
                               max |-> max, count |-> 0]})

TempAllow(c, p, id, max, duration) ==
    /\ ~isFriend(p)
    /\ removed[id] = Never /\ ~In(id, sessions)  \* ids are drawn anew
    /\ \A a \in Writers : ~In(id, editing[a].data)
    /\ addTempSession(c, p, id, max, duration)
    /\ UNCHANGED <<half, now, policy, friends, mailbox, sessions, cache, admitted, removed, held>>

removeTempSession(a, data, id) == In(id, data) /\ Edit(a, {s \in data : s.id # id})

TempRevoke(c, id) ==
    /\ \E data \in loadTempSessions(c) : removeTempSession(c, data, id)
    /\ UNCHANGED <<half, now, policy, friends, mailbox, sessions, cache, admitted, removed, held>>

cleanExpiredTempSessions(c) ==
    \E data \in loadTempSessions(c) : Expired(data) # {} /\ Edit(c, data \ Expired(data))

\* `temp-session clean`, and `temp-session list` before it lists.
TempClean(c) ==
    /\ cleanExpiredTempSessions(c)
    /\ UNCHANGED <<half, now, policy, friends, mailbox, sessions, cache, admitted, removed, held>>

\* saveTempSessions drops the cache of its own process: that of the runtime
\* does not hear of what a command writes.
saveTempSessions(a) ==
    /\ editing[a].on
    /\ WriteSessions(a, editing[a].data)
    /\ cache' = IF a = Runtime THEN NoCache ELSE cache
    /\ UNCHANGED <<half, now, policy, friends, mailbox, admitted>>

\* Mutant: what was once read is kept for good.
FreshForever == cache.at # Never

Fresh == cache.at # Never /\ now - cache.at < TTL

\* What the runtime may find there, once it is done with what it was writing.
getCachedTempSessions ==
    IF editing[Runtime].on THEN {}
    ELSE IF Fresh THEN {cache}
    ELSE {[at |-> now, data |-> d] : d \in loadTempSessions(Runtime)}

incrementTempSessionTaskCount(id) ==
    \E data \in loadTempSessions(Runtime) :
        IF In(id, data)
        THEN Edit(Runtime, {IF s.id = id THEN [s EXCEPT !.count = @ + 1] ELSE s : s \in data})
        ELSE UNCHANGED editing

\* checkP2PAccess for a task of a peer that is neither blocked nor a friend
\* but has a session: its limit, then one more task on its account.
TaskOfGuest(p) ==
    /\ p \notin policy.blocked /\ ~isFriend(p)
    /\ \E c \in getCachedTempSessions : \E s \in Active(c.data, p) :
          /\ cache' = c
          /\ IF s.count >= s.max
             THEN UNCHANGED <<editing, admitted>>
             ELSE /\ admitted[s.id] < MaxAdmitted
                  /\ incrementTempSessionTaskCount(s.id)
                  /\ admitted' = [admitted EXCEPT ![s.id] = @ + 1]
    /\ UNCHANGED <<half, now, policy, friends, mailbox, sessions, removed, held>>

\* The session expires between the two looks at the clock, and is removed.
TaskExpires(p) ==
    /\ p \notin policy.blocked /\ ~isFriend(p)
    /\ \E c \in getCachedTempSessions, data \in loadTempSessions(Runtime) :
       \E s \in Active(c.data, p) :
          /\ cache' = c
          /\ s.expires = now + 1
          /\ removeTempSession(Runtime, data, s.id) \/ (~In(s.id, data) /\ UNCHANGED editing)
    /\ UNCHANGED <<half, now, policy, friends, mailbox, sessions, admitted, removed, held>>

\* checkP2PAccess without a session: whatever the default mode decides, it
\* has read the sessions; and checkP2PMessageAccess, where a message is
\* admitted under a session without being counted.
NothingCounted(p) ==
    /\ p \notin policy.blocked /\ ~isFriend(p)
    /\ \E c \in getCachedTempSessions : cache' = c
    /\ UNCHANGED <<half, now, policy, friends, mailbox, sessions, editing, admitted, removed, held>>

\* A command that dies, or the runtime, with what it was about to write; it
\* may leave half a file.
CutOff(a) ==
    /\ editing[a].on
    /\ \/ editing' = [editing EXCEPT ![a] = NoEdit] /\ UNCHANGED <<sessions, removed, held>>
       \/ WriteSessions(a, {})
    /\ cache' = IF a = Runtime THEN NoCache ELSE cache
    /\ UNCHANGED <<half, now, policy, friends, mailbox, admitted>>

RuntimeRestarts ==
    /\ ~editing[Runtime].on
    /\ cache' = NoCache
    /\ UNCHANGED <<half, now, policy, friends, mailbox, sessions, editing, admitted, removed, held>>

-----------------------------------------------------------------------------
FriendSteps == \E p \in Peers : FriendAdd(p) \/ FriendRemove(p)

RequestSteps == half = "requests" /\
    \/ \E i \in Incoming : \/ FriendRequestArrives(i)
                           \/ \E c \in Commands : FriendAccept(c, i) \/ FriendReject(c, i)
    \/ \E i \in Outgoing :
          \/ \E c \in Commands : FriendRequestBegins(c, i)
          \/ FriendAcceptArrives(i) \/ FriendAcceptRelayed(i)
          \/ FriendRejectArrives(i) \/ FriendRejectRelayed(i)
    \/ \E c \in Commands :
          \/ \E answer \in {"accept", "reject", "none"} : FriendRequestReaches(c, answer)
          \/ \E sent \in BOOLEAN : FriendRequestEnds(c, sent)
    \/ \E a \in Writers : StatusSaved(a) \/ Dies(a)

SessionSteps == half = "sessions" /\
    \/ \E c \in Commands :
          \/ \E p \in Peers, id \in SessionIds, m \in MaxTasks, d \in Durations :
                TempAllow(c, p, id, m, d)
          \/ \E id \in SessionIds : TempRevoke(c, id)
          \/ TempClean(c)
    \/ \E a \in Writers : saveTempSessions(a) \/ CutOff(a)
    \/ RuntimeRestarts
    \/ \E p \in Peers : TaskOfGuest(p) \/ TaskExpires(p) \/ NothingCounted(p)

Next == Tick \/ PolicyEdited \/ FriendSteps \/ RequestSteps \/ SessionSteps

Spec == Init /\ [][Next]_vars
-----------------------------------------------------------------------------
(* Every variable has its type. *)
TypeOK ==
    /\ half \in {"requests", "sessions"} /\ now \in 0..MaxTime /\ policy \in Policies
    /\ friends \subseteq Peers
    /\ requests \in [RequestIds -> Statuses]
    /\ truth \in [RequestIds -> Statuses]
    /\ doing \in [Writers -> [id : RequestIds \cup {Never}, file : [RequestIds -> Statuses],
                              todo : {<<>>, <<"pending">>, <<"accepted">>, <<"rejected">>,
                                      <<"pending", "accepted">>}]]
    /\ answers \in [Outgoing -> {"unasked", "none", "accept", "reject"}]
    /\ touched \subseteq RequestIds
    /\ sessions \subseteq Session
    /\ cache \in [at : Times, data : SUBSET Session]
    /\ editing \in [Writers -> [on : BOOLEAN, data : SUBSET Session]]
    /\ admitted \in [SessionIds -> Nat]
    /\ removed \in [SessionIds -> Times]
    /\ held \subseteq SessionIds
=============================================================================
