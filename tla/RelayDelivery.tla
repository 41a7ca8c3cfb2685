---------------------------- MODULE RelayDelivery ----------------------------
(***************************************************************************)
(* Messages that reach an agent through a relay (src/bin/atel.mjs).  The   *)
(* sender posts a message to the relay, at once or after a direct attempt  *)
(* whose outcome it does not know; the relay keeps it until the agent's    *)
(* runtime acknowledges it.  Every two seconds, unless the last poll is    *)
(* still under way, the runtime fetches what waits, forwards it to its own *)
(* endpoint one by one - where MessageDelivery's checks are made - and     *)
(* waits, but not for ever, for each answer; then it acknowledges what the *)
(* endpoint answered well.  What it does not acknowledge the relay hands   *)
(* out again.                                                              *)
(***************************************************************************)
EXTENDS MessageDelivery

CONSTANT
    Relayed   \* the messages whose sender may use the relay

ASSUME RelayAssumption == Relayed \subseteq Messages

VARIABLES
    relay,   \* the messages the relay keeps
    posted,  \* history: the messages the relay was given
    batch    \* the poll under way, or None

post == <<relay, posted, batch>>

RelayInit == Init /\ relay = {} /\ posted = {} /\ batch = None

Post(m) == relay' = relay \cup {m} /\ posted' = posted \cup {m}

(* cmdTask and pushResultOnce choose the relay or the direct way ... *)
Send(m) ==
    /\ CreateMessage(m)
    /\ (m \in Relayed /\ Post(m)) \/ UNCHANGED <<relay, posted>>
    /\ UNCHANGED batch

(* ... and sendP2PMessage turns to the relay when the direct way failed,   *)
(* as far as it knows.                                                     *)
Fallback(m) ==
    /\ m \in Relayed /\ stamp[m] # None /\ m \notin posted
    /\ Post(m)
    /\ UNCHANGED <<vars, batch>>

Direct(m) ==
    /\ RefuseReplay(m) \/ Expired(m) \/ Handle(m)
    /\ UNCHANGED post

-----------------------------------------------------------------------------
(* The relay hands out some of what waits, as it hides for a while what it *)
(* has handed out.                                                         *)
Poll(waiting) ==
    /\ batch = None /\ waiting # {}
    /\ batch' = [todo |-> waiting, asked |-> None, acked |-> {}]
    /\ UNCHANGED <<vars, relay, posted>>

(* Mutant: a message is acknowledged when it was forwarded. *)
ForwardedAnyhow(m, well) ==
    /\ batch' = [todo |-> batch.todo \ {m}, asked |-> None, acked |-> batch.acked \cup {m}]
    /\ UNCHANGED <<relay, posted>>

Forwarded(m, well) ==
    /\ batch' = [todo |-> batch.todo \ {m}, asked |-> None,
                 acked |-> IF well THEN batch.acked \cup {m} ELSE batch.acked]
    /\ UNCHANGED <<relay, posted>>

(* A refusal by the endpoint is an answer with an error status.  That of a *)
(* used nonce, by the runtime, is an answer like another.  A new task's    *)
(* handler is waited for.                                                  *)
Forward(m) ==
    /\ batch # None /\ batch.asked = None /\ m \in batch.todo
    /\ \/ HandleNew(m) /\ batch' = [batch EXCEPT !.asked = m] /\ UNCHANGED <<relay, posted>>
       \/ HandleUsed(m) /\ \E well \in BOOLEAN : Forwarded(m, well)
       \/ (RefuseReplay(m) \/ Expired(m)) /\ Forwarded(m, FALSE)
       \/ Limited(From[m]) /\ UNCHANGED vars /\ Forwarded(m, FALSE)

(* The handler's answer; or it threw, or took longer than the poll waits.  *)
Answered(m) ==
    /\ batch # None /\ batch.asked = m /\ m \in batch.todo
    /\ \E well \in BOOLEAN : (well => m \in settled) /\ Forwarded(m, well)
    /\ UNCHANGED vars

(* Mutant: a poll with nothing to acknowledge returns early and stays busy. *)
AcknowledgeStuck ==
    /\ batch # None /\ batch.todo = {} /\ batch.acked # {}
    /\ batch' = None
    /\ relay' = relay \ batch.acked \/ UNCHANGED relay
    /\ UNCHANGED <<vars, posted>>

Acknowledge ==
    /\ batch # None /\ batch.todo = {}
    /\ batch' = None
    /\ relay' = relay \ batch.acked \/ UNCHANGED relay
    /\ UNCHANGED <<vars, posted>>

RelayNext ==
    \/ \E m \in Messages :
           \/ Send(m) \/ Fallback(m) \/ Direct(m) \/ Forward(m) \/ Answered(m)
           \/ (Settle(m) \/ Throw(m)) /\ UNCHANGED post
    \/ \E waiting \in SUBSET relay : Poll(waiting)
    \/ Acknowledge
    \/ Tick /\ UNCHANGED post
    \/ Restart /\ batch' = None /\ UNCHANGED <<relay, posted>>

(* The timer polls, a poll goes on to its end, and the relay hands out     *)
(* again and again what is not acknowledged.  A handler ends: the request  *)
(* to the registry does, well or not.                                      *)
Fairness ==
    /\ \A m \in Relayed :
         /\ WF_<<vars, post>>(Forward(m))
         /\ WF_<<vars, post>>(Answered(m))
         /\ WF_<<vars, post>>((Settle(m) \/ Throw(m)) /\ UNCHANGED post)
         /\ SF_<<vars, post>>(\E waiting \in SUBSET relay : m \in waiting /\ Poll(waiting))
    /\ WF_<<vars, post>>(Acknowledge)

RelaySpec == RelayInit /\ [][RelayNext]_<<vars, post>> /\ Fairness
-----------------------------------------------------------------------------
Taken(m) == \E i \in 1..Len(taken) : taken[i] = m

(* The relay forgets a message only after the runtime has settled it, or   *)
(* has thrown on it or died over it with its nonce saved, for then the     *)
(* message comes again, is refused as a replay and acknowledged.  A        *)
(* refusal, a late answer, a handler still at work or a restart at any     *)
(* other point of a poll costs no message (bin/atel.mjs, pollRelay).       *)
ForgottenWereSettled == \A m \in posted \ relay : m \in settled \cup cut

(* What is acknowledged has been confirmed to be persisted, say comments   *)
(* of pollRelay (bin/atel.mjs:7314, 7350).                                 *)
AckedArePersisted == \A m \in posted \ relay : m \in settled

(* The nonce of a message that came too early by its own timestamp is used *)
(* up by that (endpoint/index.ts, verifyIncoming): it will never be taken. *)
Burned(m) == seen[m] # None /\ ~Taken(m)

Stale(m) == stamp[m] # None /\ ~Fresh(m)

(* What the relay keeps is settled in the end, although acknowledgements   *)
(* and answers are lost, unless its handler was cut off, it is not fresh,  *)
(* its nonce is burned, or its sender is over its limit.                   *)
KeptAreSettled ==
    \A m \in Relayed :
        m \in relay ~> m \in settled \cup cut \/ Stale(m) \/ Burned(m) \/ Limited(From[m])
=============================================================================
