----------------------------- MODULE Handshake ------------------------------
(***************************************************************************)
(* The three-step handshake of two agents, each with its HandshakeManager  *)
(* and EncryptionManager (src/src/handshake, src/src/crypto), and the      *)
(* tasks they encrypt afterwards (src/src/endpoint).  Either may start a   *)
(* handshake, again and while the other does; the network loses, delays,   *)
(* reorders and repeats messages, and a client that gives up after its     *)
(* timeout leaves its request under way.                                   *)
(*                                                                         *)
(* Every map of a manager is keyed by the remote DID, so two agents show   *)
(* all there is to one pair.  A challenge and the ephemeral key drawn with *)
(* it are one fresh number; a shared key is the set of the two it is       *)
(* derived from.  Messages are fresh for five minutes, within which they   *)
(* arrive in any order, and again.  Inits and confirms are signed by the   *)
(* agent they name: their keys are compared with its DID.  An ack is       *)
(* verified with the key it carries, which nothing compares with the DID   *)
(* it names, so it may be the answer of whoever holds the Other key.       *)
(***************************************************************************)
EXTENDS Naturals, FiniteSets

CONSTANTS
    A, B,
    Other,       \* a signing key that is not that of an agent's DID
    Encrypting,  \* the agents configured with enableEncryption
    None,
    MaxDraws,    \* bound on the challenges drawn
    MaxRestarts  \* bound on the restarts

Agents == {A, B}
Keys == Agents \cup {Other}   \* the key of an agent's DID is named like it
Peer(p) == IF p = A THEN B ELSE A
Ids == 1..MaxDraws
NoKey == {}

ASSUME HandshakeAssumption ==
    /\ A # B /\ Other \notin Agents
    /\ Encrypting \subseteq Agents
    /\ None \notin Nat
    /\ MaxDraws \in Nat /\ MaxRestarts \in Nat

VARIABLES
    drawn,      \* the challenges drawn so far are 1..drawn
    pending,    \* pendingChallenges: the one an agent waits to see answered
    encKey,     \* pendingEncKeys: the key pair of its last init
    initOf,     \* pendingInitPayloads: the last init it processed
    key,        \* the encryption session: the shared key
    session,    \* the session
    net,        \* every message sent
    restarts

pendingVars == <<pending, encKey, initOf>>
vars == <<drawn, pendingVars, key, session, net, restarts>>

(* remote: the key it keeps as the peer's; stale: past its expiresAt *)
Session == [role : {"initiator", "responder"}, remote : Keys, init : Ids, ack : Ids,
            encrypted : BOOLEAN, stale : BOOLEAN]

Message ==
    [type : {"init"}, from : Agents, id : Ids]
        \cup [type : {"ack"}, from : Agents, by : Keys, id : Ids, answers : Ids]
        \cup [type : {"confirm"}, from : Agents, answers : Ids]
        \cup [type : {"task"}, from : Agents, key : SUBSET Ids]

Init ==
    /\ drawn = 0
    /\ pending = [p \in Agents |-> None]
    /\ encKey = [p \in Agents |-> None]
    /\ initOf = [p \in Agents |-> None]
    /\ key = [p \in Agents |-> NoKey]
    /\ session = [p \in Agents |-> None]
    /\ net = {}
    /\ restarts = 0

Draw == drawn < MaxDraws /\ drawn' = drawn + 1

Send(m) == net' = net \cup {m}

From(p, type) == {m \in net : m.type = type /\ m.from = Peer(p)}

Ack(p, signer, id, answers) ==
    [type |-> "ack", from |-> p, by |-> signer, id |-> id, answers |-> answers]

(* Step 1.  A new init replaces whatever challenge was pending.            *)
CreateInit(p) ==
    /\ Draw
    /\ pending' = [pending EXCEPT ![p] = drawn']
    /\ encKey' = [encKey EXCEPT ![p] = drawn']
    /\ Send([type |-> "init", from |-> p, id |-> drawn'])
    /\ UNCHANGED <<initOf, key, session, restarts>>

(* Mutant: the first init processed is kept until it is confirmed.         *)
ProcessInitKeepsFirst(p) ==
    \E m \in From(p, "init") :
        /\ Draw
        /\ pending' = [pending EXCEPT ![p] = drawn']
        /\ initOf' = IF initOf[p] = None THEN [initOf EXCEPT ![p] = m.id] ELSE initOf
        /\ key' = IF p \in Encrypting THEN [key EXCEPT ![p] = {m.id, drawn'}] ELSE key
        /\ Send(Ack(p, p, drawn', m.id))
        /\ UNCHANGED <<encKey, session, restarts>>

(* Step 2.  The responder waits for its own challenge in the same place,   *)
(* and has the shared key before the initiator has shown anything.         *)
ProcessInit(p) ==
    \E m \in From(p, "init") :
        /\ Draw
        /\ pending' = [pending EXCEPT ![p] = drawn']
        /\ initOf' = [initOf EXCEPT ![p] = m.id]
        /\ key' = IF p \in Encrypting THEN [key EXCEPT ![p] = {m.id, drawn'}] ELSE key
        /\ Send(Ack(p, p, drawn', m.id))
        /\ UNCHANGED <<encKey, session, restarts>>

(* Whoever an init reached answers it in the name of the agent it was for, *)
(* under a key of his own and with a challenge he draws.                   *)
OtherAck(p) ==
    \E m \in From(p, "init") :
        /\ Draw
        /\ Send(Ack(p, Other, drawn', m.id))
        /\ UNCHANGED <<pendingVars, key, session, restarts>>

CreateSession(p, role, remote, init, ack, encrypted) ==
    session' = [session EXCEPT ![p] = [role |-> role, remote |-> remote,
                                       init |-> init, ack |-> ack,
                                       encrypted |-> encrypted, stale |-> FALSE]]

(* An ack carries a key whether or not its sender encrypts.                *)
Establish(p, remote) ==
    IF p \in Encrypting
    THEN /\ key' = [key EXCEPT ![p] = {encKey[p], remote}]
         /\ encKey' = [encKey EXCEPT ![p] = None]
    ELSE UNCHANGED <<key, encKey>>

(* Mutant: any ack will do while a challenge is pending.                   *)
ProcessAckAny(p) ==
    \E m \in From(p, "ack") :
        /\ pending[p] # None
        /\ pending' = [pending EXCEPT ![p] = None]
        /\ Establish(p, m.id)
        /\ CreateSession(p, "initiator", m.by, m.answers, m.id,
                         p \in Encrypting /\ encKey[p] # None)
        /\ Send([type |-> "confirm", from |-> p, answers |-> m.id])
        /\ UNCHANGED <<drawn, initOf, restarts>>

(* Step 3, initiator.  The ack has to answer the challenge that is pending *)
(* under the key it carries, which the session keeps.                      *)
ProcessAck(p) ==
    \E m \in From(p, "ack") :
        /\ pending[p] = m.answers
        /\ pending' = [pending EXCEPT ![p] = None]
        /\ Establish(p, m.id)
        /\ CreateSession(p, "initiator", m.by, m.answers, m.id,
                         p \in Encrypting /\ encKey[p] # None)
        /\ Send([type |-> "confirm", from |-> p, answers |-> m.id])
        /\ UNCHANGED <<drawn, initOf, restarts>>

(* Step 3, responder.  Wallets and capabilities are those of the last init.*)
ProcessConfirm(p) ==
    \E m \in From(p, "confirm") :
        /\ pending[p] = m.answers
        /\ pending' = [pending EXCEPT ![p] = None]
        /\ initOf' = [initOf EXCEPT ![p] = None]
        /\ CreateSession(p, "responder", Peer(p), initOf[p], m.answers, key[p] # NoKey)
        /\ UNCHANGED <<drawn, encKey, key, net, restarts>>

(* A session outlives its TTL until something looks at it.                 *)
Age(p) ==
    /\ session[p] # None /\ ~session[p].stale
    /\ session' = [session EXCEPT ![p].stale = TRUE]
    /\ UNCHANGED <<drawn, pendingVars, key, net, restarts>>

Drop(p) ==
    /\ session' = [session EXCEPT ![p] = None]
    /\ key' = [key EXCEPT ![p] = NoKey]

(* getSession and getActiveSessions clean up what has expired: every task, *)
(* proof or trust query that arrives looks, and so does the health route.  *)
GetSession(p) ==
    /\ session[p] # None /\ session[p].stale
    /\ Drop(p)
    /\ UNCHANGED <<drawn, pendingVars, net, restarts>>

(* terminateSession also drops what has not expired, or only has a key.    *)
TerminateSession(p) ==
    /\ session[p] # None \/ key[p] # NoKey
    /\ Drop(p)
    /\ UNCHANGED <<drawn, pendingVars, net, restarts>>

(* maybeEncrypt asks the EncryptionManager, which knows no expiry.         *)
SendTask(p) ==
    /\ Send([type |-> "task", from |-> p, key |-> key[p]])
    /\ UNCHANGED <<drawn, pendingVars, key, session, restarts>>

Restart(p) ==
    /\ restarts < MaxRestarts /\ restarts' = restarts + 1
    /\ pending' = [pending EXCEPT ![p] = None]
    /\ encKey' = [encKey EXCEPT ![p] = None]
    /\ initOf' = [initOf EXCEPT ![p] = None]
    /\ Drop(p)
    /\ UNCHANGED <<drawn, net>>

Next ==
    \E p \in Agents :
        \/ CreateInit(p) \/ ProcessInit(p) \/ OtherAck(p) \/ ProcessAck(p) \/ ProcessConfirm(p)
        \/ Age(p) \/ GetSession(p) \/ TerminateSession(p)
        \/ SendTask(p)
        \/ Restart(p)

Spec == Init /\ [][Next]_vars
-----------------------------------------------------------------------------
(* Every variable has its type: in particular no session is created with   *)
(* the place of an init that is no longer pending.                         *)
TypeOK ==
    /\ drawn \in 0..MaxDraws
    /\ pending \in [Agents -> Ids \cup {None}]
    /\ encKey \in [Agents -> Ids \cup {None}]
    /\ initOf \in [Agents -> Ids \cup {None}]
    /\ key \in [Agents -> SUBSET Ids]
    /\ session \in [Agents -> Session \cup {None}]
    /\ net \subseteq Message
    /\ restarts \in 0..MaxRestarts

Asked(p, s)     == [type |-> "init", from |-> p, id |-> s.init] \in net
Answered(p, by, s) == Ack(p, by, s.ack, s.init) \in net
Confirmed(p, s) == [type |-> "confirm", from |-> p, answers |-> s.ack] \in net

(* A session stands for one handshake: however the messages of several     *)
(* attempts arrive, the responder's has the peer's key and the wallets of  *)
(* the very init whose ack the peer confirmed, and the initiator's the key *)
(* of whoever answered the challenge it sent.  The peer took part in the   *)
(* initiator's if that is the peer's key, which processAck does not ask    *)
(* (handshake/index.ts:208-362).                                           *)
SessionsMatch ==
    \A p \in Agents : session[p] # None =>
        LET s == session[p] IN
        IF s.role = "initiator"
        THEN Asked(p, s) /\ Answered(Peer(p), s.remote, s)
        ELSE /\ s.remote = Peer(p)
             /\ Asked(Peer(p), s) /\ Answered(p, p, s) /\ Confirmed(Peer(p), s)

(* A session that says it is encrypted has a key for as long as it lives,  *)
(* so that no task is sent in the clear under it.                          *)
EncryptedHasKey ==
    \A p \in Agents : session[p] # None =>
        (session[p].encrypted => key[p] # NoKey)

Opens(p) == session[p]' # None /\ (session[p] = None
                \/ <<session[p].init, session[p].ack>> # <<session[p]'.init, session[p]'.ack>>)

OpenedWithItsKey ==
    \A p \in Agents : Opens(p) /\ session[p]'.encrypted
        => key[p]' = {session[p]'.init, session[p]'.ack}

(* When a session is opened its key is the one of that handshake, whatever *)
(* other inits and acks the agent has seen before                          *)
(* (handshake/index.ts:229-244, 296-301, 360).                             *)
ConfirmedKey == [][OpenedWithItsKey]_vars

Active(p) == session[p] # None /\ ~session[p].stale

(* Both agents have an active session of the same handshake. *)
Together ==
    /\ \A p \in Agents : Active(p)
    /\ <<session[A].init, session[A].ack>> = <<session[B].init, session[B].ack>>
=============================================================================
