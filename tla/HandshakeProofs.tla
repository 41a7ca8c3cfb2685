-------------------------- MODULE HandshakeProofs ---------------------------
(* Proofs about Handshake, for any number of attempts and whichever agents *)
(* encrypt; and about PeerAccess, which decides whom an agent lets in.     *)
EXTENDS Handshake, AccessPromises, Sequences, TLAPS

InitMsg(p, i)    == [type |-> "init", from |-> p, id |-> i]
ConfirmMsg(p, j) == [type |-> "confirm", from |-> p, answers |-> j]

Carrier(m) == m.type \in {"init", "ack"}

(* A challenge is drawn once, for one message.                             *)
UniqueIds ==
    /\ \A m \in net : Carrier(m) => m.id \in Nat /\ m.id <= drawn
    /\ \A m, n \in net : Carrier(m) /\ Carrier(n) /\ m.id = n.id => m = n

(* Every ack answers an init of the peer, and every confirm such an ack.   *)
Answers ==
    /\ \A p \in Agents : \A m \in From(p, "ack") : InitMsg(p, m.answers) \in net
    /\ \A p \in Agents : \A m \in From(p, "confirm") :
            \E i \in Ids, by \in Keys : Ack(p, by, m.answers, i) \in net

(* The challenge that is pending is either that of an agent's last init,   *)
(* whose key pair it holds ...                                             *)
AsInitiator(p) ==
    /\ InitMsg(p, pending[p]) \in net
    /\ encKey[p] = pending[p]

(* ... or that of its last ack, with the init that one answers and, unless *)
(* it was dropped since, the key the two give.                             *)
AsResponder(p) ==
    /\ initOf[p] \in Ids
    /\ Ack(p, p, pending[p], initOf[p]) \in net
    /\ InitMsg(Peer(p), initOf[p]) \in net
    /\ key[p] # NoKey => key[p] = {initOf[p], pending[p]}

Pending ==
    \A p \in Agents : pending[p] # None => AsInitiator(p) \/ AsResponder(p)

KeysChosen == \A p \in Agents : p \notin Encrypting => key[p] = NoKey

IInv ==
    /\ TypeOK
    /\ UniqueIds
    /\ Answers
    /\ Pending
    /\ KeysChosen
    /\ SessionsMatch
    /\ EncryptedHasKey

(* What the assumptions on the constants say of agents and challenges.     *)
LEMMA Constants ==
    /\ \A p \in Agents : Peer(p) \in Agents /\ Peer(p) # p /\ Peer(Peer(p)) = p
    /\ Ids \subseteq Nat /\ None \notin Ids
BY HandshakeAssumption DEF Agents, Peer, Ids

(* Drawing gives a challenge that no message carries yet.                  *)
LEMMA Drawn ==
    ASSUME TypeOK, UniqueIds, Draw
    PROVE  /\ drawn' \in Ids /\ drawn' \in Nat /\ drawn' # None /\ drawn < drawn' /\ drawn' \in 0..MaxDraws
           /\ \A m \in net : Carrier(m) => m.id # drawn'
<1>1. drawn \in Nat /\ MaxDraws \in Nat
    BY HandshakeAssumption DEF TypeOK
<1>2. drawn' \in Ids /\ drawn' \in Nat /\ drawn < drawn' /\ drawn' \in 0..MaxDraws
    BY <1>1 DEF Draw, Ids
<1>3. \A m \in net : Carrier(m) => m.id # drawn'
    BY <1>1, <1>2 DEF UniqueIds
<1> QED BY <1>2, <1>3, Constants

(* A message that carries the challenge just drawn keeps challenges unique.*)
LEMMA SendUnique ==
    ASSUME TypeOK, UniqueIds, Draw, NEW m, Carrier(m), m.id = drawn', Send(m)
    PROVE  UniqueIds'
<1>1. drawn \in Nat /\ drawn' \in Nat /\ drawn < drawn' /\ \A n \in net : Carrier(n) => n.id # drawn'
    BY Drawn DEF TypeOK
<1>2. \A n \in net' : Carrier(n) => n.id \in Nat /\ n.id <= drawn'
    BY <1>1 DEF Send, UniqueIds
<1>3. \A n, o \in net' : Carrier(n) /\ Carrier(o) /\ n.id = o.id => n = o
    BY <1>1 DEF Send, UniqueIds
<1> QED BY <1>2, <1>3 DEF UniqueIds, Carrier

(* Other messages do not bear on the matter.                               *)
LEMMA SendOther ==
    ASSUME UniqueIds, NEW m, ~Carrier(m), Send(m), drawn' = drawn
    PROVE  UniqueIds'
BY DEF Send, UniqueIds, Carrier

(* What has been sent stays sent, so a session whose agent did not change  *)
(* it still matches.                                                       *)
LEMMA StillMatch ==
    ASSUME SessionsMatch, net \subseteq net', NEW p \in Agents,
           session[p]' # None,
           \/ session[p]' = session[p]
           \/ /\ session[p] # None
              /\ session[p]'.role = session[p].role /\ session[p]'.remote = session[p].remote
              /\ session[p]'.init = session[p].init
              /\ session[p]'.ack = session[p].ack
    PROVE  LET s == session[p]' IN
           IF s.role = "initiator"
           THEN InitMsg(p, s.init) \in net' /\ Ack(Peer(p), s.remote, s.ack, s.init) \in net'
           ELSE /\ s.remote = Peer(p)
                /\ InitMsg(Peer(p), s.init) \in net' /\ Ack(p, p, s.ack, s.init) \in net'
                /\ ConfirmMsg(Peer(p), s.ack) \in net'
BY Zenon DEF SessionsMatch, InitMsg, ConfirmMsg, Asked, Answered, Confirmed

LEMMA InitIInv == Init => IInv
<1> SUFFICES ASSUME Init PROVE IInv
    OBVIOUS
<1> USE DEF Init
<1>1. TypeOK
    BY HandshakeAssumption DEF TypeOK, NoKey
<1>2. UniqueIds /\ Answers
    BY DEF UniqueIds, Answers, From
<1>3. Pending /\ KeysChosen /\ SessionsMatch /\ EncryptedHasKey
    BY DEF Pending, KeysChosen, SessionsMatch, EncryptedHasKey
<1> QED BY <1>1, <1>2, <1>3 DEF IInv

LEMMA CreateInitIInv ==
    ASSUME IInv, NEW p \in Agents, CreateInit(p)
    PROVE  IInv'
<1> DEFINE m == InitMsg(p, drawn')
<1>1. /\ drawn' \in Ids /\ drawn' \in Nat /\ drawn' # None /\ drawn < drawn' /\ drawn' \in 0..MaxDraws
      /\ \A n \in net : Carrier(n) => n.id # drawn'
    BY Drawn DEF IInv, CreateInit
<1>2. net' = net \cup {m} /\ m \in Message
    BY <1>1 DEF CreateInit, Send, InitMsg, Message
<1>3. TypeOK'
    BY <1>1, <1>2 DEF IInv, TypeOK, CreateInit
<1>4. UniqueIds'
    BY <1>1, SendUnique DEF IInv, CreateInit, InitMsg, Carrier
<1>5. Answers'
  <2>1. \A q \in Agents : From(q, "ack")' = From(q, "ack") /\ From(q, "confirm")' = From(q, "confirm")
      BY <1>2 DEF From, InitMsg
  <2> QED BY <1>2, <2>1 DEF IInv, Answers
<1>6. Pending'
  <2> SUFFICES ASSUME NEW q \in Agents, pending[q]' # None
               PROVE  AsInitiator(q)' \/ AsResponder(q)'
      BY DEF Pending
  <2>1. CASE q = p
    <3>1. pending[q]' = drawn' /\ encKey[q]' = drawn'
        BY <2>1 DEF IInv, TypeOK, CreateInit
    <3> QED BY <1>2, <2>1, <3>1 DEF AsInitiator
  <2>2. CASE q # p
    <3>1. pending[q]' = pending[q] /\ encKey[q]' = encKey[q] /\ initOf' = initOf /\ key' = key
        BY <2>2 DEF IInv, TypeOK, CreateInit
    <3> QED BY <1>2, <3>1 DEF IInv, Pending, AsInitiator, AsResponder
  <2> QED BY <2>1, <2>2
<1>7. SessionsMatch'
    BY <1>2 DEF IInv, SessionsMatch, CreateInit, Asked, Answered, Confirmed
<1>8. KeysChosen' /\ EncryptedHasKey'
    BY DEF IInv, KeysChosen, EncryptedHasKey, CreateInit
<1> QED BY <1>3, <1>4, <1>5, <1>6, <1>7, <1>8 DEF IInv

LEMMA ProcessInitIInv ==
    ASSUME IInv, NEW p \in Agents, ProcessInit(p)
    PROVE  IInv'
<1> PICK i \in From(p, "init") :
        /\ Draw
        /\ pending' = [pending EXCEPT ![p] = drawn']
        /\ initOf' = [initOf EXCEPT ![p] = i.id]
        /\ key' = IF p \in Encrypting THEN [key EXCEPT ![p] = {i.id, drawn'}] ELSE key
        /\ Send(Ack(p, p, drawn', i.id))
        /\ UNCHANGED <<encKey, session, restarts>>
    BY DEF ProcessInit
<1> DEFINE m == Ack(p, p, drawn', i.id)
<1>1. /\ drawn' \in Ids /\ drawn' \in Nat /\ drawn' # None /\ drawn < drawn' /\ drawn' \in 0..MaxDraws
      /\ \A n \in net : Carrier(n) => n.id # drawn'
    BY Drawn DEF IInv
<1>2. Peer(p) \in Agents /\ p # Peer(p) /\ Peer(Peer(p)) = p
    BY Constants
<1>3. i \in net /\ i.id \in Ids /\ i = InitMsg(Peer(p), i.id)
    BY <1>2 DEF IInv, TypeOK, From, Message, InitMsg
<1>4. net' = net \cup {m} /\ m \in Message
    BY <1>1, <1>3 DEF Send, Ack, Message, Keys
<1>5. TypeOK'
  <2>1. key' \in [Agents -> SUBSET Ids]
      BY <1>1, <1>3 DEF IInv, TypeOK
  <2> QED BY <1>1, <1>3, <1>4, <2>1 DEF IInv, TypeOK
<1>6. UniqueIds'
    BY <1>1, SendUnique DEF IInv, Carrier, Ack
<1>7. Answers'
  <2> SUFFICES ASSUME NEW q \in Agents
               PROVE  /\ \A n \in From(q, "ack")' : InitMsg(q, n.answers) \in net'
                      /\ \A n \in From(q, "confirm")' : \E j \in Ids, by \in Keys : Ack(q, by, n.answers, j) \in net'
      BY DEF Answers
  <2>1. From(q, "confirm")' = From(q, "confirm")
      BY <1>4 DEF From, Ack
  <2>2. \A n \in From(q, "ack")' : n \in From(q, "ack") \/ (n = m /\ p = Peer(q))
      BY <1>4 DEF From, Ack
  <2>3. p = Peer(q) => q = Peer(p)
      BY Constants
  <2>4. m.answers = i.id
      BY DEF Ack
  <2> QED BY <1>3, <1>4, <2>1, <2>2, <2>3, <2>4 DEF IInv, Answers
<1>8. Pending'
  <2> SUFFICES ASSUME NEW q \in Agents, pending[q]' # None
               PROVE  AsInitiator(q)' \/ AsResponder(q)'
      BY DEF Pending
  <2>1. CASE q = p
    <3>1. pending[p]' = drawn' /\ initOf[p]' = i.id
        BY DEF IInv, TypeOK
    <3>2. key[p]' # NoKey => key[p]' = {i.id, drawn'}
        BY DEF IInv, TypeOK, KeysChosen
    <3> QED BY <1>3, <1>4, <2>1, <3>1, <3>2 DEF AsResponder
  <2>2. CASE q # p
    <3>1. pending[q]' = pending[q] /\ encKey' = encKey /\ initOf[q]' = initOf[q] /\ key[q]' = key[q]
        BY <2>2 DEF IInv, TypeOK
    <3> QED BY <1>4, <3>1 DEF IInv, Pending, AsInitiator, AsResponder
  <2> QED BY <2>1, <2>2
<1>9. SessionsMatch'
    BY <1>4 DEF IInv, SessionsMatch, Asked, Answered, Confirmed
<1>10. KeysChosen' /\ EncryptedHasKey'
  <2>1. \A q \in Agents : key[q]' = key[q] \/ (q = p /\ p \in Encrypting /\ key[q]' # NoKey)
      BY DEF IInv, TypeOK, NoKey
  <2> QED BY <2>1 DEF IInv, KeysChosen, EncryptedHasKey
<1> QED BY <1>5, <1>6, <1>7, <1>8, <1>9, <1>10 DEF IInv

LEMMA OtherAckIInv ==
    ASSUME IInv, NEW p \in Agents, OtherAck(p)
    PROVE  IInv'
<1> PICK i \in From(p, "init") : Draw /\ Send(Ack(p, Other, drawn', i.id))
    BY DEF OtherAck
<1> DEFINE m == Ack(p, Other, drawn', i.id)
<1>1. drawn' \in Ids /\ drawn' \in 0..MaxDraws
    BY Drawn DEF IInv
<1>2. i \in net /\ i.id \in Ids /\ i = InitMsg(Peer(p), i.id)
    BY Constants DEF IInv, TypeOK, From, Message, InitMsg
<1>3. net' = net \cup {m} /\ m \in Message
    BY <1>1, <1>2 DEF Send, Ack, Message, Keys
<1>4. UNCHANGED <<pending, encKey, initOf, key, session, restarts>>
    BY DEF OtherAck, pendingVars
<1>5. TypeOK' /\ KeysChosen' /\ EncryptedHasKey'
    BY <1>1, <1>3, <1>4 DEF IInv, TypeOK, KeysChosen, EncryptedHasKey
<1>6. UniqueIds'
    BY SendUnique DEF IInv, Carrier, Ack
<1>7. Answers'
  <2> SUFFICES ASSUME NEW q \in Agents
               PROVE  /\ \A n \in From(q, "ack")' : InitMsg(q, n.answers) \in net'
                      /\ \A n \in From(q, "confirm")' : \E j \in Ids, by \in Keys : Ack(q, by, n.answers, j) \in net'
      BY DEF Answers
  <2>1. From(q, "confirm")' = From(q, "confirm")
      BY <1>3 DEF From, Ack
  <2>2. \A n \in From(q, "ack")' : n \in From(q, "ack") \/ (n = m /\ p = Peer(q))
      BY <1>3 DEF From, Ack
  <2>3. p = Peer(q) => q = Peer(p)
      BY Constants
  <2>4. m.answers = i.id
      BY DEF Ack
  <2> QED BY <1>2, <1>3, <2>1, <2>2, <2>3, <2>4 DEF IInv, Answers
<1>8. Pending'
    BY <1>3, <1>4 DEF IInv, Pending, AsInitiator, AsResponder
<1>9. SessionsMatch'
    BY <1>3, <1>4 DEF IInv, SessionsMatch, Asked, Answered, Confirmed
<1> QED BY <1>5, <1>6, <1>7, <1>8, <1>9 DEF IInv

(* An ack that answers a pending challenge answers an init, and no ack has *)
(* the challenge of one.                                                   *)
LEMMA AckForInit ==
    ASSUME IInv, NEW p \in Agents, NEW a \in From(p, "ack"), pending[p] = a.answers
    PROVE  /\ a.id \in Ids /\ a.answers \in Ids /\ a.by \in Keys
           /\ a = Ack(Peer(p), a.by, a.id, a.answers)
           /\ AsInitiator(p)
<1>1. /\ a \in net /\ a.id \in Ids /\ a.answers \in Ids /\ a.by \in Keys
      /\ a = Ack(Peer(p), a.by, a.id, a.answers)
    BY Constants DEF IInv, TypeOK, From, Message, Ack
<1>2. InitMsg(p, a.answers) \in net
    BY DEF IInv, Answers
<1>3. pending[p] # None
    BY <1>1, Constants
<1>4. ~AsResponder(p)
  <2> SUFFICES ASSUME Ack(p, p, pending[p], initOf[p]) \in net PROVE FALSE
      BY DEF AsResponder
  <2>1. Ack(p, p, pending[p], initOf[p]) = InitMsg(p, a.answers)
      BY <1>2 DEF IInv, UniqueIds, Carrier, Ack, InitMsg
  <2>2. Ack(p, p, pending[p], initOf[p]).type # InitMsg(p, a.answers).type
      BY DEF Ack, InitMsg
  <2> QED BY <2>1, <2>2
<1> QED BY <1>1, <1>3, <1>4 DEF IInv, Pending

LEMMA ProcessAckIInv ==
    ASSUME IInv, NEW p \in Agents, ProcessAck(p)
    PROVE  IInv'
<1> PICK a \in From(p, "ack") :
        /\ pending[p] = a.answers
        /\ pending' = [pending EXCEPT ![p] = None]
        /\ Establish(p, a.id)
        /\ CreateSession(p, "initiator", a.by, a.answers, a.id,
                         p \in Encrypting /\ encKey[p] # None)
        /\ Send([type |-> "confirm", from |-> p, answers |-> a.id])
        /\ UNCHANGED <<drawn, initOf, restarts>>
    BY DEF ProcessAck
<1> DEFINE m == ConfirmMsg(p, a.id)
<1>1. /\ a.id \in Ids /\ a.answers \in Ids /\ a.by \in Keys /\ a \in net
      /\ a = Ack(Peer(p), a.by, a.id, a.answers)
      /\ InitMsg(p, a.answers) \in net /\ encKey[p] = a.answers
    BY AckForInit DEF AsInitiator, From
<1>2. Peer(p) \in Agents /\ p # Peer(p) /\ Peer(Peer(p)) = p
    BY Constants
<1>3. net' = net \cup {m} /\ m \in Message
    BY <1>1 DEF Send, ConfirmMsg, Message
<1>4. /\ key' \in [Agents -> SUBSET Ids] /\ encKey' \in [Agents -> Ids \cup {None}]
      /\ \A q \in Agents : key[q]' = IF q = p /\ p \in Encrypting THEN {a.answers, a.id} ELSE key[q]
      /\ \A q \in Agents : q # p => encKey[q]' = encKey[q]
  <2>1. CASE p \in Encrypting
    <3>1. key' = [key EXCEPT ![p] = {a.answers, a.id}] /\ encKey' = [encKey EXCEPT ![p] = None]
        BY <1>1, <2>1 DEF Establish
    <3>2. {a.answers, a.id} \in SUBSET Ids
        BY <1>1
    <3> QED BY <2>1, <3>1, <3>2 DEF IInv, TypeOK
  <2>2. CASE p \notin Encrypting
      BY <2>2 DEF IInv, TypeOK, Establish
  <2> QED BY <2>1, <2>2
<1>5. /\ session' \in [Agents -> Session \cup {None}]
      /\ \A q \in Agents : q # p => session[q]' = session[q]
      /\ session[p]'.role = "initiator" /\ session[p]'.remote = a.by
      /\ session[p]'.init = a.answers /\ session[p]'.ack = a.id
      /\ session[p]'.encrypted => p \in Encrypting
  <2> DEFINE s == [role |-> "initiator", remote |-> a.by, init |-> a.answers, ack |-> a.id,
                   encrypted |-> (p \in Encrypting /\ encKey[p] # None), stale |-> FALSE]
  <2>1. s \in Session /\ (s.encrypted => p \in Encrypting)
      BY <1>1 DEF Session
  <2>2. session' = [session EXCEPT ![p] = s]
      BY DEF CreateSession
  <2>3. s.role = "initiator" /\ s.remote = a.by /\ s.init = a.answers /\ s.ack = a.id
      OBVIOUS
  <2> HIDE DEF s
  <2> QED BY <2>1, <2>2, <2>3 DEF IInv, TypeOK
<1>6. TypeOK'
    BY <1>3, <1>4, <1>5 DEF IInv, TypeOK
<1>7. UniqueIds'
  <2>1. ~Carrier(m) /\ Send(m)
      BY DEF ConfirmMsg, Carrier
  <2> QED BY <2>1, SendOther DEF IInv
<1>8. Answers'
  <2> SUFFICES ASSUME NEW q \in Agents
               PROVE  /\ \A n \in From(q, "ack")' : InitMsg(q, n.answers) \in net'
                      /\ \A n \in From(q, "confirm")' : \E j \in Ids, by \in Keys : Ack(q, by, n.answers, j) \in net'
      BY DEF Answers
  <2>1. From(q, "ack")' = From(q, "ack")
      BY <1>3 DEF From, ConfirmMsg
  <2>2. \A n \in From(q, "confirm")' : n \in From(q, "confirm") \/ (n = m /\ q = Peer(p))
      BY <1>2, <1>3, Constants DEF From, ConfirmMsg
  <2>3. m.answers = a.id
      BY DEF ConfirmMsg
  <2> QED BY <1>1, <1>3, <2>1, <2>2, <2>3 DEF IInv, Answers
<1>9. Pending'
  <2> SUFFICES ASSUME NEW q \in Agents, pending[q]' # None
               PROVE  AsInitiator(q)' \/ AsResponder(q)'
      BY DEF Pending
  <2>1. q # p /\ pending[q]' = pending[q] /\ initOf' = initOf
      BY DEF IInv, TypeOK
  <2> QED BY <1>3, <1>4, <2>1 DEF IInv, Pending, AsInitiator, AsResponder
<1>10. SessionsMatch'
  <2> SUFFICES ASSUME NEW q \in Agents, session[q]' # None
               PROVE  LET s == session[q]' IN
                      IF s.role = "initiator"
                      THEN InitMsg(q, s.init) \in net' /\ Ack(Peer(q), s.remote, s.ack, s.init) \in net'
                      ELSE /\ s.remote = Peer(q)
                           /\ InitMsg(Peer(q), s.init) \in net' /\ Ack(q, q, s.ack, s.init) \in net'
                           /\ ConfirmMsg(Peer(q), s.ack) \in net'
      BY DEF SessionsMatch, Asked, Answered, Confirmed, InitMsg, ConfirmMsg
  <2>1. CASE q = p
      BY <1>1, <1>3, <1>5, <2>1
  <2>2. CASE q # p
    <3>1. session[q]' = session[q]
        BY <1>5, <2>2
    <3> QED BY <1>3, <3>1, StillMatch DEF IInv
  <2> QED BY <2>1, <2>2
<1>11. KeysChosen' /\ EncryptedHasKey'
  <2>1. p \in Encrypting => key[p]' # NoKey
      BY <1>4 DEF NoKey
  <2>2. \A q \in Agents : q # p => key[q]' = key[q] /\ session[q]' = session[q]
      BY <1>4, <1>5
  <2>3. KeysChosen'
      BY <1>4 DEF IInv, KeysChosen
  <2> QED BY <1>5, <2>1, <2>2, <2>3 DEF IInv, EncryptedHasKey
<1> QED BY <1>6, <1>7, <1>8, <1>9, <1>10, <1>11 DEF IInv

(* A confirm that answers a pending challenge answers an ack.              *)
LEMMA ConfirmForAck ==
    ASSUME IInv, NEW p \in Agents, NEW c \in From(p, "confirm"), pending[p] = c.answers
    PROVE  /\ c.answers \in Ids
           /\ c = ConfirmMsg(Peer(p), c.answers)
           /\ AsResponder(p)
<1>1. c \in net /\ c.answers \in Ids /\ c = ConfirmMsg(Peer(p), c.answers)
    BY Constants DEF IInv, TypeOK, From, Message, ConfirmMsg
<1>2. PICK i \in Ids, by \in Keys : Ack(p, by, c.answers, i) \in net
    BY DEF IInv, Answers
<1>3. pending[p] # None
    BY <1>1, Constants
<1>4. ~AsInitiator(p)
  <2> SUFFICES ASSUME InitMsg(p, pending[p]) \in net PROVE FALSE
      BY DEF AsInitiator
  <2>1. Ack(p, by, c.answers, i) = InitMsg(p, pending[p])
      BY <1>2 DEF IInv, UniqueIds, Carrier, Ack, InitMsg
  <2>2. Ack(p, by, c.answers, i).type # InitMsg(p, pending[p]).type
      BY DEF Ack, InitMsg
  <2> QED BY <2>1, <2>2
<1> QED BY <1>1, <1>3, <1>4 DEF IInv, Pending

LEMMA ProcessConfirmIInv ==
    ASSUME IInv, NEW p \in Agents, ProcessConfirm(p)
    PROVE  IInv'
<1> PICK c \in From(p, "confirm") :
        /\ pending[p] = c.answers
        /\ pending' = [pending EXCEPT ![p] = None]
        /\ initOf' = [initOf EXCEPT ![p] = None]
        /\ CreateSession(p, "responder", Peer(p), initOf[p], c.answers, key[p] # NoKey)
        /\ UNCHANGED <<drawn, encKey, key, net, restarts>>
    BY DEF ProcessConfirm
<1>1. /\ c.answers \in Ids /\ initOf[p] \in Ids /\ c \in net
      /\ c = ConfirmMsg(Peer(p), c.answers)
      /\ Ack(p, p, c.answers, initOf[p]) \in net /\ InitMsg(Peer(p), initOf[p]) \in net
    BY ConfirmForAck DEF AsResponder, From
<1>2. /\ session' \in [Agents -> Session \cup {None}]
      /\ \A q \in Agents : q # p => session[q]' = session[q]
      /\ session[p]'.role = "responder" /\ session[p]'.remote = Peer(p)
      /\ session[p]'.init = initOf[p]
      /\ session[p]'.ack = c.answers
      /\ session[p]'.encrypted => key[p] # NoKey
  <2> DEFINE s == [role |-> "responder", remote |-> Peer(p), init |-> initOf[p], ack |-> c.answers,
                   encrypted |-> (key[p] # NoKey), stale |-> FALSE]
  <2>1. s \in Session /\ (s.encrypted => key[p] # NoKey)
      BY <1>1, Constants DEF Session, Keys
  <2>2. session' = [session EXCEPT ![p] = s]
      BY DEF CreateSession
  <2>3. s.role = "responder" /\ s.remote = Peer(p) /\ s.init = initOf[p] /\ s.ack = c.answers
      OBVIOUS
  <2> HIDE DEF s
  <2> QED BY <2>1, <2>2, <2>3 DEF IInv, TypeOK
<1>3. TypeOK'
    BY <1>2 DEF IInv, TypeOK
<1>4. UniqueIds' /\ Answers' /\ KeysChosen'
    BY DEF IInv, UniqueIds, Answers, From, KeysChosen
<1>5. Pending'
  <2> SUFFICES ASSUME NEW q \in Agents, pending[q]' # None
               PROVE  AsInitiator(q)' \/ AsResponder(q)'
      BY DEF Pending
  <2>1. q # p /\ pending[q]' = pending[q] /\ initOf[q]' = initOf[q]
      BY DEF IInv, TypeOK
  <2> QED BY <2>1 DEF IInv, Pending, AsInitiator, AsResponder
<1>6. SessionsMatch'
  <2> SUFFICES ASSUME NEW q \in Agents, session[q]' # None
               PROVE  LET s == session[q]' IN
                      IF s.role = "initiator"
                      THEN InitMsg(q, s.init) \in net' /\ Ack(Peer(q), s.remote, s.ack, s.init) \in net'
                      ELSE /\ s.remote = Peer(q)
                           /\ InitMsg(Peer(q), s.init) \in net' /\ Ack(q, q, s.ack, s.init) \in net'
                           /\ ConfirmMsg(Peer(q), s.ack) \in net'
      BY DEF SessionsMatch, Asked, Answered, Confirmed, InitMsg, ConfirmMsg
  <2>1. CASE q = p
      BY <1>1, <1>2, <2>1
  <2>2. CASE q # p
    <3>1. session[q]' = session[q]
        BY <1>2, <2>2
    <3> QED BY <3>1, StillMatch DEF IInv
  <2> QED BY <2>1, <2>2
<1>7. EncryptedHasKey'
    BY <1>2 DEF IInv, EncryptedHasKey
<1> QED BY <1>3, <1>4, <1>5, <1>6, <1>7 DEF IInv

LEMMA AgeIInv ==
    ASSUME IInv, NEW p \in Agents, Age(p)
    PROVE  IInv'
<1>1. /\ session' \in [Agents -> Session \cup {None}]
      /\ \A q \in Agents : session[q]' # None =>
            /\ session[q] # None /\ session[q]'.role = session[q].role
            /\ session[q]'.remote = session[q].remote
            /\ session[q]'.init = session[q].init /\ session[q]'.ack = session[q].ack
            /\ session[q]'.encrypted = session[q].encrypted
  <2>1. session[p] \in Session
      BY DEF Age, IInv, TypeOK
  <2>2. session' = [session EXCEPT ![p] = [session[p] EXCEPT !.stale = TRUE]]
      BY DEF Age
  <2>3. [session[p] EXCEPT !.stale = TRUE] \in Session
      BY <2>1 DEF Session
  <2>4. \A q \in Agents : q # p => session[q]' = session[q]
      BY <2>2 DEF IInv, TypeOK
  <2>5. /\ session[p]'.role = session[p].role /\ session[p]'.remote = session[p].remote
        /\ session[p]'.init = session[p].init
        /\ session[p]'.ack = session[p].ack /\ session[p]'.encrypted = session[p].encrypted
      BY <2>1, <2>2 DEF IInv, TypeOK, Session
  <2> QED BY <2>2, <2>3, <2>4, <2>5 DEF IInv, TypeOK, Age
<1>2. UNCHANGED <<drawn, pending, encKey, initOf, key, net, restarts>>
    BY DEF Age, pendingVars
<1>3. TypeOK' /\ KeysChosen' /\ EncryptedHasKey'
    BY <1>1, <1>2 DEF IInv, TypeOK, KeysChosen, EncryptedHasKey
<1>4. UniqueIds' /\ Answers' /\ Pending'
    BY <1>2 DEF IInv, UniqueIds, Answers, From, Pending, AsInitiator, AsResponder
<1>5. SessionsMatch'
    BY <1>1, <1>2 DEF IInv, SessionsMatch, Asked, Answered, Confirmed
<1> QED BY <1>3, <1>4, <1>5 DEF IInv

(* Dropping an agent's session and key, with or without what is pending.   *)
LEMMA DropIInv ==
    ASSUME IInv, NEW p \in Agents, Drop(p),
           restarts' \in 0..MaxRestarts, UNCHANGED <<drawn, net>>,
           \/ UNCHANGED <<pending, encKey, initOf>>
           \/ /\ pending' = [pending EXCEPT ![p] = None]
              /\ encKey' = [encKey EXCEPT ![p] = None]
              /\ initOf' = [initOf EXCEPT ![p] = None]
    PROVE  IInv'
<1>1. /\ session' = [session EXCEPT ![p] = None] /\ key' = [key EXCEPT ![p] = NoKey]
      /\ NoKey \in SUBSET Ids
    BY DEF Drop, NoKey
<1>2. TypeOK'
    BY <1>1 DEF IInv, TypeOK
<1>3. KeysChosen' /\ EncryptedHasKey'
    BY <1>1 DEF IInv, TypeOK, KeysChosen, EncryptedHasKey
<1>4. UniqueIds' /\ Answers'
    BY DEF IInv, UniqueIds, Answers, From
<1>5. \A q \in Agents : session[q]' # None => session[q]' = session[q]
    BY <1>1 DEF IInv, TypeOK
<1>6. SessionsMatch'
    BY <1>5 DEF IInv, SessionsMatch, Asked, Answered, Confirmed
<1>7. Pending'
  <2> SUFFICES ASSUME NEW q \in Agents, pending[q]' # None
               PROVE  AsInitiator(q)' \/ AsResponder(q)'
      BY DEF Pending
  <2>1. /\ pending[q]' = pending[q] /\ encKey[q]' = encKey[q] /\ initOf[q]' = initOf[q]
        /\ key[q]' # NoKey => key[q]' = key[q]
      BY <1>1 DEF IInv, TypeOK
  <2> QED BY <2>1 DEF IInv, Pending, AsInitiator, AsResponder
<1> QED BY <1>2, <1>3, <1>4, <1>6, <1>7 DEF IInv

LEMMA SendTaskIInv ==
    ASSUME IInv, NEW p \in Agents, SendTask(p)
    PROVE  IInv'
<1> DEFINE m == [type |-> "task", from |-> p, key |-> key[p]]
<1>1. net' = net \cup {m} /\ m \in Message /\ ~Carrier(m)
    BY DEF SendTask, Send, Message, IInv, TypeOK, Carrier
<1>2. UNCHANGED <<drawn, pending, encKey, initOf, key, session, restarts>>
    BY DEF SendTask, pendingVars
<1>3. TypeOK' /\ KeysChosen' /\ EncryptedHasKey'
    BY <1>1, <1>2 DEF IInv, TypeOK, KeysChosen, EncryptedHasKey
<1>4. UniqueIds'
    BY <1>1, <1>2, SendOther DEF IInv, Send
<1>5. Answers'
  <2>1. \A q \in Agents : From(q, "ack")' = From(q, "ack") /\ From(q, "confirm")' = From(q, "confirm")
      BY <1>1 DEF From
  <2> QED BY <1>1, <2>1 DEF IInv, Answers
<1>6. Pending'
    BY <1>1, <1>2 DEF IInv, Pending, AsInitiator, AsResponder
<1>7. SessionsMatch'
    BY <1>1, <1>2 DEF IInv, SessionsMatch, Asked, Answered, Confirmed
<1> QED BY <1>3, <1>4, <1>5, <1>6, <1>7 DEF IInv

LEMMA NextIInv == IInv /\ [Next]_vars => IInv'
<1> SUFFICES ASSUME IInv, [Next]_vars PROVE IInv'
    OBVIOUS
<1>1. CASE UNCHANGED vars
    BY <1>1 DEF vars, pendingVars, IInv, TypeOK, UniqueIds, Answers, From, Pending, AsInitiator,
        AsResponder, KeysChosen, SessionsMatch, Asked, Answered, Confirmed, EncryptedHasKey
<1>2. CASE Next
  <2> PICK p \in Agents :
        \/ CreateInit(p) \/ ProcessInit(p) \/ OtherAck(p) \/ ProcessAck(p) \/ ProcessConfirm(p)
        \/ Age(p) \/ GetSession(p) \/ TerminateSession(p)
        \/ SendTask(p)
        \/ Restart(p)
      BY <1>2 DEF Next
  <2>1. restarts \in 0..MaxRestarts /\ restarts \in Nat /\ MaxRestarts \in Nat
      BY HandshakeAssumption DEF IInv, TypeOK
  <2>2. CASE GetSession(p) \/ TerminateSession(p)
      BY <2>1, <2>2, DropIInv DEF GetSession, TerminateSession, pendingVars
  <2>3. CASE Restart(p)
    <3>1. restarts' \in 0..MaxRestarts
        BY <2>1, <2>3 DEF Restart
    <3> QED BY <2>3, <3>1, DropIInv DEF Restart
  <2> QED BY <2>2, <2>3, CreateInitIInv, ProcessInitIInv, OtherAckIInv, ProcessAckIInv, ProcessConfirmIInv,
             AgeIInv, SendTaskIInv
<1> QED BY <1>1, <1>2

THEOREM Invariance == Spec => []IInv
<1>1. Init => IInv
    BY InitIInv
<1>2. IInv /\ [Next]_vars => IInv'
    BY NextIInv
<1> QED BY <1>1, <1>2, PTL DEF Spec

(* Sessions are well formed: each comes of an init, whose key pair an      *)
(* initiator that encrypts still had (handshake/index.ts:208-362).         *)
THEOREM TypeCorrect == Spec => []TypeOK
<1>1. IInv => TypeOK
    BY DEF IInv
<1> QED BY <1>1, Invariance, PTL

(* A session is one handshake, a responder's with the peer and an          *)
(* initiator's with whoever holds the key it keeps, whatever is lost,      *)
(* delayed, repeated or reordered (handshake/index.ts:208-362).            *)
THEOREM SessionsAlwaysMatch == Spec => []SessionsMatch
<1>1. IInv => SessionsMatch
    BY DEF IInv
<1> QED BY <1>1, Invariance, PTL

(* A session that says it is encrypted has a key until both are dropped    *)
(* (handshake/index.ts:366-402).                                           *)
THEOREM EncryptedKeepsKey == Spec => []EncryptedHasKey
<1>1. IInv => EncryptedHasKey
    BY DEF IInv
<1> QED BY <1>1, Invariance, PTL

(* A session is opened with the key of its own handshake                   *)
(* (handshake/index.ts:208-362).                                           *)
THEOREM KeyConfirmed == Spec => ConfirmedKey
<1>1. IInv /\ [Next]_vars => [OpenedWithItsKey]_vars
  <2> SUFFICES ASSUME IInv, Next, NEW q \in Agents, Opens(q), session[q]'.encrypted
               PROVE  key[q]' = {session[q]'.init, session[q]'.ack}
      BY DEF OpenedWithItsKey
  <2> PICK p \in Agents :
        \/ CreateInit(p) \/ ProcessInit(p) \/ OtherAck(p) \/ ProcessAck(p) \/ ProcessConfirm(p)
        \/ Age(p) \/ GetSession(p) \/ TerminateSession(p)
        \/ SendTask(p)
        \/ Restart(p)
      BY DEF Next
  <2>1. CASE CreateInit(p) \/ ProcessInit(p) \/ OtherAck(p) \/ SendTask(p)
    <3>1. session' = session
        BY <2>1 DEF CreateInit, ProcessInit, OtherAck, SendTask
    <3> QED BY <3>1 DEF Opens
  <2>2. CASE GetSession(p) \/ TerminateSession(p) \/ Restart(p)
    <3>1. session' = [session EXCEPT ![p] = None]
        BY <2>2 DEF GetSession, TerminateSession, Restart, Drop
    <3> QED BY <3>1 DEF Opens, IInv, TypeOK
  <2>3. CASE Age(p)
    <3>1. session[p] \in Session /\ session' = [session EXCEPT ![p] = [session[p] EXCEPT !.stale = TRUE]]
        BY <2>3 DEF Age, IInv, TypeOK
    <3>2. session[q]' = session[q]
            \/ (session[q] # None /\ session[q]'.init = session[q].init /\ session[q]'.ack = session[q].ack)
        BY <2>3, <3>1 DEF Age, IInv, TypeOK, Session
    <3> QED BY <3>2 DEF Opens
  <2>4. CASE ProcessAck(p)
    <3> PICK a \in From(p, "ack") :
            /\ pending[p] = a.answers
            /\ Establish(p, a.id)
            /\ CreateSession(p, "initiator", a.by, a.answers, a.id,
                             p \in Encrypting /\ encKey[p] # None)
        BY <2>4 DEF ProcessAck
    <3>1. encKey[p] = a.answers
        BY AckForInit DEF AsInitiator
    <3>2. q = p
        BY DEF Opens, CreateSession, IInv, TypeOK
    <3>3. session[p]'.init = a.answers /\ session[p]'.ack = a.id /\ p \in Encrypting
        BY <3>2 DEF CreateSession, IInv, TypeOK
    <3> QED BY <3>1, <3>2, <3>3 DEF Establish, IInv, TypeOK
  <2>5. CASE ProcessConfirm(p)
    <3> PICK c \in From(p, "confirm") :
            /\ pending[p] = c.answers
            /\ CreateSession(p, "responder", Peer(p), initOf[p], c.answers, key[p] # NoKey)
            /\ key' = key
        BY <2>5 DEF ProcessConfirm
    <3>1. q = p
        BY DEF Opens, CreateSession, IInv, TypeOK
    <3>2. session[p]'.init = initOf[p] /\ session[p]'.ack = c.answers /\ key[p] # NoKey
        BY <3>1 DEF CreateSession, IInv, TypeOK
    <3> QED BY <3>1, <3>2, ConfirmForAck DEF AsResponder
  <2> QED BY <2>1, <2>2, <2>3, <2>4, <2>5
<1> QED BY <1>1, Invariance, PTL DEF Spec, ConfirmedKey

-----------------------------------------------------------------------------
(* Whom an agent lets in: PeerAccess, for any peers, requests and sessions. *)
CONSTANTS Peers, Commands, Runtime, Sender, Receiver, Policies, MaxTasks, Durations,
          RequestLimit, MaxTime, MaxAdmitted

VARIABLES half, policy, friends, doing, answers, sessions, cache, editing

Access == INSTANCE PeerAccess

(* The part of the types the proof about requests needs. *)
Job == [id : Access!RequestIds \cup {Never}, file : [Access!RequestIds -> Access!Statuses],
        todo : Seq(Access!Statuses)]

FilesTyped ==
    /\ requests \in [Access!RequestIds -> Access!Statuses]
    /\ truth \in [Access!RequestIds -> Access!Statuses]
    /\ doing \in [Access!Writers -> Job]
    /\ \A a \in Access!Writers : doing[a].id = Never => doing[a].todo = <<>>

(* What a process has read is out of date in requests that were touched    *)
(* only, and perhaps in its own, which it will write anyway.               *)
CopiesKnown ==
    \A a \in Access!Writers : doing[a].id # Never =>
        \A i \in Access!RequestIds \ (touched \cup {doing[a].id}) : doing[a].file[i] = truth[i]

RequestsInv == FilesTyped /\ CopiesKnown /\ Access!RequestsKept

LEMMA IdleTyped == Access!Idle \in Job /\ Access!Idle.id = Never /\ Access!Idle.todo = <<>>
BY DEF Access!Idle, Job, Access!NoFile, Access!Statuses

LEMMA RequestsInit == Access!Init => RequestsInv
<1> SUFFICES ASSUME Access!Init PROVE RequestsInv
  OBVIOUS
<1>1. requests = truth /\ requests \in [Access!RequestIds -> Access!Statuses]
  BY DEF Access!Init, Access!NoFile, Access!Statuses
<1>2. doing = [a \in Access!Writers |-> Access!Idle]
  BY DEF Access!Init
<1>3. QED
  BY <1>1, <1>2, IdleTyped DEF RequestsInv, FilesTyped, CopiesKnown, Access!RequestsKept

(* A process reads the file, or an empty one, and nothing else moves.      *)
LEMMA FileLoaded ==
    ASSUME Access!ConstantsFit, RequestsInv, NEW a \in Access!Writers, NEW i \in Access!RequestIds,
           NEW file \in Access!loadFriendRequests(a), NEW todo \in Seq(Access!Statuses),
           Access!Load(a, file, i, todo)
    PROVE  RequestsInv'
<1>1. /\ doing' = [doing EXCEPT ![a] = [id |-> i, file |-> file, todo |-> todo]]
      /\ touched' = touched \cup {j \in Access!RequestIds : file[j] # requests[j]}
      /\ UNCHANGED <<requests, truth>>
  BY DEF Access!Load
<1>2. file \in [Access!RequestIds -> Access!Statuses]
  BY DEF Access!loadFriendRequests, RequestsInv, FilesTyped, Access!NoFile, Access!Statuses
<1>3. i # Never
  BY DEF Access!ConstantsFit, Access!RequestIds
<1>4. FilesTyped'
  BY <1>1, <1>2, <1>3 DEF RequestsInv, FilesTyped, Job
<1>5. CopiesKnown'
  <2> SUFFICES ASSUME NEW b \in Access!Writers, doing'[b].id # Never,
                      NEW k \in Access!RequestIds \ (touched' \cup {doing'[b].id})
               PROVE  doing'[b].file[k] = truth'[k]
    BY DEF CopiesKnown
  <2>1. CASE b = a
    <3>1. doing'[b].file = file
      BY <1>1, <2>1 DEF RequestsInv, FilesTyped
    <3>2. file[k] = requests[k] /\ k \notin touched
      BY <1>1
    <3>3. requests[k] = truth[k]
      BY <3>2 DEF RequestsInv, Access!RequestsKept
    <3>4. QED
      BY <1>1, <3>1, <3>2, <3>3
  <2>2. CASE b # a
    <3>1. doing'[b] = doing[b] /\ k \notin touched
      BY <1>1, <2>2 DEF RequestsInv, FilesTyped
    <3>2. QED
      BY <1>1, <3>1 DEF RequestsInv, CopiesKnown
  <2>3. QED
    BY <2>1, <2>2
<1>6. Access!RequestsKept'
  BY <1>1 DEF RequestsInv, Access!RequestsKept
<1>7. QED
  BY <1>4, <1>5, <1>6 DEF RequestsInv

(* A process writes what it has read with a new status of its request.     *)
LEMMA FileSaved ==
    ASSUME RequestsInv, NEW a \in Access!Writers, doing[a].id # Never,
           NEW status \in Access!Statuses, NEW rest \in Seq(Access!Statuses),
           Access!saveFriendRequests(a, status, rest)
    PROVE  RequestsInv'
<1> DEFINE i == doing[a].id
           file == [doing[a].file EXCEPT ![i] = status]
<1>0. i \in Access!RequestIds /\ doing[a].file \in [Access!RequestIds -> Access!Statuses]
  BY DEF RequestsInv, FilesTyped, Job
<1>1. /\ requests' = file
      /\ truth' = [truth EXCEPT ![i] = status]
      /\ touched' = IF Access!OthersBusy(a) THEN touched \cup {i} ELSE touched \ {i}
      /\ doing' = [doing EXCEPT ![a] =
             IF rest = <<>> THEN Access!Idle ELSE [id |-> i, file |-> file, todo |-> rest]]
  BY DEF Access!saveFriendRequests
<1>2. /\ file \in [Access!RequestIds -> Access!Statuses]
      /\ file[i] = status /\ \A k \in Access!RequestIds \ {i} : file[k] = doing[a].file[k]
  BY <1>0
<1>3. truth'[i] = status /\ \A k \in Access!RequestIds \ {i} : truth'[k] = truth[k]
  BY <1>0, <1>1 DEF RequestsInv, FilesTyped
<1>4. \A k \in Access!RequestIds \ (touched \cup {i}) : doing[a].file[k] = truth[k]
  BY DEF RequestsInv, CopiesKnown
<1>5. \A k \in Access!RequestIds \ touched' : file[k] = truth'[k]
  <2> SUFFICES ASSUME NEW k \in Access!RequestIds \ touched', k # i PROVE file[k] = truth'[k]
    BY <1>2, <1>3
  <2>1. k \notin touched
    BY <1>1
  <2>2. QED
    BY <1>2, <1>3, <1>4, <2>1
<1> HIDE DEF file
<1>6. FilesTyped'
  <2>1. IF rest = <<>> THEN Access!Idle \in Job ELSE [id |-> i, file |-> file, todo |-> rest] \in Job
    BY <1>0, <1>2, IdleTyped DEF Job
  <2>2. doing' \in [Access!Writers -> Job]
    BY <1>1, <2>1 DEF RequestsInv, FilesTyped
  <2>3. \A b \in Access!Writers : doing'[b].id = Never => doing'[b].todo = <<>>
    BY <1>1, IdleTyped DEF RequestsInv, FilesTyped
  <2>4. QED
    BY <1>0, <1>1, <1>2, <2>2, <2>3 DEF RequestsInv, FilesTyped
<1>7. CopiesKnown'
  <2> SUFFICES ASSUME NEW b \in Access!Writers, doing'[b].id # Never,
                      NEW k \in Access!RequestIds \ (touched' \cup {doing'[b].id})
               PROVE  doing'[b].file[k] = truth'[k]
    BY DEF CopiesKnown
  <2>1. CASE b = a
    <3>1. doing'[b].file = file
      BY <1>1, <2>1, IdleTyped DEF RequestsInv, FilesTyped
    <3>2. QED
      BY <1>5, <3>1
  <2>2. CASE b # a
    <3>1. doing'[b] = doing[b]
      BY <1>1, <2>2 DEF RequestsInv, FilesTyped
    <3>2. Access!OthersBusy(a)
      BY <2>2, <3>1 DEF Access!OthersBusy
    <3>3. k \notin touched /\ k # i
      BY <1>1, <3>2
    <3>4. QED
      BY <1>3, <3>1, <3>3 DEF RequestsInv, CopiesKnown
  <2>3. QED
    BY <2>1, <2>2
<1>8. Access!RequestsKept'
  BY <1>1, <1>5 DEF Access!RequestsKept
<1>9. QED
  BY <1>6, <1>7, <1>8 DEF RequestsInv

LEMMA WriterDied ==
    ASSUME RequestsInv, NEW a \in Access!Writers, Access!Dies(a)
    PROVE  RequestsInv'
<1>1. /\ doing' = [doing EXCEPT ![a] = Access!Idle]
      /\ requests' \in {requests, Access!NoFile}
      /\ touched' = touched \cup {i \in Access!RequestIds : requests'[i] # requests[i]}
      /\ UNCHANGED truth
  BY DEF Access!Dies
<1>2. FilesTyped'
  BY <1>1, IdleTyped DEF RequestsInv, FilesTyped, Access!NoFile, Access!Statuses
<1>3. CopiesKnown'
  <2> SUFFICES ASSUME NEW b \in Access!Writers, doing'[b].id # Never,
                      NEW k \in Access!RequestIds \ (touched' \cup {doing'[b].id})
               PROVE  doing'[b].file[k] = truth'[k]
    BY DEF CopiesKnown
  <2>1. doing'[b] = doing[b] /\ k \notin touched
    BY <1>1, IdleTyped DEF RequestsInv, FilesTyped
  <2>2. QED
    BY <1>1, <2>1 DEF RequestsInv, CopiesKnown
<1>4. Access!RequestsKept'
  BY <1>1 DEF RequestsInv, Access!RequestsKept
<1>5. QED
  BY <1>2, <1>3, <1>4 DEF RequestsInv

LEMMA RequestsUnchanged ==
    ASSUME RequestsInv, UNCHANGED <<requests, truth, touched, doing>>
    PROVE  RequestsInv'
BY DEF RequestsInv, FilesTyped, CopiesKnown, Access!RequestsKept

LEMMA RequestsStep ==
    Access!ConstantsFit /\ RequestsInv /\ [Access!Next]_(Access!vars) => RequestsInv'
<1> SUFFICES ASSUME Access!ConstantsFit, RequestsInv, [Access!Next]_(Access!vars) PROVE RequestsInv'
  OBVIOUS
<1> USE DEF Access!mailbox
<1>0. /\ Incoming \subseteq Access!RequestIds /\ Outgoing \subseteq Access!RequestIds
      /\ Commands \subseteq Access!Writers /\ Runtime \in Access!Writers
  BY DEF Access!RequestIds, Access!Writers
<1>1. /\ \A x \in {<<>>, <<"pending">>, <<"accepted">>, <<"rejected">>, <<"pending", "accepted">>} :
            x \in Seq(Access!Statuses)
      /\ "pending" \in Access!Statuses /\ "send_failed" \in Access!Statuses
  BY DEF Access!Statuses
<1>2. ASSUME NEW a \in Access!Writers, NEW i \in Access!RequestIds,
             \E file \in Access!loadFriendRequests(a),
                todo \in {<<>>, <<"pending">>, <<"accepted">>, <<"rejected">>, <<"pending", "accepted">>} :
                    Access!Load(a, file, i, todo)
      PROVE  RequestsInv'
  BY <1>1, <1>2, FileLoaded
<1>3. ASSUME NEW i \in Incoming, Access!FriendRequestArrives(i) PROVE RequestsInv'
  BY <1>0, <1>2, <1>3 DEF Access!FriendRequestArrives
<1>4. ASSUME NEW c \in Commands, NEW i \in Incoming, Access!FriendAccept(c, i) \/ Access!FriendReject(c, i)
      PROVE  RequestsInv'
  BY <1>0, <1>2, <1>4 DEF Access!FriendAccept, Access!FriendReject
<1>5. ASSUME NEW c \in Commands, NEW i \in Outgoing, Access!FriendRequestBegins(c, i)
      PROVE  RequestsInv'
  BY <1>0, <1>2, <1>5 DEF Access!FriendRequestBegins
<1>6. ASSUME NEW i \in Outgoing, Access!FriendAcceptArrives(i) \/ Access!FriendRejectArrives(i)
      PROVE  RequestsInv'
  BY <1>0, <1>2, <1>6 DEF Access!FriendAcceptArrives, Access!FriendRejectArrives
<1>7. ASSUME NEW c \in Commands, NEW answer, Access!FriendRequestReaches(c, answer)
      PROVE  RequestsInv'
  BY <1>7, RequestsUnchanged DEF Access!FriendRequestReaches
<1>8. ASSUME NEW c \in Commands, NEW sent \in BOOLEAN, Access!FriendRequestEnds(c, sent)
      PROVE  RequestsInv'
  <2>1. doing[c].id # Never
    BY <1>8 DEF Access!FriendRequestEnds, Access!Asking
  <2>2. PICK status \in Access!Statuses : Access!saveFriendRequests(c, status, <<>>)
    BY <1>1, <1>8 DEF Access!FriendRequestEnds
  <2>3. QED
    BY <1>0, <1>1, <2>1, <2>2, FileSaved
<1>9. ASSUME NEW a \in Access!Writers, Access!StatusSaved(a) PROVE RequestsInv'
  <2>1. /\ doing[a].todo # <<>>
        /\ Access!saveFriendRequests(a, Head(doing[a].todo), Tail(doing[a].todo))
    BY <1>9 DEF Access!StatusSaved
  <2>2. doing[a].todo \in Seq(Access!Statuses) /\ doing[a].id # Never
    BY <2>1 DEF RequestsInv, FilesTyped, Job
  <2>3. Head(doing[a].todo) \in Access!Statuses /\ Tail(doing[a].todo) \in Seq(Access!Statuses)
    BY <2>1, <2>2
  <2>4. QED
    BY <2>1, <2>2, <2>3, FileSaved
<1>10. CASE Access!RequestSteps
  BY <1>3, <1>4, <1>5, <1>6, <1>7, <1>8, <1>9, <1>10, WriterDied
     DEF Access!RequestSteps, Access!FriendAcceptRelayed, Access!FriendRejectRelayed
<1>11. CASE Access!SessionSteps
  <2>1. UNCHANGED <<requests, truth, touched, doing>>
    BY <1>11 DEF Access!SessionSteps, Access!TempAllow, Access!TempRevoke, Access!TempClean,
       Access!saveTempSessions, Access!CutOff, Access!RuntimeRestarts, Access!TaskOfGuest,
       Access!TaskExpires, Access!NothingCounted
  <2>2. QED
    BY <2>1, RequestsUnchanged
<1>12. CASE Access!Tick \/ Access!PolicyEdited \/ Access!FriendSteps \/ UNCHANGED Access!vars
  <2>1. UNCHANGED <<requests, truth, touched, doing>>
    BY <1>12 DEF Access!Tick, Access!PolicyEdited, Access!FriendSteps, Access!FriendAdd,
       Access!FriendRemove, Access!vars
  <2>2. QED
    BY <2>1, RequestsUnchanged
<1>13. QED
  BY <1>10, <1>11, <1>12 DEF Access!Next

(* For any peers, requests and commands, the file of friend requests says  *)
(* of each what it was last given, unless another process was then between *)
(* its read and its write of the file, or it was read or left half written.*)
THEOREM RequestsAreKept == Access!ConstantsFit => (Access!Spec => []RequestsKept)
<1> SUFFICES ASSUME Access!ConstantsFit PROVE Access!Spec => []RequestsKept
  OBVIOUS
<1>1. RequestsInv => RequestsKept
  BY DEF RequestsInv, RequestsKept, Access!RequestsKept, RequestIds, Access!RequestIds
<1>2. RequestsInv /\ [Access!Next]_(Access!vars) => RequestsInv'
  BY RequestsStep
<1>3. QED
  BY <1>1, <1>2, RequestsInit, PTL DEF Access!Spec

-----------------------------------------------------------------------------
(* The part of the types the proof about sessions needs. *)
GuestsTyped ==
    /\ now \in Nat
    /\ sessions \subseteq Access!Session
    /\ cache \in [at : Nat \cup {Never}, data : SUBSET Access!Session]
    /\ editing \in [Access!Writers -> [on : BOOLEAN, data : SUBSET Access!Session]]
    /\ admitted \in [SessionIds -> Nat]
    /\ removed \in [SessionIds -> Nat \cup {Never}]

(* An id that left the file while no other process held it is in no        *)
(* process's hands, and does not come back; what the cache still holds     *)
(* left the file after the cache was filled.                               *)
Live(i) == removed[i] = Never \/ i \in held

RemovedLater ==
    /\ \A s \in sessions : Live(s.id)
    /\ \A a \in Access!Writers : \A s \in editing[a].data : Live(s.id)
    /\ cache.at # Never =>
           /\ cache.at <= now
           /\ \A s \in cache.data : Live(s.id) \/ cache.at <= removed[s.id]

GuestsInv == GuestsTyped /\ RemovedLater

LEMMA GuestsInit == Access!Init => GuestsInv
BY DEF Access!Init, GuestsInv, GuestsTyped, RemovedLater, Live, Access!NoCache, Access!NoEdit

LEMMA LoadedWere ==
    ASSUME GuestsInv, NEW a, NEW data \in Access!loadTempSessions(a)
    PROVE  data \subseteq Access!Session /\ \A s \in data : Live(s.id)
BY DEF Access!loadTempSessions, GuestsInv, GuestsTyped, RemovedLater

(* What the runtime takes for the sessions was one when the cache was      *)
(* filled, less than the TTL ago.                                          *)
LEMMA CachedWere ==
    ASSUME Access!ConstantsFit, GuestsInv, NEW c \in Access!getCachedTempSessions
    PROVE  /\ c \in [at : Nat, data : SUBSET Access!Session]
           /\ c.at <= now
           /\ \A s \in c.data : Live(s.id) \/ (c.at <= removed[s.id] /\ now - removed[s.id] < TTL)
<1>1. CASE Access!Fresh
  <2>1. c = cache /\ cache.at # Never /\ now - cache.at < TTL
    BY <1>1 DEF Access!Fresh, Access!getCachedTempSessions
  <2>2. cache.at \in Nat /\ cache.at <= now /\ now \in Nat /\ TTL \in Nat
    BY <2>1 DEF GuestsInv, GuestsTyped, RemovedLater, Access!ConstantsFit
  <2>3. cache \in [at : Nat, data : SUBSET Access!Session]
    BY <2>2 DEF GuestsInv, GuestsTyped
  <2>4. ASSUME NEW s \in cache.data, ~Live(s.id)
        PROVE  cache.at <= removed[s.id] /\ now - removed[s.id] < TTL
    <3>1. cache.at <= removed[s.id]
      BY <2>1, <2>4 DEF GuestsInv, RemovedLater
    <3>2. removed[s.id] \in Nat
      <4>1. s.id \in SessionIds
        BY <2>3, <2>4 DEF Access!Session
      <4>2. QED
        BY <2>4, <4>1 DEF GuestsInv, GuestsTyped, Live
    <3>3. QED
      BY <2>1, <2>2, <3>1, <3>2
  <2>5. QED
    BY <2>1, <2>2, <2>3, <2>4
<1>2. CASE ~Access!Fresh
  <2>1. PICK d \in Access!loadTempSessions(Runtime) : c = [at |-> now, data |-> d]
    BY <1>2 DEF Access!getCachedTempSessions
  <2>2. now \in Nat /\ d \subseteq Access!Session /\ \A s \in d : Live(s.id)
    BY LoadedWere DEF GuestsInv, GuestsTyped
  <2>3. QED
    BY <2>1, <2>2
<1>3. QED
  BY <1>1, <1>2

(* A step that does not write the file: a process may read it, and hold    *)
(* what it will write; the cache may be filled or dropped.                 *)
LEMMA FileUnwritten ==
    ASSUME Access!ConstantsFit, GuestsInv, UNCHANGED <<now, sessions, removed, held>>,
           cache' \in {cache, Access!NoCache} \cup Access!getCachedTempSessions,
           admitted' \in [SessionIds -> Nat],
           editing' \in [Access!Writers -> [on : BOOLEAN, data : SUBSET Access!Session]],
           \A b \in Access!Writers : \A s \in editing'[b].data : Live(s.id)
    PROVE  GuestsInv'
<1>1. \A i : Live(i)' <=> Live(i)
  BY DEF Live
<1>2. CASE cache' \in {cache, Access!NoCache}
  BY <1>1, <1>2 DEF GuestsInv, GuestsTyped, RemovedLater, Access!NoCache
<1>3. CASE cache' \in Access!getCachedTempSessions
  <2>1. GuestsTyped'
    BY <1>3, CachedWere DEF GuestsInv, GuestsTyped
  <2>2. RemovedLater'
    BY <1>1, <1>3, CachedWere DEF GuestsInv, RemovedLater
  <2>3. QED
    BY <2>1, <2>2 DEF GuestsInv
<1>4. QED
  BY <1>2, <1>3

(* What a process has read or removed or counted it may hold. *)
LEMMA Edited ==
    ASSUME Access!ConstantsFit, GuestsInv, NEW a \in Access!Writers, NEW data \in SUBSET Access!Session,
           \A s \in data : Live(s.id), Access!Edit(a, data) \/ UNCHANGED editing,
           UNCHANGED <<now, sessions, removed, held>>,
           cache' \in {cache} \cup Access!getCachedTempSessions, admitted' \in [SessionIds -> Nat]
    PROVE  GuestsInv'
<1>1. /\ editing' \in [Access!Writers -> [on : BOOLEAN, data : SUBSET Access!Session]]
      /\ \A b \in Access!Writers : editing'[b].data = data \/ editing'[b].data = editing[b].data
  <2>1. CASE UNCHANGED editing
    BY <2>1 DEF GuestsInv, GuestsTyped
  <2>2. CASE Access!Edit(a, data)
    <3>1. editing' = [editing EXCEPT ![a] = [on |-> TRUE, data |-> data]]
      BY <2>2 DEF Access!Edit
    <3>2. [on |-> TRUE, data |-> data] \in [on : BOOLEAN, data : SUBSET Access!Session]
      OBVIOUS
    <3>3. QED
      BY <3>1, <3>2 DEF GuestsInv, GuestsTyped
  <2>3. QED
    BY <2>1, <2>2
<1>2. \A b \in Access!Writers : \A s \in editing'[b].data : Live(s.id)
  BY <1>1 DEF GuestsInv, RemovedLater
<1>3. QED
  BY <1>1, <1>2, FileUnwritten

(* The file is written by a process with what it held, or left empty.      *)
LEMMA SessionsWritten ==
    ASSUME Access!ConstantsFit, GuestsInv, NEW a \in Access!Writers,
           NEW data \in {editing[a].data, {}}, Access!WriteSessions(a, data),
           cache' \in {cache, Access!NoCache}, UNCHANGED <<now, admitted>>
    PROVE  GuestsInv'
<1> DEFINE gone == {i \in SessionIds : Access!In(i, sessions) /\ ~Access!In(i, data)}
           copied == {i \in gone : \E b \in Access!Writers \ {a} : Access!In(i, editing[b].data)}
<1>1. /\ sessions' = data
      /\ editing' = [editing EXCEPT ![a] = Access!NoEdit]
      /\ removed' = [i \in SessionIds |-> IF i \in gone THEN now ELSE removed[i]]
      /\ held' = (held \ gone) \cup copied
  BY DEF Access!WriteSessions
<1>2. /\ data \in SUBSET Access!Session
      /\ editing' \in [Access!Writers -> [on : BOOLEAN, data : SUBSET Access!Session]]
      /\ editing'[a].data = {} /\ \A b \in Access!Writers \ {a} : editing'[b] = editing[b]
  BY <1>1 DEF GuestsInv, GuestsTyped, Access!NoEdit
<1>3. GuestsTyped'
  BY <1>1, <1>2 DEF GuestsInv, GuestsTyped, Access!NoCache
<1>4. ASSUME NEW i \in SessionIds \ gone PROVE Live(i) => Live(i)'
  BY <1>1 DEF Live
<1>5. \A s \in data : Live(s.id)'
  <2> SUFFICES ASSUME NEW s \in data PROVE Live(s.id)'
    OBVIOUS
  <2>1. s.id \in SessionIds \ gone
    BY <1>2 DEF Access!Session, Access!In
  <2>2. Live(s.id)
    BY DEF GuestsInv, RemovedLater
  <2>3. QED
    BY <1>4, <2>1, <2>2
<1>6. \A b \in Access!Writers : \A s \in editing'[b].data : Live(s.id)'
  <2> SUFFICES ASSUME NEW b \in Access!Writers \ {a}, NEW s \in editing[b].data PROVE Live(s.id)'
    BY <1>2
  <2>1. s.id \in SessionIds /\ Access!In(s.id, editing[b].data)
    BY DEF GuestsInv, GuestsTyped, Access!Session, Access!In
  <2>2. CASE s.id \in gone
    BY <1>1, <2>1, <2>2 DEF Live
  <2>3. CASE s.id \notin gone
    BY <1>4, <2>1, <2>3 DEF GuestsInv, RemovedLater
  <2>4. QED
    BY <2>2, <2>3
<1>7. CASE cache' = Access!NoCache
  BY <1>1, <1>3, <1>5, <1>6, <1>7 DEF GuestsInv, RemovedLater, Access!NoCache
<1>8. CASE cache' = cache
  <2>1. ASSUME cache.at # Never, NEW s \in cache.data
        PROVE  Live(s.id)' \/ cache.at <= removed'[s.id]
    <3>1. s.id \in SessionIds /\ cache.at <= now
      BY <2>1 DEF GuestsInv, GuestsTyped, RemovedLater, Access!Session
    <3>2. CASE s.id \in gone
      BY <1>1, <3>1, <3>2
    <3>3. CASE s.id \notin gone
      <4>1. Live(s.id) \/ cache.at <= removed[s.id]
        BY <2>1 DEF GuestsInv, RemovedLater
      <4>2. removed'[s.id] = removed[s.id]
        BY <1>1, <3>1, <3>3
      <4>3. QED
        BY <1>4, <3>1, <3>3, <4>1, <4>2
    <3>4. QED
      BY <3>2, <3>3
  <2>2. cache.at # Never => cache.at <= now
    BY DEF GuestsInv, RemovedLater
  <2> HIDE DEF gone, copied
  <2>3. QED
    BY <1>1, <1>3, <1>5, <1>6, <1>8, <2>1, <2>2 DEF GuestsInv, RemovedLater
<1>9. QED
  BY <1>7, <1>8

LEMMA GuestsStep == Access!ConstantsFit /\ GuestsInv /\ [Access!Next]_(Access!vars) => GuestsInv'
<1> SUFFICES ASSUME Access!ConstantsFit, GuestsInv, [Access!Next]_(Access!vars) PROVE GuestsInv'
  OBVIOUS
<1> USE DEF Access!guests
<1>0. /\ admitted \in [SessionIds -> Nat] /\ now \in Nat /\ sessions \subseteq Access!Session
      /\ Commands \subseteq Access!Writers /\ Runtime \in Access!Writers
  BY DEF GuestsInv, GuestsTyped, Access!Writers
<1>1. CASE Access!Tick
  <2>1. now' = now + 1 /\ UNCHANGED <<sessions, cache, editing, admitted, removed, held>>
    BY <1>1 DEF Access!Tick
  <2>2. GuestsTyped'
    BY <2>1 DEF GuestsInv, GuestsTyped
  <2>3. RemovedLater'
    BY <2>1 DEF GuestsInv, GuestsTyped, RemovedLater, Live
  <2>4. QED
    BY <2>2, <2>3 DEF GuestsInv
<1>2. ASSUME NEW c \in Commands, NEW p \in Peers, NEW id \in SessionIds, NEW m \in MaxTasks,
             NEW d \in Durations, Access!TempAllow(c, p, id, m, d)
      PROVE  GuestsInv'
  <2> DEFINE s == [id |-> id, did |-> p, expires |-> now + d, max |-> m, count |-> 0]
  <2>1. s \in Access!Session
    BY <1>0 DEF Access!Session, Access!ConstantsFit
  <2>2. PICK data \in Access!loadTempSessions(c) : Access!Edit(c, data \cup {s})
    BY <1>2 DEF Access!TempAllow, Access!addTempSession
  <2>3. removed[id] = Never /\ UNCHANGED <<now, sessions, cache, admitted, removed, held>>
    BY <1>2 DEF Access!TempAllow
  <2>4. data \cup {s} \in SUBSET Access!Session /\ \A x \in data \cup {s} : Live(x.id)
    BY <2>1, <2>3, LoadedWere DEF Live
  <2> HIDE DEF s
  <2>5. QED
    BY <1>0, <2>2, <2>3, <2>4, Edited
<1>3. ASSUME NEW a \in Access!Writers, NEW data \in Access!loadTempSessions(a),
             NEW rest \in SUBSET data, Access!Edit(a, rest) \/ UNCHANGED editing,
             cache' \in {cache} \cup Access!getCachedTempSessions,
             UNCHANGED <<now, sessions, admitted, removed, held>>
      PROVE  GuestsInv'
  <2>1. rest \in SUBSET Access!Session /\ \A s \in rest : Live(s.id)
    BY <1>3, LoadedWere
  <2>2. QED
    BY <1>0, <1>3, <2>1, Edited
<1>4. ASSUME NEW c \in Commands, NEW id \in SessionIds, Access!TempRevoke(c, id) PROVE GuestsInv'
  <2>1. PICK data \in Access!loadTempSessions(c) : Access!Edit(c, {s \in data : s.id # id})
    BY <1>4 DEF Access!TempRevoke, Access!removeTempSession
  <2>2. {s \in data : s.id # id} \in SUBSET data
    OBVIOUS
  <2>3. UNCHANGED <<now, sessions, cache, admitted, removed, held>>
    BY <1>4 DEF Access!TempRevoke
  <2>4. QED
    BY <1>0, <1>3, <2>1, <2>2, <2>3
<1>5. ASSUME NEW c \in Commands, Access!TempClean(c) PROVE GuestsInv'
  <2>1. PICK data \in Access!loadTempSessions(c) : Access!Edit(c, data \ Access!Expired(data))
    BY <1>5 DEF Access!TempClean, Access!cleanExpiredTempSessions
  <2>2. UNCHANGED <<now, sessions, cache, admitted, removed, held>>
    BY <1>5 DEF Access!TempClean
  <2>3. QED
    BY <1>0, <1>3, <2>1, <2>2
<1>6. ASSUME NEW p \in Peers, Access!TaskOfGuest(p) PROVE GuestsInv'
  <2>1. PICK c \in Access!getCachedTempSessions : \E s \in Access!Active(c.data, p) :
            /\ cache' = c
            /\ \/ UNCHANGED <<editing, admitted>>
               \/ /\ Access!incrementTempSessionTaskCount(s.id)
                  /\ admitted' = [admitted EXCEPT ![s.id] = @ + 1]
    BY <1>6 DEF Access!TaskOfGuest
  <2>2. UNCHANGED <<now, sessions, removed, held>>
    BY <1>6 DEF Access!TaskOfGuest
  <2>3. PICK s \in c.data :
            \/ UNCHANGED <<editing, admitted>>
            \/ /\ Access!incrementTempSessionTaskCount(s.id)
               /\ admitted' = [admitted EXCEPT ![s.id] = @ + 1]
    BY <2>1 DEF Access!Active
  <2>4. s.id \in SessionIds
    BY CachedWere DEF Access!Session
  <2>5. admitted' \in [SessionIds -> Nat]
    BY <1>0, <2>3, <2>4
  <2>6. CASE UNCHANGED editing
    <3>1. {} \in SUBSET Access!Session /\ \A x \in {} : Live(x.id)
      OBVIOUS
    <3>2. QED
      BY <1>0, <2>1, <2>2, <2>5, <2>6, <3>1, Edited
  <2>7. CASE Access!incrementTempSessionTaskCount(s.id) /\ editing' # editing
    <3>1. PICK data \in Access!loadTempSessions(Runtime) :
              Access!Edit(Runtime, {IF x.id = s.id THEN [x EXCEPT !.count = @ + 1] ELSE x : x \in data})
      BY <2>7 DEF Access!incrementTempSessionTaskCount
    <3> DEFINE counted == {IF x.id = s.id THEN [x EXCEPT !.count = @ + 1] ELSE x : x \in data}
    <3>2. ASSUME NEW x \in data
          PROVE  /\ x \in Access!Session /\ [x EXCEPT !.count = @ + 1] \in Access!Session
                 /\ [x EXCEPT !.count = @ + 1].id = x.id /\ Live(x.id)
      BY <3>2, LoadedWere DEF Access!Session
    <3>3. counted \in SUBSET Access!Session /\ \A y \in counted : Live(y.id)
      BY <3>2
    <3> HIDE DEF counted
    <3>4. QED
      BY <1>0, <2>1, <2>2, <2>5, <3>1, <3>3, Edited DEF counted
  <2>8. QED
    BY <2>3, <2>6, <2>7
<1>7. ASSUME NEW p \in Peers, Access!TaskExpires(p) PROVE GuestsInv'
  <2>1. PICK c \in Access!getCachedTempSessions, data \in Access!loadTempSessions(Runtime) :
            \E s \in Access!Active(c.data, p) :
                /\ cache' = c
                /\ Access!removeTempSession(Runtime, data, s.id) \/ UNCHANGED editing
    BY <1>7 DEF Access!TaskExpires
  <2>2. PICK s : Access!Edit(Runtime, {x \in data : x.id # s.id}) \/ UNCHANGED editing
    BY <2>1 DEF Access!removeTempSession
  <2>3. {x \in data : x.id # s.id} \in SUBSET data
    OBVIOUS
  <2>4. UNCHANGED <<now, sessions, admitted, removed, held>>
    BY <1>7 DEF Access!TaskExpires
  <2>5. QED
    BY <1>0, <1>3, <2>1, <2>2, <2>3, <2>4
<1>8. ASSUME NEW p \in Peers, Access!NothingCounted(p) PROVE GuestsInv'
  <2>1. /\ cache' \in Access!getCachedTempSessions
        /\ UNCHANGED <<now, sessions, editing, admitted, removed, held>>
    BY <1>8 DEF Access!NothingCounted
  <2>2. QED
    BY <1>0, <2>1, FileUnwritten DEF GuestsInv, GuestsTyped, RemovedLater
<1>9. CASE Access!RuntimeRestarts
  <2>1. cache' = Access!NoCache /\ UNCHANGED <<now, sessions, editing, admitted, removed, held>>
    BY <1>9 DEF Access!RuntimeRestarts
  <2>2. QED
    BY <1>0, <2>1, FileUnwritten DEF GuestsInv, GuestsTyped, RemovedLater
<1>10. ASSUME NEW a \in Access!Writers, Access!saveTempSessions(a) PROVE GuestsInv'
  BY <1>10, SessionsWritten DEF Access!saveTempSessions
<1>11. ASSUME NEW a \in Access!Writers, Access!CutOff(a) PROVE GuestsInv'
  <2>1. cache' \in {cache, Access!NoCache} /\ UNCHANGED <<now, admitted>>
    BY <1>11 DEF Access!CutOff
  <2>2. CASE Access!WriteSessions(a, {})
    BY <2>1, <2>2, SessionsWritten
  <2>3. CASE editing' = [editing EXCEPT ![a] = Access!NoEdit] /\ UNCHANGED <<sessions, removed, held>>
    <3>1. /\ editing' \in [Access!Writers -> [on : BOOLEAN, data : SUBSET Access!Session]]
          /\ \A b \in Access!Writers : editing'[b].data = {} \/ editing'[b] = editing[b]
      BY <2>3 DEF GuestsInv, GuestsTyped, Access!NoEdit
    <3>2. \A b \in Access!Writers : \A s \in editing'[b].data : Live(s.id)
      BY <3>1 DEF GuestsInv, RemovedLater
    <3>3. QED
      BY <1>0, <2>1, <2>3, <3>1, <3>2, FileUnwritten
  <2>4. QED
    BY <1>11, <2>2, <2>3 DEF Access!CutOff
<1>12. CASE Access!SessionSteps
  BY <1>2, <1>4, <1>5, <1>6, <1>7, <1>8, <1>9, <1>10, <1>11, <1>12 DEF Access!SessionSteps
<1>13. CASE Access!RequestSteps \/ Access!PolicyEdited \/ Access!FriendSteps \/ UNCHANGED Access!vars
  <2>1. UNCHANGED <<now, sessions, cache, editing, admitted, removed, held>>
    BY <1>13 DEF Access!RequestSteps, Access!FriendRequestArrives, Access!FriendAccept,
       Access!FriendReject, Access!FriendRequestBegins, Access!FriendRequestReaches,
       Access!FriendRequestEnds, Access!FriendAcceptArrives, Access!FriendAcceptRelayed,
       Access!FriendRejectArrives, Access!FriendRejectRelayed, Access!StatusSaved, Access!Dies,
       Access!Load, Access!PolicyEdited, Access!FriendSteps, Access!FriendAdd,
       Access!FriendRemove, Access!vars
  <2>2. QED
    BY <1>0, <2>1, FileUnwritten DEF GuestsInv, GuestsTyped, RemovedLater
<1>14. QED
  BY <1>1, <1>12, <1>13 DEF Access!Next

(* Only the task of a guest is put on the account of a session, of one the *)
(* runtime takes for open.                                                 *)
LEMMA AdmittedByCache ==
    ASSUME Access!ConstantsFit, GuestsInv, [Access!Next]_(Access!vars),
           NEW i \in SessionIds, admitted'[i] # admitted[i]
    PROVE  removed[i] = Never \/ now - removed[i] < TTL \/ i \in held
<1> USE DEF Access!guests
<1>1. CASE \E p \in Peers : Access!TaskOfGuest(p)
  <2>1. PICK c \in Access!getCachedTempSessions : \E s \in c.data :
            UNCHANGED admitted \/ admitted' = [admitted EXCEPT ![s.id] = @ + 1]
    BY <1>1 DEF Access!TaskOfGuest, Access!Active
  <2>2. \E s \in c.data : i = s.id
    BY <2>1 DEF GuestsInv, GuestsTyped
  <2>3. QED
    BY <2>2, CachedWere DEF Live
<1>2. CASE ~\E p \in Peers : Access!TaskOfGuest(p)
  <2>1. CASE Access!SessionSteps
    <3>1. UNCHANGED admitted
      BY <1>2, <2>1 DEF Access!SessionSteps, Access!TempAllow, Access!TempRevoke, Access!TempClean,
         Access!saveTempSessions, Access!CutOff, Access!RuntimeRestarts, Access!TaskExpires,
         Access!NothingCounted
    <3>2. QED
      BY <3>1
  <2>2. CASE Access!RequestSteps
    <3>1. UNCHANGED admitted
      BY <2>2 DEF Access!RequestSteps, Access!FriendRequestArrives, Access!FriendAccept,
         Access!FriendReject, Access!FriendRequestBegins, Access!FriendRequestReaches,
         Access!FriendRequestEnds, Access!FriendAcceptArrives, Access!FriendAcceptRelayed,
         Access!FriendRejectArrives, Access!FriendRejectRelayed, Access!StatusSaved, Access!Dies,
         Access!Load
    <3>2. QED
      BY <3>1
  <2>3. CASE Access!Tick \/ Access!PolicyEdited \/ Access!FriendSteps \/ UNCHANGED Access!vars
    <3>1. UNCHANGED admitted
      BY <2>3 DEF Access!Tick, Access!PolicyEdited, Access!FriendSteps, Access!FriendAdd,
         Access!FriendRemove, Access!vars
    <3>2. QED
      BY <3>1
  <2>4. QED
    BY <2>1, <2>2, <2>3 DEF Access!Next
<1>3. QED
  BY <1>1, <1>2

(* For any sessions, commands, limits and TTL, a session that was revoked  *)
(* or cleaned admits a task only for as long as the cache of the runtime   *)
(* may be old, unless another process still had it to write back.          *)
THEOREM RevokedShut == Access!ConstantsFit => (Access!Spec => RevokedSoonShut)
<1> SUFFICES ASSUME Access!ConstantsFit PROVE Access!Spec => RevokedSoonShut
  OBVIOUS
<1>1. GuestsInv /\ [Access!Next]_(Access!vars) => GuestsInv'
  BY GuestsStep
<1>2. GuestsInv /\ [Access!Next]_(Access!vars) =>
          [\A i \in SessionIds : admitted'[i] # admitted[i] =>
               removed[i] = Never \/ now - removed[i] < TTL \/ i \in held]_admitted
  BY AdmittedByCache
<1>3. QED
  BY <1>1, <1>2, GuestsInit, PTL DEF Access!Spec, RevokedSoonShut
=============================================================================
