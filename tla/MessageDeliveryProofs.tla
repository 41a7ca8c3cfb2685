----------------------- MODULE MessageDeliveryProofs ------------------------
(***************************************************************************)
(* Results about MessageDelivery and RelayDelivery, for every number of    *)
(* messages, senders, restarts and failing saves.  No message reaches a    *)
(* handler of one process twice: with NonceAge >= MaxAge + MaxFuture,      *)
(* which is what the argument needs, the tracker forgets a nonce only when *)
(* its timestamp has expired.  The store of nonces on disk does the same   *)
(* for the tasks taken in all processes' lives; the limiter bounds every   *)
(* burst; the relay forgets only what was settled.  The last parts are     *)
(* about TrustService, to which results are reported, and the graph it     *)
(* searches.                                                               *)
(***************************************************************************)
EXTENDS RelayDelivery, TrustPromises, SequenceTheorems, FiniteSetTheorems,
        WellFoundedInduction, TLAPS

(* What is known of the i-th message a handler was given: it is not from   *)
(* the future by more than the tolerance, and its nonce is in the tracker  *)
(* until it has been there for NonceAge.                                   *)
Kept(i) ==
    LET m == accepted[i].msg  t == accepted[i].at
    IN  /\ t <= now
        /\ stamp[m] # None /\ stamp[m] <= t + MaxFuture
        /\ seen[m] # None => seen[m] >= t
        /\ seen[m] = None => t + NonceAge < now

AllKept == \A i \in 1..Len(accepted) : Kept(i)

IInv == TypeOK /\ AllKept /\ AtMostOnce

USE MessageDeliveryAssumption

-----------------------------------------------------------------------------
(* The tracker after eviction: an entry is what it was or it was too old. *)
LEMMA EvictedType ==
    ASSUME TypeOK
    PROVE  /\ Evicted \in [Messages -> Nat \cup {None}]
           /\ \A m \in Messages :
                  \/ Evicted[m] = seen[m]
                  \/ seen[m] # None /\ seen[m] < now - NonceAge /\ Evicted[m] = None
BY DEF TypeOK, Evicted, Time

(* A window of the limiter is a window again after a request. *)
LEMMA CountedType ==
    ASSUME TypeOK, NEW s \in Senders
    PROVE  Counted(s) \in [count : Nat, resetAt : Nat]
<1>1. CASE NewWindow(s)
  BY <1>1 DEF TypeOK, Counted, Time
<1>2. CASE ~NewWindow(s)
  <2>1. windows[s] \in [count : Nat, resetAt : Nat]
    BY <1>2 DEF TypeOK, NewWindow
  <2>2. QED
    BY <1>2, <2>1 DEF Counted
<1>3. QED
  BY <1>1, <1>2

LEMMA AdmitType ==
    ASSUME TypeOK, NEW m \in Messages, Admit(m)
    PROVE  windows' \in [Senders -> [count : Nat, resetAt : Nat] \cup {None}]
<1>1. From[m] \in Senders
  OBVIOUS
<1>2. Counted(From[m]) \in [count : Nat, resetAt : Nat]
  BY <1>1, CountedType
<1>3. QED
  BY <1>2 DEF Admit, TypeOK

LEMMA AcceptedType ==
    ASSUME TypeOK, NEW i \in 1..Len(accepted)
    PROVE  accepted[i] \in [msg : Messages, at : Nat]
BY ElementOfSeq DEF TypeOK

LEMMA JudgeType ==
    ASSUME TypeOK, NEW m \in Messages, Judge(m)
    PROVE  /\ windows' \in [Senders -> [count : Nat, resetAt : Nat] \cup {None}]
           /\ seen' \in [Messages -> Nat \cup {None}]
<1>1. windows' \in [Senders -> [count : Nat, resetAt : Nat] \cup {None}]
  BY AdmitType DEF Judge
<1>2. seen' \in [Messages -> Nat \cup {None}]
  BY EvictedType DEF Judge, TypeOK, Time
<1>3. QED
  BY <1>1, <1>2

LEMMA LastOfType ==
    ASSUME NEW log \in Seq(Messages)
    PROVE  LastOf(log) \in Seq(Messages)
<1>1. Len(log) \in Nat /\ Keep \in Nat
  BY LenProperties
<1>2. CASE Len(log) <= Keep
  BY <1>2 DEF LastOf
<1>3. CASE ~(Len(log) <= Keep)
  <2>1. Len(log) - Keep + 1 \in 1..Len(log) + 1 /\ Len(log) \in Len(log) - Keep + 1 - 1..Len(log)
    BY <1>1, <1>3
  <2>2. SubSeq(log, Len(log) - Keep + 1, Len(log)) \in Seq(Messages)
    BY <1>1, <1>3, SubSeqProperties
  <2>3. QED
    BY <1>3, <2>2 DEF LastOf
<1>4. QED
  BY <1>2, <1>3

LEMMA StoreType ==
    ASSUME TypeOK, NEW m \in Messages, Take(m) \/ UNCHANGED store
    PROVE  /\ used' \in Seq(Messages) /\ saved' \in Seq(Messages) /\ taken' \in Seq(Messages)
           /\ faults' \in 0..MaxFaults
<1>1. CASE Take(m)
  <2>1. /\ used' = Append(used, m) /\ taken' = Append(taken, m)
        /\ saved' \in {LastOf(used'), saved, <<>>}
        /\ faults' = faults \/ (faults < MaxFaults /\ faults' = faults + 1)
    BY <1>1 DEF Take
  <2>2. used' \in Seq(Messages) /\ taken' \in Seq(Messages)
    BY <2>1, AppendProperties DEF TypeOK
  <2>3. saved' \in Seq(Messages)
    BY <2>1, <2>2, LastOfType, EmptySeq DEF TypeOK
  <2>4. faults' \in 0..MaxFaults
    BY <2>1 DEF TypeOK
  <2>5. QED
    BY <2>2, <2>3, <2>4
<1>2. CASE UNCHANGED store
  BY <1>2 DEF store, TypeOK
<1>3. QED
  BY <1>1, <1>2

-----------------------------------------------------------------------------
(* Every step keeps the types. *)
LEMMA TypeStep == TypeOK /\ [Next]_vars => TypeOK'
<1> SUFFICES ASSUME TypeOK, [Next]_vars PROVE TypeOK'
  OBVIOUS
<1>1. ASSUME NEW m \in Messages, CreateMessage(m) PROVE TypeOK'
  BY <1>1 DEF CreateMessage, TypeOK, Time, store, tasks
<1>2. ASSUME NEW m \in Messages, Expired(m) PROVE TypeOK'
  BY <1>2, JudgeType DEF Expired, TypeOK, store, tasks
<1>3. ASSUME NEW m \in Messages, RefuseReplay(m) PROVE TypeOK'
  <2>1. windows' \in [Senders -> [count : Nat, resetAt : Nat] \cup {None}]
    BY <1>3, AdmitType DEF RefuseReplay
  <2>2. seen' \in [Messages -> Nat \cup {None}]
    BY <1>3, EvictedType DEF RefuseReplay
  <2>3. QED
    BY <1>3, <2>1, <2>2 DEF RefuseReplay, TypeOK, store, tasks
<1>4. ASSUME NEW m \in Messages, Handle(m) PROVE TypeOK'
  <2>1. /\ windows' \in [Senders -> [count : Nat, resetAt : Nat] \cup {None}]
        /\ seen' \in [Messages -> Nat \cup {None}]
    BY <1>4, JudgeType DEF Handle, HandleNew, HandleUsed, Accept
  <2>2. accepted' \in Seq([msg : Messages, at : Nat])
    <3>1. [msg |-> m, at |-> now] \in [msg : Messages, at : Nat]
      BY DEF TypeOK, Time
    <3>2. accepted \in Seq([msg : Messages, at : Nat])
      BY DEF TypeOK
    <3>3. accepted' = Append(accepted, [msg |-> m, at |-> now])
      BY <1>4 DEF Handle, HandleNew, HandleUsed, Accept
    <3> DEFINE entry == [msg |-> m, at |-> now]
    <3>4. Append(accepted, entry) \in Seq([msg : Messages, at : Nat])
      <4> HIDE DEF entry
      <4> QED
        BY <3>1, <3>2, AppendProperties DEF entry
    <3>5. QED
      BY <3>3, <3>4
  <2>3. /\ used' \in Seq(Messages) /\ saved' \in Seq(Messages) /\ taken' \in Seq(Messages)
        /\ faults' \in 0..MaxFaults
    <3>1. Take(m) \/ UNCHANGED store
      BY <1>4 DEF Handle, HandleNew, HandleUsed
    <3>2. QED
      BY <3>1, StoreType
  <2>4. QED
    BY <1>4, <2>1, <2>2, <2>3 DEF Handle, HandleNew, HandleUsed, Accept, TypeOK
<1>5. CASE Tick
  BY <1>5 DEF Tick, TypeOK, Time, store, tasks
<1>6. CASE Restart
  <2>1. used' \in Seq(Messages) /\ saved' \in Seq(Messages) /\ faults' \in 0..MaxFaults
    <3>1. <<>> \in Seq(Messages)
      BY EmptySeq
    <3>2. used \in Seq(Messages) /\ saved \in Seq(Messages) /\ faults \in 0..MaxFaults
      BY DEF TypeOK
    <3>3. CASE used' = saved /\ UNCHANGED <<saved, faults>>
      BY <3>2, <3>3
    <3>4. CASE used' = <<>> /\ saved' = <<>> /\ faults < MaxFaults /\ faults' = faults + 1
      BY <3>1, <3>2, <3>4
    <3>5. QED
      BY <1>6, <3>3, <3>4 DEF Restart
  <2>2. accepted' \in Seq([msg : Messages, at : Nat])
    BY <1>6, EmptySeq DEF Restart
  <2>3. QED
    BY <1>6, <2>1, <2>2 DEF Restart, TypeOK
<1>7. ASSUME NEW m \in Messages, Settle(m) \/ Throw(m) PROVE TypeOK'
  BY <1>7 DEF Settle, Throw, TypeOK, store
<1>8. CASE UNCHANGED vars
  BY <1>8 DEF vars, store, tasks, TypeOK
<1>9. QED
  BY <1>1, <1>2, <1>3, <1>4, <1>5, <1>6, <1>7, <1>8 DEF Next

-----------------------------------------------------------------------------
(* An arrival may record a nonce anew or evict it, never make it younger.  *)
LEMMA EvictionKeeps ==
    ASSUME IInv, NEW m \in Messages, NEW i \in 1..Len(accepted),
           UNCHANGED <<now, stamp>>,
           accepted'[i] = accepted[i],
           seen' = Evicted \/ seen' = [Evicted EXCEPT ![m] = now]
    PROVE  Kept(i)'
<1> DEFINE a == accepted[i]
<1>0. TypeOK /\ Kept(i)
  BY DEF IInv, AllKept
<1>1. /\ a.msg \in Messages /\ a.at \in Nat /\ now \in Nat /\ Kept(i)
      /\ seen \in [Messages -> Nat \cup {None}]
  <2>1. a \in [msg : Messages, at : Nat]
    BY <1>0, AcceptedType
  <2>2. now \in Nat /\ seen \in [Messages -> Nat \cup {None}]
    BY <1>0 DEF TypeOK, Time
  <2>3. QED
    BY <1>0, <2>1, <2>2
<1>2. Evicted \in [Messages -> Nat \cup {None}]
  BY EvictedType DEF IInv
<1>3. /\ Evicted[a.msg] # None => Evicted[a.msg] >= a.at
      /\ Evicted[a.msg] = None => a.at + NonceAge < now
  BY <1>1, EvictedType DEF IInv, Kept
<1>4. /\ seen'[a.msg] # None => seen'[a.msg] >= a.at
      /\ seen'[a.msg] = None => a.at + NonceAge < now
  BY <1>1, <1>2, <1>3 DEF Kept
<1>5. QED
  BY <1>1, <1>4 DEF Kept

(* A message that was handled and whose nonce the tracker no longer knows  *)
(* is too old to be handled again.                                         *)
LEMMA ForgottenIsStale ==
    ASSUME IInv, NEW i \in 1..Len(accepted), Evicted[accepted[i].msg] = None
    PROVE  ~Fresh(accepted[i].msg)
<1> DEFINE a == accepted[i]
<1>1. /\ a.msg \in Messages /\ a.at \in Nat /\ now \in Nat /\ Kept(i)
      /\ stamp[a.msg] \in Int
      /\ seen \in [Messages -> Nat \cup {None}]
  BY AcceptedType DEF IInv, TypeOK, AllKept, Kept, Time
<1>2. a.at + NonceAge < now
  BY <1>1, EvictedType DEF IInv, Kept
<1>3. now - stamp[a.msg] > MaxAge
  BY <1>1, <1>2 DEF Kept
<1>4. QED
  BY <1>1, <1>3 DEF Fresh

LEMMA InvStep == IInv /\ [Next]_vars => IInv'
<1> SUFFICES ASSUME IInv, [Next]_vars PROVE IInv'
  OBVIOUS
<1>0. TypeOK /\ TypeOK'
  BY TypeStep DEF IInv
<1>1. ASSUME NEW m \in Messages, CreateMessage(m) PROVE IInv'
  <2>1. \A i \in 1..Len(accepted) :
            accepted[i].msg # m /\ stamp'[accepted[i].msg] = stamp[accepted[i].msg]
    BY <1>0, <1>1, AcceptedType DEF CreateMessage, IInv, AllKept, Kept, TypeOK
  <2>2. AllKept'
    BY <1>1, <2>1 DEF CreateMessage, IInv, AllKept, Kept
  <2>3. QED
    BY <1>0, <1>1, <2>2 DEF CreateMessage, IInv, AtMostOnce
<1>2. ASSUME NEW m \in Messages, Expired(m) PROVE IInv'
  <2>1. AllKept'
    BY <1>2, EvictionKeeps DEF Expired, Judge, AllKept
  <2>2. QED
    BY <1>0, <1>2, <2>1 DEF Expired, IInv, AtMostOnce
<1>3. ASSUME NEW m \in Messages, RefuseReplay(m) PROVE IInv'
  <2>1. AllKept'
    BY <1>3, EvictionKeeps DEF RefuseReplay, AllKept
  <2>2. QED
    BY <1>0, <1>3, <2>1 DEF RefuseReplay, IInv, AtMostOnce
<1>4. ASSUME NEW m \in Messages, Handle(m) PROVE IInv'
  <2>1. /\ accepted' = Append(accepted, [msg |-> m, at |-> now])
        /\ seen' = [Evicted EXCEPT ![m] = now]
        /\ UNCHANGED <<now, stamp>>
        /\ Evicted[m] = None
        /\ stamp[m] # None /\ Fresh(m)
    BY <1>4 DEF Handle, HandleNew, HandleUsed, Accept, Judge, Admit
  <2>2. /\ Len(accepted') = Len(accepted) + 1
        /\ \A i \in 1..Len(accepted) : accepted'[i] = accepted[i]
        /\ accepted'[Len(accepted) + 1] = [msg |-> m, at |-> now]
        /\ Len(accepted) \in Nat
    BY <1>0, <2>1, AppendProperties, LenProperties DEF TypeOK, Time
  <2>3. \A i \in 1..Len(accepted) : accepted[i].msg # m
    BY <2>1, ForgottenIsStale
  <2>4. AtMostOnce'
    <3>1. ASSUME NEW i \in 1..Len(accepted'), NEW j \in 1..Len(accepted'),
                 accepted'[i].msg = accepted'[j].msg
          PROVE  i = j
      <4>1. CASE i \in 1..Len(accepted) /\ j \in 1..Len(accepted)
        BY <2>2, <3>1, <4>1 DEF AtMostOnce, IInv
      <4>2. CASE i \in 1..Len(accepted) /\ j = Len(accepted) + 1
        BY <2>2, <2>3, <3>1, <4>2
      <4>3. CASE i = Len(accepted) + 1 /\ j \in 1..Len(accepted)
        BY <2>2, <2>3, <3>1, <4>3
      <4>4. QED
        BY <2>2, <3>1, <4>1, <4>2, <4>3
    <3>2. QED
      BY <3>1 DEF AtMostOnce
  <2>5. \A i \in 1..Len(accepted) : Kept(i)'
    BY <2>1, <2>2, EvictionKeeps
  <2>6. ASSUME NEW i \in Nat, i = Len(accepted) + 1 PROVE Kept(i)'
    <3>1. now \in Nat /\ stamp[m] \in Int /\ stamp[m] <= now + MaxFuture
      BY <1>0, <2>1 DEF Fresh, TypeOK, Time
    <3>2. seen'[m] = now /\ now # None
      BY <1>0, <2>1, <3>1, EvictedType
    <3>3. QED
      BY <2>1, <2>2, <2>6, <3>1, <3>2 DEF Kept
  <2>7. AllKept'
    <3>1. \A i \in 1..Len(accepted') : i \in 1..Len(accepted) \/ i = Len(accepted) + 1
      BY <2>2
    <3>2. QED
      BY <2>5, <2>6, <3>1 DEF AllKept
  <2>8. QED
    BY <1>0, <2>4, <2>7 DEF IInv
<1>5. CASE Tick
  <2>1. ASSUME NEW i \in 1..Len(accepted) PROVE Kept(i)'
    <3>1. accepted[i].at \in Nat /\ now \in Nat /\ Kept(i)
      <4>1. accepted[i] \in [msg : Messages, at : Nat]
        BY <1>0, AcceptedType
      <4>2. now \in Nat
        BY <1>0 DEF TypeOK, Time
      <4>3. QED
        BY <4>1, <4>2 DEF IInv, AllKept
    <3>2. QED
      BY <1>5, <3>1 DEF Tick, Kept
  <2>2. QED
    BY <1>0, <1>5, <2>1 DEF Tick, IInv, AllKept, AtMostOnce
<1>6. CASE Restart
  BY <1>0, <1>6 DEF Restart, IInv, AllKept, AtMostOnce
<1>7. ASSUME UNCHANGED <<now, stamp, seen, accepted>> PROVE IInv'
  BY <1>0, <1>7 DEF IInv, AllKept, Kept, AtMostOnce
<1>8. ASSUME NEW m \in Messages, Settle(m) \/ Throw(m) PROVE IInv'
  BY <1>7, <1>8 DEF Settle, Throw
<1>9. CASE UNCHANGED vars
  BY <1>7, <1>9 DEF vars
<1>10. QED
  BY <1>1, <1>2, <1>3, <1>4, <1>5, <1>6, <1>8, <1>9 DEF Next

LEMMA InvInit == Init => IInv
BY DEF Init, IInv, TypeOK, AllKept, AtMostOnce, Time

(* The inductive invariant, from which both results follow. *)
THEOREM Invariance == Spec => []IInv
BY InvInit, InvStep, PTL DEF Spec

(* Every variable keeps its type. *)
THEOREM TypeCorrect == Spec => []TypeOK
<1>1. IInv => TypeOK
  BY DEF IInv
<1>2. QED
  BY <1>1, Invariance, PTL

(* No handler of one process sees a message twice, whatever the network    *)
(* repeats and whatever the sender's clock says (verifyIncoming).          *)
THEOREM HandledAtMostOnce == Spec => []AtMostOnce
<1>1. IInv => AtMostOnce
  BY DEF IInv
<1>2. QED
  BY <1>1, Invariance, PTL

-----------------------------------------------------------------------------
(* The store of used nonces.  As long as no save has failed it holds the   *)
(* last messages the runtime took, each once, and it has dropped others    *)
(* only if it holds as many as the file does.                              *)
StoreIsTail ==
    faults = 0 =>
        /\ Len(used) <= Len(taken)
        /\ \A k \in 1..Len(used) : used[k] = taken[Len(taken) - Len(used) + k]
        /\ Len(used) < Len(taken) => Len(used) >= Keep
        /\ \A i, j \in 1..Len(used) : used[i] = used[j] => i = j
        /\ saved = LastOf(used)

(* Memory and file hold nothing that was not taken, whatever has failed. *)
StoredWereTaken ==
    /\ \A k \in 1..Len(used) : Has(taken, used[k])
    /\ \A k \in 1..Len(saved) : Has(taken, saved[k])

StoreInv == StoreIsTail /\ StoredWereTaken /\ TakenOnce

(* A sequence without repetitions is no longer than a set that holds its   *)
(* elements.                                                               *)
LEMMA DistinctCount ==
    ASSUME NEW s \in Seq(Messages), NEW R, IsFiniteSet(R),
           \A k \in 1..Len(s) : s[k] \in R,
           \A i, j \in 1..Len(s) : s[i] = s[j] => i = j
    PROVE  Len(s) <= Cardinality(R)
<1>1. Len(s) \in Nat /\ s \in [1..Len(s) -> Messages]
  BY LenProperties
<1> DEFINE f == [k \in 1..Len(s) |-> s[k]]
<1>2. f \in Injection(1..Len(s), R)
  BY DEF Injection, IsInjective
<1>3. Cardinality(1..Len(s)) <= Cardinality(R)
  <2> HIDE DEF f
  <2> QED
    BY <1>2, FS_Injection
<1>4. Cardinality(1..Len(s)) = Len(s)
  BY <1>1, FS_Interval
<1>5. QED
  BY <1>3, <1>4

LEMMA StretchFinite ==
    ASSUME NEW log \in Seq(Messages), NEW a \in Int, NEW b \in Int
    PROVE  IsFiniteSet({log[k] : k \in a..b})
<1> DEFINE T == {log[k] : k \in a..b}  f == [k \in a..b |-> log[k]]
<1>1. f \in Surjection(a..b, T)
  BY DEF Surjection
<1>2. IsFiniteSet(a..b)
  BY FS_Interval
<1> HIDE DEF f, T
<1>3. IsFiniteSet(T)
  BY <1>1, <1>2, FS_Surjection
<1>4. QED
  BY <1>3 DEF T

(* The last elements of a log, as many as the file holds. *)
LEMMA LastOfElements ==
    ASSUME NEW log \in Seq(Messages)
    PROVE  /\ LastOf(log) \in Seq(Messages)
           /\ Len(LastOf(log)) \in Nat /\ Len(LastOf(log)) <= Len(log)
           /\ Len(LastOf(log)) < Len(log) => Len(LastOf(log)) = Keep
           /\ Len(LastOf(log)) <= Keep
           /\ \A k \in 1..Len(LastOf(log)) :
                  LastOf(log)[k] = log[Len(log) - Len(LastOf(log)) + k]
<1>1. Len(log) \in Nat /\ Keep \in Nat
  BY LenProperties
<1>2. CASE Len(log) <= Keep
  BY <1>1, <1>2 DEF LastOf
<1>3. CASE ~(Len(log) <= Keep)
  <2> DEFINE a == Len(log) - Keep + 1
  <2>1. a \in Int /\ Len(log) \in Int /\ \A i \in a..Len(log) : log[i] \in Messages
    BY <1>1, <1>3, ElementOfSeq
  <2>2. /\ SubSeq(log, a, Len(log)) \in Seq(Messages)
        /\ Len(SubSeq(log, a, Len(log))) = IF a <= Len(log) THEN Len(log) - a + 1 ELSE 0
        /\ \A i \in 1..Len(log) - a + 1 : SubSeq(log, a, Len(log))[i] = log[a + i - 1]
    BY <2>1, SubSeqProperties
  <2>3. LastOf(log) = SubSeq(log, a, Len(log))
    BY <1>3 DEF LastOf
  <2>4. Len(LastOf(log)) = Keep
    BY <1>1, <2>2, <2>3
  <2>5. \A k \in 1..Keep : LastOf(log)[k] = log[Len(log) - Keep + k]
    BY <1>1, <2>2, <2>3
  <2>6. QED
    BY <1>1, <1>3, <2>2, <2>3, <2>4, <2>5
<1>4. QED
  BY <1>2, <1>3

(* A short log is its own end. *)
LEMMA LastOfLast ==
    ASSUME NEW log \in Seq(Messages)
    PROVE  LastOf(LastOf(log)) = LastOf(log)
<1>1. Len(LastOf(log)) <= Keep
  BY LastOfElements
<1>2. QED
  BY <1>1 DEF LastOf

LEMMA TakeLengths ==
    ASSUME TypeOK, NEW m \in Messages, Take(m)
    PROVE  /\ Len(used) \in Nat /\ Len(taken) \in Nat
           /\ Len(used') = Len(used) + 1 /\ Len(taken') = Len(taken) + 1
           /\ \A k \in 1..Len(used) : used'[k] = used[k]
           /\ \A k \in 1..Len(taken) : taken'[k] = taken[k]
           /\ used'[Len(used) + 1] = m /\ taken'[Len(taken) + 1] = m
           /\ \A k \in 1..Len(used) : used[k] # m
           /\ used' \in Seq(Messages) /\ taken' \in Seq(Messages)
<1>1. used \in Seq(Messages) /\ taken \in Seq(Messages)
  BY DEF TypeOK
<1>2. used' = Append(used, m) /\ taken' = Append(taken, m) /\ ~Has(used, m)
  BY DEF Take
<1>3. Len(used) \in Nat /\ Len(taken) \in Nat
  BY <1>1, LenProperties
<1>4. QED
  BY <1>1, <1>2, <1>3, AppendProperties DEF Has

LEMMA TakeKeepsStore ==
    ASSUME TypeOK, StoreInv, NEW m \in Messages, Take(m)
    PROVE  StoreInv'
<1>0. /\ Len(used) \in Nat /\ Len(taken) \in Nat
      /\ Len(used') = Len(used) + 1 /\ Len(taken') = Len(taken) + 1
      /\ \A k \in 1..Len(used) : used'[k] = used[k]
      /\ \A k \in 1..Len(taken) : taken'[k] = taken[k]
      /\ used'[Len(used) + 1] = m /\ taken'[Len(taken) + 1] = m
      /\ \A k \in 1..Len(used) : used[k] # m
      /\ used' \in Seq(Messages) /\ taken' \in Seq(Messages)
  BY TakeLengths
<1>1. /\ (saved' = LastOf(used') /\ UNCHANGED faults) \/ faults' # 0
      /\ saved' \in {LastOf(used'), saved, <<>>}
      /\ faults' = 0 => faults = 0
  BY DEF Take, TypeOK
<1>2. StoreIsTail'
  <2> SUFFICES ASSUME faults' = 0
               PROVE  /\ Len(used') <= Len(taken')
                      /\ \A k \in 1..Len(used') : used'[k] = taken'[Len(taken') - Len(used') + k]
                      /\ Len(used') < Len(taken') => Len(used') >= Keep
                      /\ \A i, j \in 1..Len(used') : used'[i] = used'[j] => i = j
                      /\ saved' = LastOf(used)'
    BY DEF StoreIsTail
  <2>1. /\ Len(used) <= Len(taken)
        /\ \A k \in 1..Len(used) : used[k] = taken[Len(taken) - Len(used) + k]
        /\ Len(used) < Len(taken) => Len(used) >= Keep
        /\ \A i, j \in 1..Len(used) : used[i] = used[j] => i = j
    BY <1>1 DEF StoreInv, StoreIsTail
  <2>2. \A k \in 1..Len(used') : used'[k] = taken'[Len(taken') - Len(used') + k]
    <3> SUFFICES ASSUME NEW k \in 1..Len(used')
                 PROVE  used'[k] = taken'[Len(taken') - Len(used') + k]
      OBVIOUS
    <3>1. CASE k = Len(used) + 1
      BY <1>0, <3>1
    <3>2. CASE k \in 1..Len(used)
      <4>1. Len(taken) - Len(used) + k \in 1..Len(taken)
        BY <1>0, <2>1, <3>2
      <4>2. Len(taken') - Len(used') + k = Len(taken) - Len(used) + k
        BY <1>0, <3>2
      <4> QED
        BY <1>0, <2>1, <3>2, <4>1, <4>2
    <3> QED
      BY <1>0, <3>1, <3>2
  <2>3. \A i, j \in 1..Len(used') : used'[i] = used'[j] => i = j
    BY <1>0, <2>1
  <2>4. QED
    BY <1>0, <1>1, <2>1, <2>2, <2>3
<1>3. StoredWereTaken'
  <2>1. \A x : Has(taken, x) => Has(taken, x)'
    BY <1>0 DEF Has
  <2>2. Has(taken, m)'
    BY <1>0 DEF Has
  <2>3. \A k \in 1..Len(used') : Has(taken', used'[k])
    BY <1>0, <2>1, <2>2 DEF StoreInv, StoredWereTaken, Has
  <2>4. \A k \in 1..Len(LastOf(used')) : Has(taken', LastOf(used')[k])
    <3> SUFFICES ASSUME NEW k \in 1..Len(LastOf(used'))
                 PROVE  Has(taken', LastOf(used')[k])
      OBVIOUS
    <3> DEFINE j == Len(used') - Len(LastOf(used')) + k
    <3>0. /\ Len(LastOf(used')) \in Nat /\ Len(LastOf(used')) <= Len(used')
          /\ \A i \in 1..Len(LastOf(used')) :
                 LastOf(used')[i] = used'[Len(used') - Len(LastOf(used')) + i]
      <4>1. used' \in Seq(Messages)
        BY <1>0
      <4> QED
        BY <4>1, LastOfElements
    <3>1. j \in 1..Len(used') /\ LastOf(used')[k] = used'[j]
      BY <1>0, <3>0
    <3> HIDE DEF j
    <3> QED
      BY <2>3, <3>1
  <2>5. \A k \in 1..Len(saved') : Has(taken', saved'[k])
    <3>1. CASE saved' = LastOf(used')
      BY <2>4, <3>1
    <3>2. CASE saved' = saved
      BY <2>1, <3>2 DEF StoreInv, StoredWereTaken, Has
    <3>3. CASE saved' = <<>>
      BY <3>3
    <3> QED
      BY <1>1, <3>1, <3>2, <3>3
  <2> QED
    BY <2>3, <2>5 DEF StoredWereTaken
<1>4. TakenOnce'
  <2> SUFFICES ASSUME NEW i \in 1..Len(taken'), NEW j \in 1..Len(taken'),
                      i < j, taken'[i] = taken'[j], ~(faults' > 0)
               PROVE  Cardinality({taken'[k] : k \in i + 1..j - 1}) >= Keep
    BY DEF TakenOnce
  <2>z. faults' = 0
    <3>1. faults' \in 0..MaxFaults
      BY StoreType
    <3> QED
      BY <3>1
  <2>0. /\ Len(taken) \in Nat /\ i \in Nat /\ j \in Nat
        /\ 1 <= i /\ i < j /\ j <= Len(taken) + 1
    BY <1>0
  <2>1. ASSUME NEW k \in i + 1..j - 1
        PROVE  k \in 1..Len(taken) /\ taken'[k] = taken[k]
    <3>1. k \in 1..Len(taken)
      BY <2>0, <2>1
    <3>2. QED
      BY <1>0, <3>1
  <2>2. {taken'[k] : k \in i + 1..j - 1} = {taken[k] : k \in i + 1..j - 1}
    BY <2>1
  <2>3. CASE j \in 1..Len(taken)
    <3>0. i \in 1..Len(taken)
      BY <2>0, <2>3
    <3>1. i \in 1..Len(taken) /\ taken[i] = taken[j] /\ faults = 0
      <4>1. taken'[i] = taken[i] /\ taken'[j] = taken[j]
        BY <1>0, <2>3, <3>0
      <4> QED
        BY <1>1, <2>z, <3>0, <4>1
    <3>2. Cardinality({taken[k] : k \in i + 1..j - 1}) >= Keep
      BY <2>3, <3>1 DEF StoreInv, TakenOnce
    <3> QED
      BY <2>2, <3>2
  <2>4. CASE j = Len(taken) + 1
    <3>0. i \in 1..Len(taken)
      BY <2>0, <2>4
    <3>1. i \in 1..Len(taken) /\ taken[i] = m
      BY <1>0, <2>4, <3>0
    <3>2. /\ Len(used) <= Len(taken)
          /\ \A k \in 1..Len(used) : used[k] = taken[Len(taken) - Len(used) + k]
          /\ Len(used) < Len(taken) => Len(used) >= Keep
          /\ \A a, b \in 1..Len(used) : used[a] = used[b] => a = b
      BY <1>1, <2>z DEF StoreInv, StoreIsTail
    <3> DEFINE R == {taken[k] : k \in i + 1..j - 1}
    <3>3. i <= Len(taken) - Len(used)
      <4> SUFFICES ASSUME i > Len(taken) - Len(used) PROVE FALSE
        BY <1>0
      <4> DEFINE k == i - (Len(taken) - Len(used))
      <4>1. k \in 1..Len(used) /\ Len(taken) - Len(used) + k = i
        BY <1>0, <3>1, <3>2
      <4>2. used[k] = m
        BY <3>1, <3>2, <4>1
      <4> QED
        BY <1>0, <4>1, <4>2
    <3>4. \A k \in 1..Len(used) : used[k] \in R
      <4> SUFFICES ASSUME NEW k \in 1..Len(used) PROVE used[k] \in R
        OBVIOUS
      <4>1. Len(taken) - Len(used) + k \in i + 1..j - 1
        BY <1>0, <2>4, <3>1, <3>2, <3>3
      <4> QED
        BY <3>2, <4>1
    <3>5. IsFiniteSet(R)
      <4>1. taken \in Seq(Messages) /\ i + 1 \in Int /\ j - 1 \in Int
        BY <1>0, <2>4, <3>1 DEF TypeOK
      <4> QED
        BY <4>1, StretchFinite
    <3> HIDE DEF R
    <3>6. Len(used) <= Cardinality(R) /\ Cardinality(R) \in Nat
      <4>1. used \in Seq(Messages)
        BY DEF TypeOK
      <4> QED
        BY <3>2, <3>4, <3>5, <4>1, DistinctCount, FS_CardinalityType
    <3>7. Cardinality(R) >= Keep
      BY <1>0, <3>1, <3>2, <3>3, <3>6
    <3> QED
      BY <2>2, <3>7 DEF R
  <2>5. j \in 1..Len(taken) \/ j = Len(taken) + 1
    BY <2>0
  <2> QED
    BY <2>3, <2>4, <2>5
<1>5. QED
  BY <1>2, <1>3, <1>4 DEF StoreInv

LEMMA RestartKeepsStore ==
    ASSUME TypeOK, StoreInv, Restart
    PROVE  StoreInv'
<1>1. used \in Seq(Messages) /\ taken \in Seq(Messages) /\ UNCHANGED taken
  BY DEF TypeOK, Restart
<1>2. Len(used) \in Nat /\ Len(taken) \in Nat
  BY <1>1, LenProperties
<1>3. CASE used' = <<>> /\ saved' = <<>> /\ faults' = faults + 1
  <2>1. faults' # 0
    BY <1>3 DEF TypeOK
  <2>2. StoreIsTail'
    BY <2>1 DEF StoreIsTail
  <2>3. StoredWereTaken'
    BY <1>3 DEF StoredWereTaken
  <2>4. TakenOnce'
    <3>1. faults' > 0
      BY <1>3 DEF TypeOK
    <3>2. QED
      BY <3>1 DEF TakenOnce
  <2>5. QED
    BY <2>2, <2>3, <2>4 DEF StoreInv
<1>4. CASE used' = saved /\ UNCHANGED <<saved, faults>>
  <2>1. StoreIsTail'
    <3> SUFFICES ASSUME faults = 0
                 PROVE  StoreIsTail'
      BY <1>4 DEF StoreIsTail
    <3>1. /\ Len(used) <= Len(taken)
          /\ \A k \in 1..Len(used) : used[k] = taken[Len(taken) - Len(used) + k]
          /\ Len(used) < Len(taken) => Len(used) >= Keep
          /\ \A i, j \in 1..Len(used) : used[i] = used[j] => i = j
          /\ used' = LastOf(used) /\ saved' = LastOf(used)
      BY <1>4 DEF StoreInv, StoreIsTail
    <3>2. /\ Len(used') \in Nat /\ Len(used') <= Len(used)
          /\ Len(used') < Len(used) => Len(used') = Keep
          /\ \A k \in 1..Len(used') : used'[k] = used[Len(used) - Len(used') + k]
      BY <1>1, <3>1, LastOfElements
    <3>3. \A k \in 1..Len(used') : used'[k] = taken[Len(taken) - Len(used') + k]
      <4> SUFFICES ASSUME NEW k \in 1..Len(used')
                   PROVE  used'[k] = taken[Len(taken) - Len(used') + k]
        OBVIOUS
      <4> DEFINE j == Len(used) - Len(used') + k
      <4>1. j \in 1..Len(used) /\ Len(taken) - Len(used) + j = Len(taken) - Len(used') + k
        BY <1>2, <3>2
      <4>2. used'[k] = used[j]
        BY <3>2
      <4> HIDE DEF j
      <4> QED
        BY <3>1, <4>1, <4>2
    <3>4. \A i, j \in 1..Len(used') : used'[i] = used'[j] => i = j
      <4> SUFFICES ASSUME NEW i \in 1..Len(used'), NEW j \in 1..Len(used'), used'[i] = used'[j]
                   PROVE  i = j
        OBVIOUS
      <4> DEFINE a == Len(used) - Len(used') + i
                 b == Len(used) - Len(used') + j
      <4>1. a \in 1..Len(used) /\ b \in 1..Len(used) /\ (a = b => i = j)
        BY <1>2, <3>2
      <4>2. used'[i] = used[a] /\ used'[j] = used[b]
        BY <3>2
      <4> HIDE DEF a, b
      <4> QED
        BY <3>1, <4>1, <4>2
    <3>5. saved' = LastOf(used)'
      <4>1. saved' = LastOf(used')
        BY <1>1, <3>1, LastOfLast
      <4> QED
        BY <4>1 DEF LastOf
    <3>6. Len(used') <= Len(taken') /\ (Len(used') < Len(taken') => Len(used') >= Keep)
      BY <1>1, <1>2, <3>1, <3>2
    <3>7. \A k \in 1..Len(used') : used'[k] = taken'[Len(taken') - Len(used') + k]
      BY <1>1, <3>3
    <3> QED
      BY <3>4, <3>5, <3>6, <3>7 DEF StoreIsTail
  <2>2. StoredWereTaken'
    BY <1>1, <1>4 DEF StoreInv, StoredWereTaken, Has
  <2>3. TakenOnce'
    BY <1>1, <1>4 DEF StoreInv, TakenOnce
  <2>4. QED
    BY <2>1, <2>2, <2>3 DEF StoreInv
<1>5. QED
  BY <1>3, <1>4 DEF Restart

LEMMA StoreStep == TypeOK /\ StoreInv /\ [Next]_vars => StoreInv'
<1> SUFFICES ASSUME TypeOK, StoreInv, [Next]_vars PROVE StoreInv'
  OBVIOUS
<1>1. CASE UNCHANGED store
  <2>1. UNCHANGED <<used, saved, taken, faults>>
    BY <1>1 DEF store
  <2>2. StoreIsTail'
    <3>1. LastOf(used)' = LastOf(used)
      BY <2>1 DEF LastOf
    <3>2. QED
      BY <2>1, <3>1 DEF StoreInv, StoreIsTail
  <2>3. StoredWereTaken'
    BY <2>1 DEF StoreInv, StoredWereTaken, Has
  <2>4. TakenOnce'
    BY <2>1 DEF StoreInv, TakenOnce
  <2>5. QED
    BY <2>2, <2>3, <2>4 DEF StoreInv
<1>2. ASSUME NEW m \in Messages,
             CreateMessage(m) \/ RefuseReplay(m) \/ Expired(m) \/ Settle(m) \/ Throw(m)
      PROVE  UNCHANGED store
  BY <1>2 DEF CreateMessage, RefuseReplay, Expired, Settle, Throw
<1>3. ASSUME NEW m \in Messages, Handle(m) PROVE Take(m) \/ UNCHANGED store
  BY <1>3 DEF Handle, HandleNew, HandleUsed
<1>4. CASE Tick \/ UNCHANGED vars
  BY <1>1, <1>4 DEF Tick, vars
<1>5. CASE Restart
  BY <1>5, RestartKeepsStore
<1>6. QED
  BY <1>1, <1>2, <1>3, <1>4, <1>5, TakeKeepsStore DEF Next

LEMMA StoreInit == Init => StoreInv
<1> SUFFICES ASSUME Init PROVE StoreInv
  OBVIOUS
<1>1. used = <<>> /\ saved = <<>> /\ taken = <<>>
  BY DEF Init
<1>2. LastOf(used) = <<>>
  BY <1>1 DEF LastOf
<1>3. QED
  BY <1>1, <1>2 DEF StoreInv, StoreIsTail, StoredWereTaken, TakenOnce

(* What the runtime has taken it takes again only if a save failed, or     *)
(* after as many other messages as the file holds (saveNonces).            *)
THEOREM NoTaskTwice == Spec => []TakenOnce
<1>1. StoreInv => TakenOnce
  BY DEF StoreInv
<1>2. QED
  BY <1>1, StoreInit, StoreStep, TypeCorrect, PTL DEF Spec

-----------------------------------------------------------------------------
(* The limiter.  What was handled for a sender, from one time to another.  *)
Within(s, from, to) ==
    {i \in 1..Len(accepted) : From[accepted[i].msg] = s /\ accepted[i].at \in from..to}

(* The sender's window counts what was handled in it, nothing was handled  *)
(* after it, and what was handled in the time of one window before it lies *)
(* in the last window but one and so does not exceed the limit either.     *)
WindowCounts ==
    \A s \in Senders :
        /\ windows[s] = None => \A i \in 1..Len(accepted) : From[accepted[i].msg] # s
        /\ windows[s] # None =>
             LET closes == windows[s].resetAt  opens == closes - Window
             IN  /\ opens <= now /\ windows[s].count <= MaxRequests
                 /\ \A i \in 1..Len(accepted) :
                        From[accepted[i].msg] = s => accepted[i].at <= closes
                 /\ Cardinality(Within(s, opens, closes)) <= windows[s].count
                 /\ Cardinality(Within(s, opens - Window, opens - 1)) <= MaxRequests

LimiterInv == WindowCounts /\ BurstBounded

LEMMA WithinFinite ==
    ASSUME TypeOK, NEW s, NEW a, NEW b
    PROVE  IsFiniteSet(Within(s, a, b)) /\ Cardinality(Within(s, a, b)) \in Nat
<1>1. Len(accepted) \in Nat
  BY LenProperties DEF TypeOK
<1>2. IsFiniteSet(1..Len(accepted)) /\ Within(s, a, b) \in SUBSET (1..Len(accepted))
  BY <1>1, FS_Interval DEF Within
<1>3. QED
  BY <1>2, FS_Subset, FS_CardinalityType

LEMMA BurstWithin ==
    BurstBounded <=> \A s \in Senders : \A t \in Time :
                         Cardinality(Within(s, t, t + Window)) <= 2 * MaxRequests
BY DEF BurstBounded, Within

(* What a time span holds, if two windows cover it. *)
LEMMA SplitBound ==
    ASSUME TypeOK, NEW s \in Senders, NEW a \in Int, NEW b \in Int,
           NEW o \in Int, NEW c \in Int, o - Window <= a,
           \A i \in 1..Len(accepted) : From[accepted[i].msg] = s => accepted[i].at <= c,
           Cardinality(Within(s, o, c)) <= MaxRequests,
           Cardinality(Within(s, o - Window, o - 1)) <= MaxRequests
    PROVE  Cardinality(Within(s, a, b)) <= 2 * MaxRequests
<1> DEFINE X == Within(s, o, c)  Y == Within(s, o - Window, o - 1)  Z == Within(s, a, b)
<1>1. \A i \in 1..Len(accepted) : accepted[i].at \in Nat
  BY AcceptedType
<1>2. Z \in SUBSET (X \cup Y)
  BY <1>1 DEF Within
<1>3. /\ IsFiniteSet(X) /\ IsFiniteSet(Y) /\ Cardinality(X) \in Nat /\ Cardinality(Y) \in Nat
      /\ Cardinality(Z) \in Nat
  BY WithinFinite
<1>4. Cardinality(X) <= MaxRequests /\ Cardinality(Y) <= MaxRequests
  OBVIOUS
<1> HIDE DEF X, Y, Z
<1>5. /\ IsFiniteSet(X \cup Y)
      /\ Cardinality(X \cup Y) = Cardinality(X) + Cardinality(Y) - Cardinality(X \cap Y)
  BY <1>3, FS_Union
<1>6. Cardinality(X \cap Y) \in Nat
  BY <1>3, FS_Intersection, FS_CardinalityType
<1>7. Cardinality(Z) <= Cardinality(X \cup Y)
  BY <1>2, <1>5, FS_Subset
<1>8. Cardinality(Z) <= 2 * MaxRequests
  BY <1>3, <1>4, <1>5, <1>6, <1>7
<1>9. QED
  BY <1>8 DEF Z

(* A request that the limiter lets in, handled or not. *)
LEMMA HandledWithin ==
    ASSUME TypeOK, TypeOK', UNCHANGED now, NEW m \in Messages,
           \/ UNCHANGED accepted
           \/ accepted' = Append(accepted, [msg |-> m, at |-> now])
    PROVE  \A s, a, b :
              \/ Within(s, a, b)' = Within(s, a, b)
              \/ /\ s = From[m] /\ now \in a..b /\ Len(accepted) + 1 \notin Within(s, a, b)
                 /\ Within(s, a, b)' = Within(s, a, b) \cup {Len(accepted) + 1}
<1>1. CASE UNCHANGED accepted
  BY <1>1 DEF Within
<1>2. CASE accepted' = Append(accepted, [msg |-> m, at |-> now])
  <2>0. accepted \in Seq([msg : Messages, at : Nat]) /\ [msg |-> m, at |-> now] \in [msg : Messages, at : Nat]
    BY DEF TypeOK, Time
  <2>1. /\ Len(accepted) \in Nat /\ Len(accepted') = Len(accepted) + 1
        /\ \A i \in 1..Len(accepted) : accepted'[i] = accepted[i]
        /\ accepted'[Len(accepted) + 1] = [msg |-> m, at |-> now]
    BY <1>2, <2>0, AppendProperties, LenProperties
  <2> SUFFICES ASSUME NEW s, NEW a, NEW b
               PROVE  \/ Within(s, a, b)' = Within(s, a, b)
                      \/ /\ s = From[m] /\ now \in a..b /\ Len(accepted) + 1 \notin Within(s, a, b)
                         /\ Within(s, a, b)' = Within(s, a, b) \cup {Len(accepted) + 1}
    OBVIOUS
  <2>2. Within(s, a, b)' = {i \in 1..Len(accepted) + 1 : From[accepted'[i].msg] = s /\ accepted'[i].at \in a..b}
    BY <2>1 DEF Within
  <2>3. CASE s = From[m] /\ now \in a..b
    BY <2>1, <2>2, <2>3 DEF Within
  <2>4. CASE ~(s = From[m] /\ now \in a..b)
    BY <2>1, <2>2, <2>4 DEF Within
  <2>5. QED
    BY <2>3, <2>4
<1>3. QED
  BY <1>1, <1>2

(* What WindowCounts says of one sender. *)
SenderCounts(s) ==
    /\ windows[s] = None => \A i \in 1..Len(accepted) : From[accepted[i].msg] # s
    /\ windows[s] # None =>
         LET closes == windows[s].resetAt  opens == closes - Window
         IN  /\ opens <= now /\ windows[s].count <= MaxRequests
             /\ \A i \in 1..Len(accepted) :
                    From[accepted[i].msg] = s => accepted[i].at <= closes
             /\ Cardinality(Within(s, opens, closes)) <= windows[s].count
             /\ Cardinality(Within(s, opens - Window, opens - 1)) <= MaxRequests

LEMMA CountsOfSenders == WindowCounts <=> \A s \in Senders : SenderCounts(s)
BY DEF WindowCounts, SenderCounts

(* A request opens a window: what was handled before lies outside of it,   *)
(* and what was handled less than a window ago lies in the last one.       *)
LEMMA OpeningKeeps ==
    ASSUME IInv, WindowCounts, TypeOK', UNCHANGED now, NEW m \in Messages,
           \/ UNCHANGED accepted
           \/ accepted' = Append(accepted, [msg |-> m, at |-> now]),
           NewWindow(From[m]),
           windows'[From[m]] = [count |-> 1, resetAt |-> now + Window]
    PROVE  SenderCounts(From[m])'
<1> DEFINE s == From[m]
<1>0. TypeOK /\ s \in Senders /\ now \in Nat /\ Window \in Nat
  BY DEF IInv, TypeOK, Time
<1>1. \A i \in 1..Len(accepted) : accepted[i].at \in Nat /\ accepted[i].at <= now
  BY <1>0, AcceptedType DEF IInv, AllKept, Kept
<1>2. windows'[s] # None /\ windows'[s].count = 1 /\ windows'[s].resetAt = now + Window
  BY <1>0
<1>3. windows[s] = None \/ (windows[s] # None /\ now > windows[s].resetAt /\ windows[s].resetAt \in Nat)
  BY <1>0 DEF NewWindow, TypeOK
<1>4. Within(s, now, now + Window) = {}
  <2>1. CASE windows[s] = None
    BY <1>0, <2>1, CountsOfSenders DEF SenderCounts, Within
  <2>2. CASE windows[s] # None /\ now > windows[s].resetAt /\ windows[s].resetAt \in Nat
    <3>1. \A i \in 1..Len(accepted) : From[accepted[i].msg] = s => accepted[i].at <= windows[s].resetAt
      BY <1>0, <2>2, CountsOfSenders DEF SenderCounts
    <3>2. QED
      BY <1>0, <1>1, <2>2, <3>1 DEF Within
  <2>3. QED
    BY <1>3, <2>1, <2>2
<1>5. Cardinality(Within(s, now - Window, now - 1)) <= MaxRequests
  <2>1. CASE windows[s] = None
    <3>1. Within(s, now - Window, now - 1) = {}
      BY <1>0, <2>1, CountsOfSenders DEF SenderCounts, Within
    <3>2. Cardinality(Within(s, now - Window, now - 1)) = 0
      BY <3>1, FS_EmptySet, Zenon
    <3>3. QED
      BY <3>2
  <2>2. CASE windows[s] # None /\ now > windows[s].resetAt /\ windows[s].resetAt \in Nat
    <3> DEFINE c == windows[s].resetAt
    <3>1. /\ \A i \in 1..Len(accepted) : From[accepted[i].msg] = s => accepted[i].at <= c
          /\ Cardinality(Within(s, c - Window, c)) <= windows[s].count
          /\ windows[s].count <= MaxRequests
      BY <1>0, <2>2, CountsOfSenders DEF SenderCounts
    <3>2. Within(s, now - Window, now - 1) \in SUBSET Within(s, c - Window, c)
      <4>1. ASSUME NEW i \in Within(s, now - Window, now - 1)
            PROVE  i \in Within(s, c - Window, c)
        <5>1. /\ i \in 1..Len(accepted) /\ From[accepted[i].msg] = s
              /\ accepted[i].at \in now - Window..now - 1
          BY DEF Within
        <5>2. accepted[i].at \in c - Window..c
          BY <1>0, <1>1, <2>2, <3>1, <5>1
        <5> QED
          BY <5>1, <5>2 DEF Within
      <4> QED
        BY <4>1
    <3>3. windows[s].count \in Nat
      BY <1>0, <2>2 DEF TypeOK
    <3>4. /\ Cardinality(Within(s, now - Window, now - 1)) <= Cardinality(Within(s, c - Window, c))
          /\ Cardinality(Within(s, now - Window, now - 1)) \in Nat
          /\ Cardinality(Within(s, c - Window, c)) \in Nat
      BY <1>0, <3>2, WithinFinite, FS_Subset
    <3>5. QED
      BY <3>1, <3>3, <3>4
  <2>3. QED
    BY <1>3, <2>1, <2>2
<1>6. Cardinality(Within(s, now, now + Window)') <= 1
  <2>1. \/ Within(s, now, now + Window)' = {}
        \/ Within(s, now, now + Window)' = {Len(accepted) + 1}
    BY <1>0, <1>4, HandledWithin
  <2>2. \/ Cardinality(Within(s, now, now + Window)') = 0
        \/ Cardinality(Within(s, now, now + Window)') = 1
    BY <2>1, FS_EmptySet, FS_Singleton, Zenon
  <2>3. QED
    BY <2>2
<1>7. Within(s, now - Window, now - 1)' = Within(s, now - Window, now - 1)
  <2>1. now \notin now - Window..now - 1
    BY <1>0
  <2>2. QED
    BY <1>0, <2>1, HandledWithin
<1>8. \A i \in 1..Len(accepted') : accepted'[i].at <= now + Window
  <2>1. accepted \in Seq([msg : Messages, at : Nat]) /\ [msg |-> m, at |-> now] \in [msg : Messages, at : Nat]
    BY <1>0 DEF TypeOK
  <2>2. CASE accepted' = Append(accepted, [msg |-> m, at |-> now])
    <3>1. /\ Len(accepted) \in Nat /\ Len(accepted') = Len(accepted) + 1
          /\ \A i \in 1..Len(accepted) : accepted'[i] = accepted[i]
          /\ accepted'[Len(accepted) + 1].at = now
      BY <2>1, <2>2, AppendProperties, LenProperties
    <3>2. QED
      BY <1>0, <1>1, <3>1
  <2>3. QED
    BY <1>0, <1>1, <2>2
<1>9. /\ windows'[s].resetAt - Window = now' /\ windows'[s].resetAt = now' + Window
      /\ windows'[s].resetAt - Window - Window = now' - Window
      /\ windows'[s].resetAt - Window - 1 = now' - 1
  BY <1>0, <1>2
<1> DEFINE X == Within(s, now, now + Window)  Y == Within(s, now - Window, now - 1)
<1>10. Cardinality(X') <= 1 /\ Cardinality(Y') <= MaxRequests
  BY <1>5, <1>6, <1>7
<1>11. /\ Within(s, windows[s].resetAt - Window, windows[s].resetAt)' = X'
       /\ Within(s, windows[s].resetAt - Window - Window, windows[s].resetAt - Window - 1)' = Y'
  BY <1>9 DEF Within
<1> HIDE DEF X, Y, s
<1>12. QED
  BY <1>0, <1>2, <1>8, <1>9, <1>10, <1>11 DEF SenderCounts, s

LEMMA AtMostOneMore ==
    ASSUME NEW X, NEW Y, NEW n, NEW k \in Nat, IsFiniteSet(X), Cardinality(X) <= k,
           Y = X \/ Y = X \cup {n}
    PROVE  Cardinality(Y) <= k + 1
<1>1. Cardinality(X) \in Nat
  BY FS_CardinalityType
<1>2. CASE Y = X
  BY <1>1, <1>2
<1>3. CASE Y = X \cup {n}
  <2>1. Cardinality(Y) = IF n \in X THEN Cardinality(X) ELSE Cardinality(X) + 1
    BY <1>3, FS_AddElement
  <2>2. QED
    BY <1>1, <2>1
<1>4. QED
  BY <1>2, <1>3

(* A request is counted in the window that is open. *)
LEMMA CountingKeeps ==
    ASSUME IInv, WindowCounts, TypeOK', UNCHANGED now, NEW m \in Messages,
           \/ UNCHANGED accepted
           \/ accepted' = Append(accepted, [msg |-> m, at |-> now]),
           NEW c \in Nat, NEW k \in Nat, now <= c, k < MaxRequests,
           /\ windows[From[m]] # None
           /\ windows[From[m]].resetAt = c /\ windows[From[m]].count = k,
           /\ windows'[From[m]] # None
           /\ windows'[From[m]].resetAt = c /\ windows'[From[m]].count = k + 1
    PROVE  SenderCounts(From[m])'
<1> DEFINE s == From[m]  o == c - Window
<1>0. TypeOK /\ s \in Senders /\ now \in Nat /\ Window \in Nat /\ MaxRequests \in Nat
  <2>1. TypeOK
    BY DEF IInv
  <2>2. now \in Nat
    BY <2>1 DEF TypeOK, Time
  <2>3. QED
    BY <2>1, <2>2
<1>1. /\ o \in Int /\ o <= now
      /\ \A i \in 1..Len(accepted) : From[accepted[i].msg] = s => accepted[i].at <= c
      /\ Cardinality(Within(s, o, c)) <= k
      /\ Cardinality(Within(s, o - Window, o - 1)) <= MaxRequests
  BY <1>0, CountsOfSenders DEF SenderCounts
<1>2. Cardinality(Within(s, o, c)') <= k + 1
  <2>1. IsFiniteSet(Within(s, o, c))
    BY <1>0, WithinFinite
  <2>2. \/ Within(s, o, c)' = Within(s, o, c)
        \/ Within(s, o, c)' = Within(s, o, c) \cup {Len(accepted) + 1}
    BY <1>0, HandledWithin
  <2>3. Cardinality(Within(s, o, c)) <= k
    BY <1>1
  <2> HIDE DEF s, o
  <2>4. QED
    BY <2>1, <2>2, <2>3, AtMostOneMore
<1>3. Cardinality(Within(s, o - Window, o - 1)') <= MaxRequests
  <2>1. now \notin o - Window..o - 1
    BY <1>0, <1>1
  <2>2. Within(s, o - Window, o - 1)' = Within(s, o - Window, o - 1)
    BY <1>0, <2>1, HandledWithin
  <2>3. QED
    BY <1>1, <2>2
<1>4. \A i \in 1..Len(accepted') : From[accepted'[i].msg] = s => accepted'[i].at <= c
  <2>1. accepted \in Seq([msg : Messages, at : Nat]) /\ [msg |-> m, at |-> now] \in [msg : Messages, at : Nat]
    BY <1>0 DEF TypeOK
  <2>2. CASE accepted' = Append(accepted, [msg |-> m, at |-> now])
    <3>1. /\ Len(accepted) \in Nat /\ Len(accepted') = Len(accepted) + 1
          /\ \A i \in 1..Len(accepted) : accepted'[i] = accepted[i]
          /\ accepted'[Len(accepted) + 1].at = now
      BY <2>1, <2>2, AppendProperties, LenProperties
    <3>2. ASSUME NEW i \in 1..Len(accepted'), From[accepted'[i].msg] = s
          PROVE  accepted'[i].at <= c
      <4>1. i \in 1..Len(accepted) \/ i = Len(accepted) + 1
        BY <3>1
      <4>2. CASE i \in 1..Len(accepted)
        BY <1>1, <3>1, <3>2, <4>2
      <4>3. CASE i = Len(accepted) + 1
        BY <1>0, <3>1, <4>3
      <4>4. QED
        BY <4>1, <4>2, <4>3
    <3>3. QED
      BY <3>2
  <2>3. QED
    BY <1>1, <2>2
<1>5. now' = now /\ k + 1 <= MaxRequests
  BY <1>0
<1>6. QED
  BY <1>1, <1>2, <1>3, <1>4, <1>5 DEF SenderCounts

LEMMA AdmitKeepsCounts ==
    ASSUME IInv, WindowCounts, TypeOK', UNCHANGED now, NEW m \in Messages, Admit(m),
           \/ UNCHANGED accepted
           \/ accepted' = Append(accepted, [msg |-> m, at |-> now])
    PROVE  WindowCounts'
<1>0. TypeOK
  BY DEF IInv
<1>1. SenderCounts(From[m])'
  <2> DEFINE w == windows[From[m]]
  <2>1. windows'[From[m]] = Counted(From[m]) /\ ~Limited(From[m])
    BY <1>0 DEF Admit, TypeOK
  <2>2. CASE NewWindow(From[m])
    BY <2>1, <2>2, OpeningKeeps DEF Counted
  <2>3. CASE ~NewWindow(From[m])
    <3>1. w \in [count : Nat, resetAt : Nat] /\ w # None
      BY <1>0, <2>3 DEF NewWindow, TypeOK
    <3>2. w.count \in Nat /\ w.resetAt \in Nat /\ now \in Nat
      BY <1>0, <3>1 DEF TypeOK, Time
    <3>3. now <= w.resetAt /\ w.count < MaxRequests
      BY <2>1, <2>3, <3>1, <3>2 DEF NewWindow, Limited
    <3>4. /\ windows'[From[m]] # None
          /\ windows'[From[m]].resetAt = w.resetAt /\ windows'[From[m]].count = w.count + 1
      <4>1. Counted(From[m]) = [w EXCEPT !.count = w.count + 1]
        BY <2>3 DEF Counted
      <4>2. Counted(From[m]) \in [count : Nat, resetAt : Nat]
        BY <1>0, CountedType
      <4>3. QED
        BY <2>1, <3>1, <4>1, <4>2
    <3> HIDE DEF w
    <3>5. QED
      BY <3>1, <3>2, <3>3, <3>4, CountingKeeps DEF w
  <2>4. QED
    BY <2>2, <2>3
<1>2. ASSUME NEW s \in Senders, s # From[m] PROVE SenderCounts(s)'
  <2>1. windows'[s] = windows[s]
    BY <1>0, <1>2 DEF Admit, TypeOK
  <2>2. SenderCounts(s)
    BY CountsOfSenders
  <2>3. \A a, b : Within(s, a, b)' = Within(s, a, b)
    BY <1>0, <1>2, HandledWithin
  <2>4. \A i \in 1..Len(accepted') : From[accepted'[i].msg] = s =>
            i \in 1..Len(accepted) /\ accepted'[i] = accepted[i]
    <3>1. accepted \in Seq([msg : Messages, at : Nat]) /\ [msg |-> m, at |-> now] \in [msg : Messages, at : Nat]
      BY <1>0 DEF TypeOK, Time
    <3>2. CASE accepted' = Append(accepted, [msg |-> m, at |-> now])
      <4>1. /\ Len(accepted) \in Nat /\ Len(accepted') = Len(accepted) + 1
            /\ \A i \in 1..Len(accepted) : accepted'[i] = accepted[i]
            /\ accepted'[Len(accepted) + 1].msg = m
        BY <3>1, <3>2, AppendProperties, LenProperties
      <4>2. QED
        BY <1>2, <4>1
    <3>3. QED
      BY <3>2
  <2>5. ASSUME NEW a, NEW b
        PROVE  Cardinality(Within(s, a, b)') = Cardinality(Within(s, a, b))
    BY <2>3
  <2>6. QED
    BY <2>1, <2>2, <2>4, <2>5 DEF SenderCounts
<1>3. QED
  BY <1>1, <1>2, CountsOfSenders DEF WindowCounts, SenderCounts

(* A span that includes the present is covered by the open window and the  *)
(* time of one before it.                                                  *)
BurstNow ==
    \A s \in Senders : \A t \in Time :
        windows[s] # None /\ now \in t..t + Window
            => Cardinality(Within(s, t, t + Window)) <= 2 * MaxRequests

LEMMA BurstOfWindow == TypeOK /\ WindowCounts => BurstNow
<1> SUFFICES ASSUME TypeOK, WindowCounts, NEW s \in Senders, NEW t \in Time,
                    windows[s] # None, now \in t..t + Window
             PROVE  Cardinality(Within(s, t, t + Window)) <= 2 * MaxRequests
  BY DEF BurstNow
<1> DEFINE c == windows[s].resetAt  o == c - Window
<1>1. windows[s] \in [count : Nat, resetAt : Nat] /\ now \in Nat /\ t \in Nat
  BY DEF TypeOK, Time
<1>2. c \in Nat /\ o \in Int /\ windows[s].count \in Nat
  BY <1>1
<1>3. /\ o <= now /\ windows[s].count <= MaxRequests
      /\ \A i \in 1..Len(accepted) : From[accepted[i].msg] = s => accepted[i].at <= c
      /\ Cardinality(Within(s, o, c)) <= windows[s].count
      /\ Cardinality(Within(s, o - Window, o - 1)) <= MaxRequests
  BY CountsOfSenders DEF SenderCounts
<1> HIDE DEF c, o
<1>4. Cardinality(Within(s, o, c)) <= MaxRequests
  <2>1. Cardinality(Within(s, o, c)) \in Nat
    BY WithinFinite
  <2>2. QED
    BY <1>2, <1>3, <2>1
<1>5. o - Window <= t
  BY <1>1, <1>2, <1>3
<1>6. t \in Int /\ t + Window \in Int
  BY <1>1
<1>7. QED
  BY <1>2, <1>3, <1>4, <1>5, <1>6, SplitBound

(* A message that is handled: its sender's burst is what two windows hold. *)
LEMMA BurstKept ==
    ASSUME IInv, LimiterInv, TypeOK', WindowCounts', UNCHANGED now, NEW m \in Messages, Admit(m),
           \/ UNCHANGED accepted
           \/ accepted' = Append(accepted, [msg |-> m, at |-> now])
    PROVE  BurstBounded'
<1>0. TypeOK /\ now \in Nat
  BY DEF IInv, TypeOK, Time
<1>1. BurstNow'
  BY BurstOfWindow, PTL
<1> SUFFICES ASSUME NEW s \in Senders, NEW t \in Time
             PROVE  Cardinality(Within(s, t, t + Window)') <= 2 * MaxRequests
  BY BurstWithin DEF BurstBounded, Within
<1>2. CASE Within(s, t, t + Window)' = Within(s, t, t + Window)
  BY <1>2, BurstWithin DEF LimiterInv
<1>3. CASE s = From[m] /\ now \in t..t + Window
  <2>1. windows'[s] = Counted(s)
    BY <1>0, <1>3 DEF Admit, TypeOK
  <2>2. Counted(s) \in [count : Nat, resetAt : Nat]
    BY <1>0, CountedType
  <2>3. QED
    BY <1>1, <1>3, <2>1, <2>2 DEF BurstNow
<1>4. QED
  BY <1>0, <1>2, <1>3, HandledWithin

LEMMA LimiterStep == IInv /\ LimiterInv /\ [Next]_vars => LimiterInv'
<1> SUFFICES ASSUME IInv, LimiterInv, [Next]_vars PROVE LimiterInv'
  OBVIOUS
<1>0. TypeOK /\ TypeOK'
  BY TypeStep DEF IInv
<1>1. ASSUME NEW m \in Messages, RefuseReplay(m) \/ Expired(m) \/ Handle(m) PROVE LimiterInv'
  <2>1. /\ Admit(m) /\ UNCHANGED now
        /\ \/ UNCHANGED accepted
           \/ accepted' = Append(accepted, [msg |-> m, at |-> now])
    BY <1>1 DEF RefuseReplay, Expired, Handle, HandleNew, HandleUsed, Accept, Judge
  <2>2. WindowCounts'
    BY <1>0, <2>1, AdmitKeepsCounts DEF LimiterInv
  <2>3. QED
    BY <1>0, <2>1, <2>2, BurstKept DEF LimiterInv
<1>2. ASSUME UNCHANGED <<windows, accepted>>, now' \in {now, now + 1} PROVE LimiterInv'
  <2>1. BurstBounded'
    BY <1>2 DEF LimiterInv, BurstBounded
  <2>2. \A s, a, b : Within(s, a, b)' = Within(s, a, b)
    BY <1>2 DEF Within
  <2>3. ASSUME NEW s \in Senders PROVE SenderCounts(s)'
    <3>1. SenderCounts(s) /\ windows[s] \in [count : Nat, resetAt : Nat] \cup {None}
      BY <1>0, CountsOfSenders DEF LimiterInv, TypeOK
    <3>2. windows[s] # None => windows[s].resetAt - Window <= now'
      BY <1>0, <1>2, <3>1 DEF SenderCounts, TypeOK, Time
    <3>3. QED
      BY <1>2, <2>2, <3>1, <3>2 DEF SenderCounts
  <2>4. WindowCounts'
    BY <2>3, CountsOfSenders DEF WindowCounts, SenderCounts
  <2>5. QED
    BY <2>1, <2>4 DEF LimiterInv
<1>3. ASSUME NEW m \in Messages, CreateMessage(m) \/ Settle(m) \/ Throw(m)
      PROVE  LimiterInv'
  BY <1>2, <1>3 DEF CreateMessage, Settle, Throw
<1>4. CASE Tick \/ UNCHANGED vars
  BY <1>2, <1>4 DEF Tick, vars
<1>5. CASE accepted' = <<>> /\ windows' = [s \in Senders |-> None]
  <2>1. WindowCounts'
    BY <1>5 DEF WindowCounts
  <2>2. BurstBounded'
    <3>1. \A s, a, b : Within(s, a, b)' = {}
      BY <1>5 DEF Within
    <3>2. \A s, a, b : Cardinality(Within(s, a, b)') = 0
      BY <3>1, FS_EmptySet, Zenon
    <3>3. \A s \in Senders : \A t \in Time : Cardinality(Within(s, t, t + Window)') <= 2 * MaxRequests
      BY <3>2
    <3>4. QED
      BY <3>3, BurstWithin DEF BurstBounded, Within
  <2>3. QED
    BY <2>1, <2>2 DEF LimiterInv
<1>6. CASE Restart
  BY <1>5, <1>6 DEF Restart
<1>7. QED
  BY <1>1, <1>3, <1>4, <1>6 DEF Next

LEMMA LimiterInit == Init => LimiterInv
<1> SUFFICES ASSUME Init PROVE LimiterInv
  OBVIOUS
<1>1. accepted = <<>> /\ windows = [s \in Senders |-> None]
  BY DEF Init
<1>2. WindowCounts
  BY <1>1 DEF WindowCounts
<1>3. \A s, a, b : Within(s, a, b) = {}
  BY <1>1 DEF Within
<1>4. \A s, a, b : Cardinality(Within(s, a, b)) = 0
  BY <1>3, FS_EmptySet, Zenon
<1>5. BurstBounded
  BY <1>4, BurstWithin
<1>6. QED
  BY <1>2, <1>5 DEF LimiterInv

(* No sender gets more than two windows' worth of messages handled within  *)
(* the time of one, wherever that time begins (RateLimiter.check).         *)
THEOREM BurstsAreBounded == Spec => []BurstBounded
<1>1. LimiterInv => BurstBounded
  BY DEF LimiterInv
<1>2. QED
  BY <1>1, LimiterInit, LimiterStep, Invariance, PTL DEF Spec

-----------------------------------------------------------------------------
(* The relay.  Its steps are steps of MessageDelivery or leave the         *)
(* variables of that module alone.                                         *)
LEMMA RelayStep == [RelayNext]_<<vars, post>> => [Next]_vars
<1> SUFFICES ASSUME [RelayNext]_<<vars, post>> PROVE [Next]_vars
  OBVIOUS
<1>1. ASSUME NEW m \in Messages, Send(m) PROVE Next
  BY <1>1 DEF Send, Next
<1>2. ASSUME NEW m \in Messages, Fallback(m) PROVE UNCHANGED vars
  BY <1>2 DEF Fallback
<1>3. ASSUME NEW m \in Messages, Direct(m) PROVE Next
  BY <1>3 DEF Direct, Next
<1>4. ASSUME NEW m \in Messages, Forward(m) PROVE Next \/ UNCHANGED vars
  BY <1>4 DEF Forward, Handle, Next
<1>5. ASSUME NEW waiting \in SUBSET relay, Poll(waiting) PROVE UNCHANGED vars
  BY <1>5 DEF Poll
<1>6. CASE Acknowledge
  BY <1>6 DEF Acknowledge
<1>7. CASE Tick \/ Restart
  BY <1>7 DEF Next
<1>8. ASSUME NEW m \in Messages, Answered(m) PROVE UNCHANGED vars
  BY <1>8 DEF Answered
<1>9. ASSUME NEW m \in Messages, Settle(m) \/ Throw(m) PROVE Next
  BY <1>9 DEF Next
<1>10. CASE UNCHANGED <<vars, post>>
  BY <1>10
<1>11. QED
  BY <1>1, <1>2, <1>3, <1>4, <1>5, <1>6, <1>7, <1>8, <1>9, <1>10 DEF RelayNext

(* Delivery through the relay, with its polls, acknowledgements and second *)
(* copies, is delivery as MessageDelivery describes it, so what is proved  *)
(* of that holds of every agent behind a relay.                            *)
THEOREM RelayIsDelivery == RelaySpec => Spec
<1>1. RelayInit => Init
  BY DEF RelayInit
<1>2. QED
  BY <1>1, RelayStep, PTL DEF RelaySpec, Spec

(* What became of the tasks: none that was taken is lost sight of, and one *)
(* whose handler is at work was given to it in this process's life.        *)
Followed == \A m \in Messages : Taken(m) => m \in handling \cup settled \cup cut

AtWork == \A m \in handling : \E i \in 1..Len(accepted) : accepted[i].msg = m

(* What a poll is about to acknowledge was settled or cut off, and so was  *)
(* what the relay has forgotten.                                           *)
AckedWereSettled == batch # None => batch.acked \subseteq settled \cup cut

RelayInv == Followed /\ AtWork /\ AckedWereSettled /\ ForgottenWereSettled

LEMMA TakeTakes ==
    ASSUME TypeOK, NEW m \in Messages, Take(m)
    PROVE  \A x : Taken(x)' => Taken(x) \/ x = m
<1>1. /\ Len(taken) \in Nat /\ Len(taken') = Len(taken) + 1
      /\ \A k \in 1..Len(taken) : taken'[k] = taken[k]
      /\ taken'[Len(taken) + 1] = m
  BY TakeLengths
<1>2. \A k \in 1..Len(taken') : k \in 1..Len(taken) \/ k = Len(taken) + 1
  BY <1>1
<1>3. QED
  BY <1>1, <1>2 DEF Taken

(* A task's nonce is refused by the runtime only when its handler is done: *)
(* while it is at work the endpoint refuses the message before.            *)
LEMMA UsedIsDone ==
    ASSUME IInv, StoreInv, Followed, AtWork, NEW m \in Messages, HandleUsed(m)
    PROVE  m \in settled \cup cut
<1>1. Judge(m) /\ Fresh(m) /\ Has(used, m)
  BY DEF HandleUsed, Accept
<1>2. Taken(m)
  BY <1>1 DEF StoreInv, StoredWereTaken, Has, Taken
<1>3. m \notin handling
  BY <1>1, ForgottenIsStale DEF AtWork, Judge
<1>4. QED
  BY <1>2, <1>3 DEF Followed

(* What was settled or cut off stays so, in every step.                    *)
LEMMA DoneStays == [Next]_vars => settled \subseteq settled' /\ cut \subseteq cut'
<1> SUFFICES ASSUME [Next]_vars PROVE settled \subseteq settled' /\ cut \subseteq cut'
  OBVIOUS
<1>1. ASSUME NEW m \in Messages, Handle(m) PROVE UNCHANGED <<settled, cut>>
  BY <1>1 DEF Handle, HandleNew, HandleUsed, Accept
<1>2. ASSUME NEW m \in Messages, Settle(m) \/ Throw(m)
      PROVE  settled \subseteq settled' /\ cut \subseteq cut'
  BY <1>2 DEF Settle, Throw
<1>3. ASSUME NEW m \in Messages, CreateMessage(m) \/ RefuseReplay(m) \/ Expired(m)
      PROVE  UNCHANGED <<settled, cut>>
  BY <1>3 DEF CreateMessage, RefuseReplay, Expired, tasks
<1>4. CASE Tick \/ UNCHANGED vars
  BY <1>4 DEF Tick, tasks, vars
<1>5. CASE Restart
  BY <1>5 DEF Restart
<1>6. QED
  BY <1>1, <1>2, <1>3, <1>4, <1>5 DEF Next

LEMMA TasksFollowed == IInv /\ Followed /\ AtWork /\ [Next]_vars => Followed' /\ AtWork'
<1> SUFFICES ASSUME IInv, Followed, AtWork, [Next]_vars PROVE Followed' /\ AtWork'
  OBVIOUS
<1>0. TypeOK
  BY DEF IInv
<1>1. ASSUME UNCHANGED <<taken, tasks, accepted>> PROVE Followed' /\ AtWork'
  BY <1>1 DEF Followed, AtWork, Taken, tasks
<1>2. ASSUME NEW m \in Messages, Handle(m) PROVE Followed' /\ AtWork'
  <2>1. /\ accepted' = Append(accepted, [msg |-> m, at |-> now])
        /\ UNCHANGED <<settled, cut>>
    BY <1>2 DEF Handle, HandleNew, HandleUsed, Accept
  <2>2. \/ Take(m) /\ handling' = handling \cup {m}
        \/ UNCHANGED <<taken, handling>>
    BY <1>2 DEF Handle, HandleNew, HandleUsed, store
  <2>3. /\ Len(accepted) \in Nat /\ Len(accepted') = Len(accepted) + 1
        /\ \A i \in 1..Len(accepted) : accepted'[i] = accepted[i]
        /\ accepted'[Len(accepted) + 1] = [msg |-> m, at |-> now]
    BY <1>0, <2>1, AppendProperties, LenProperties DEF TypeOK, Time
  <2>4. Followed'
    <3>1. CASE Take(m) /\ handling' = handling \cup {m}
      <4>1. \A x : Taken(x)' => Taken(x) \/ x = m
        BY <1>0, <3>1, TakeTakes
      <4> QED
        BY <2>1, <3>1, <4>1 DEF Followed
    <3>2. CASE UNCHANGED <<taken, handling>>
      BY <2>1, <3>2 DEF Followed, Taken
    <3>3. QED
      BY <2>2, <3>1, <3>2
  <2>5. ASSUME NEW x \in handling'
        PROVE  \E i \in 1..Len(accepted') : accepted'[i].msg = x
    <3>1. CASE x \in handling
      BY <2>3, <3>1 DEF AtWork
    <3>2. CASE x = m
      BY <2>3, <3>2
    <3>3. QED
      BY <2>2, <2>5, <3>1, <3>2
  <2>6. QED
    BY <2>4, <2>5 DEF AtWork
<1>3. ASSUME NEW m \in Messages, Settle(m) \/ Throw(m) PROVE Followed' /\ AtWork'
  BY <1>3 DEF Settle, Throw, store, Followed, AtWork, Taken
<1>4. ASSUME NEW m \in Messages, CreateMessage(m) \/ RefuseReplay(m) \/ Expired(m)
      PROVE  UNCHANGED <<taken, tasks, accepted>>
  BY <1>4 DEF CreateMessage, RefuseReplay, Expired, store
<1>5. CASE Tick \/ UNCHANGED vars
  BY <1>1, <1>5 DEF Tick, store, vars
<1>6. CASE Restart
  BY <1>6 DEF Restart, Followed, AtWork, Taken
<1>7. QED
  BY <1>1, <1>2, <1>3, <1>4, <1>5, <1>6 DEF Next

LEMMA RelayInvStep == IInv /\ StoreInv /\ RelayInv /\ [RelayNext]_<<vars, post>> => RelayInv'
<1> SUFFICES ASSUME IInv, StoreInv, RelayInv, [RelayNext]_<<vars, post>> PROVE RelayInv'
  OBVIOUS
<1>0. Followed' /\ AtWork'
  BY RelayStep, TasksFollowed DEF RelayInv
<1>1. settled \cup cut \subseteq settled' \cup cut'
  BY RelayStep, DoneStays
<1>2. ASSUME posted' \ relay' \subseteq posted \ relay, UNCHANGED batch PROVE RelayInv'
  BY <1>0, <1>1, <1>2 DEF RelayInv, AckedWereSettled, ForgottenWereSettled
<1>3. ASSUME NEW m \in Messages, Send(m) \/ Fallback(m) \/ Direct(m) PROVE RelayInv'
  BY <1>2, <1>3 DEF Send, Fallback, Direct, Post, post
<1>4. ASSUME batch # None, UNCHANGED <<relay, posted>>, batch' # None => batch'.acked \subseteq settled' \cup cut'
      PROVE  RelayInv'
  BY <1>0, <1>1, <1>4 DEF RelayInv, AckedWereSettled, ForgottenWereSettled
<1>5. ASSUME NEW m \in Messages, Forward(m) PROVE RelayInv'
  <2>1. batch # None /\ UNCHANGED <<relay, posted>>
    BY <1>5 DEF Forward, Forwarded
  <2>2. batch.acked \subseteq settled \cup cut
    BY <2>1 DEF RelayInv, AckedWereSettled
  <2>3. CASE HandleNew(m) /\ batch' = [batch EXCEPT !.asked = m]
    BY <1>1, <1>4, <2>1, <2>2, <2>3
  <2>4. CASE HandleUsed(m) /\ \E well \in BOOLEAN : Forwarded(m, well)
    <3>1. m \in settled \cup cut
      BY <2>4, UsedIsDone DEF RelayInv
    <3>2. batch'.acked \subseteq batch.acked \cup {m}
      BY <2>4 DEF Forwarded
    <3>3. QED
      BY <1>1, <1>4, <2>1, <2>2, <3>1, <3>2
  <2>5. CASE Forwarded(m, FALSE)
    BY <1>1, <1>4, <2>1, <2>2, <2>5 DEF Forwarded
  <2>6. QED
    BY <1>5, <2>3, <2>4, <2>5 DEF Forward
<1>6. ASSUME NEW m \in Messages, Answered(m) PROVE RelayInv'
  <2>1. batch # None /\ UNCHANGED <<relay, posted>>
    BY <1>6 DEF Answered, Forwarded
  <2>2. batch'.acked \subseteq batch.acked \cup settled
    BY <1>6 DEF Answered, Forwarded
  <2>3. QED
    BY <1>1, <1>4, <2>1, <2>2 DEF RelayInv, AckedWereSettled
<1>7. ASSUME NEW waiting \in SUBSET relay, Poll(waiting) PROVE RelayInv'
  BY <1>0, <1>1, <1>7 DEF Poll, RelayInv, AckedWereSettled, ForgottenWereSettled
<1>8. CASE Acknowledge
  BY <1>0, <1>1, <1>8 DEF Acknowledge, RelayInv, AckedWereSettled, ForgottenWereSettled
<1>9. CASE UNCHANGED post
  BY <1>2, <1>9 DEF post
<1>10. CASE Restart /\ batch' = None /\ UNCHANGED <<relay, posted>>
  BY <1>0, <1>1, <1>10 DEF RelayInv, AckedWereSettled, ForgottenWereSettled
<1>11. QED
  BY <1>3, <1>5, <1>6, <1>7, <1>8, <1>9, <1>10 DEF RelayNext

(* The relay forgets only what the runtime has settled, or threw on or     *)
(* died over with the nonce saved: no refusal, late answer, handler still  *)
(* at work or other restart costs a message (bin/atel.mjs, pollRelay).     *)
THEOREM NothingLostByRelay == RelaySpec => []ForgottenWereSettled
<1>1. RelayInit => RelayInv
  BY DEF RelayInit, Init, RelayInv, Followed, AtWork, Taken, AckedWereSettled,
         ForgottenWereSettled
<1>2. Spec => []IInv /\ []StoreInv
  BY StoreInit, StoreStep, TypeCorrect, Invariance, PTL DEF Spec
<1>3. RelayInv => ForgottenWereSettled
  BY DEF RelayInv
<1>4. QED
  BY <1>1, <1>2, <1>3, RelayInvStep, RelayIsDelivery, PTL DEF RelaySpec

-----------------------------------------------------------------------------
(* The trust score service: TrustService, for any summaries and bounds on  *)
(* submissions, failing saves and starts.                                  *)
CONSTANTS Before, Absent, Whole, MaxSends

VARIABLES graphFile, sent, requests

HIDE MessageDeliveryAssumption

Service == INSTANCE TrustService

Logged == Seq(Summaries)

Reports == {"nothing", "waiting", "synced", "unsynced"}

ServiceTyped ==
    /\ up \in BOOLEAN
    /\ summaries \in Logged /\ scored \in Logged /\ graph \in Logged
    /\ scores \in {Service!NoFile, Service!TornFile} \cup [state : {Whole}, of : Logged]
    /\ \A q \in requests : q[1] \in Summaries
    /\ told \in [Summaries -> Reports]

DownIsEmpty == ~up => summaries = <<>> /\ scored = <<>> /\ graph = <<>>

Lists(log, s) == \E i \in 1..Len(log) : log[i] = s

(* What was synced is in the file, and in memory as well: a start may make *)
(* of either the other.                                                    *)
SyncedInBoth ==
    ~lost => \A s \in Summaries : told[s] = "synced" =>
        /\ scores.state = Torn \/ Lists(scores.of, s)
        /\ up => Lists(summaries, s)

ServiceInv == ServiceTyped /\ DownIsEmpty /\ MemoryIsOfSummaries /\ SyncedInBoth

-----------------------------------------------------------------------------
LEMMA NoneLogged == <<>> \in Logged
BY DEF Logged

LEMMA ListsAppend ==
    ASSUME NEW log \in Logged, NEW s \in Summaries
    PROVE  /\ Append(log, s) \in Logged
           /\ Lists(Append(log, s), s)
           /\ \A r : Lists(log, r) => Lists(Append(log, s), r)
<1>1. /\ Append(log, s) \in Logged /\ Len(Append(log, s)) = Len(log) + 1
      /\ Append(log, s)[Len(log) + 1] = s
      /\ \A i \in 1..Len(log) : Append(log, s)[i] = log[i]
  BY AppendProperties DEF Logged
<1>2. Len(log) \in Nat
  BY LenProperties DEF Logged
<1>3. \A i \in 1..Len(log) : i \in 1..Len(Append(log, s))
  BY <1>1, <1>2
<1>4. Len(log) + 1 \in 1..Len(Append(log, s))
  BY <1>1, <1>2
<1>5. QED
  BY <1>1, <1>3, <1>4 DEF Lists

(* A listed summary is counted at least once. *)
LEMMA ListedIsCounted ==
    ASSUME NEW log \in Logged, NEW s, Lists(log, s)
    PROVE  Copies(log, s) > 0
<1> DEFINE at == {i \in 1..Len(log) : log[i] = s}
<1>1. IsFiniteSet(1..Len(log))
  <2>1. Len(log) \in Nat
    BY LenProperties DEF Logged
  <2>2. QED
    BY <2>1, FS_Interval
<1>2. IsFiniteSet(at)
  BY <1>1, FS_Subset
<1>3. at # {}
  BY DEF Lists
<1>4. Cardinality(at) \in Nat /\ Cardinality(at) # 0
  BY <1>2, <1>3, FS_CardinalityType, FS_EmptySet
<1>5. QED
  BY <1>4 DEF Copies

LEMMA ServiceInit == ASSUME Service!ConstantsFit, Service!Init PROVE ServiceInv
<1> USE DEF Service!Init, Service!Holds, Service!NoFile
<1>1. ServiceTyped
  <2>1. summaries \in Logged /\ scored \in Logged /\ graph \in Logged
    BY DEF Service!ConstantsFit, Logged
  <2>2. scores = Service!NoFile \/ scores \in [state : {Whole}, of : Logged]
    BY <2>1
  <2>3. told \in [Summaries -> Reports]
    BY DEF Reports
  <2>4. QED
    BY <2>1, <2>2, <2>3 DEF ServiceTyped
<1>2. DownIsEmpty /\ MemoryIsOfSummaries
  BY DEF DownIsEmpty, MemoryIsOfSummaries
<1>3. SyncedInBoth
  BY DEF SyncedInBoth
<1>4. QED
  BY <1>1, <1>2, <1>3 DEF ServiceInv

(* What an answer makes of the reports: one of them changes at most.       *)
LEMMA ToldOne ==
    ASSUME ServiceTyped, NEW q \in requests, NEW outcome \in {"synced", "unsynced"},
           Service!Tell(q, outcome)
    PROVE  /\ (\A r \in requests' : r[1] \in Summaries)
           /\ told' \in [Summaries -> Reports]
           /\ \A s \in Summaries : told'[s] = "synced" =>
                 told[s] = "synced" \/ (s = q[1] /\ outcome = "synced")
<1>1. q[1] \in Summaries
  BY DEF ServiceTyped
<1>2. (\A r \in requests' : r[1] \in Summaries)
  BY DEF ServiceTyped, Service!Tell
<1>3. told' = [told EXCEPT ![q[1]] = outcome] \/ told' = told
  BY DEF Service!Tell
<1>4. told \in [Summaries -> Reports] /\ outcome \in Reports
  BY DEF ServiceTyped, Reports
<1>5. told' \in [Summaries -> Reports]
  BY <1>3, <1>4
<1>6. QED
  BY <1>1, <1>2, <1>3, <1>4, <1>5

(* The file after a save that got anywhere lists what it did, or is torn.  *)
LEMMA SavedLists ==
    ASSUME Service!ConstantsFit, ServiceTyped, NEW s \in Summaries,
           \/ Service!SavedInPart(Append(summaries, s))
           \/ scores' = Service!Holds(Append(summaries, s))
    PROVE  /\ scores' \in {Service!NoFile, Service!TornFile} \cup [state : {Whole}, of : Logged]
           /\ \A r : /\ scores.state = Torn \/ Lists(scores.of, r)
                     /\ Lists(summaries, r)
                     => scores'.state = Torn \/ Lists(scores'.of, r)
<1>1. summaries \in Logged
  BY DEF ServiceTyped
<1>2. \/ scores' = scores
      \/ scores' = Service!TornFile
      \/ scores' = Service!Holds(Append(summaries, s))
  BY DEF Service!SavedInPart
<1>3. CASE scores' = scores
  BY <1>3 DEF ServiceTyped
<1>4. CASE scores' = Service!TornFile
  BY <1>4 DEF Service!TornFile
<1>5. CASE scores' = Service!Holds(Append(summaries, s))
  BY <1>1, <1>5, ListsAppend DEF Service!Holds
<1>6. QED
  BY <1>2, <1>3, <1>4, <1>5

LEMMA TakeKeeps ==
    ASSUME ServiceInv, up, NEW s \in Summaries, Service!Take(s), UNCHANGED <<up, behind>>
    PROVE  /\ summaries' \in Logged /\ scored' \in Logged /\ graph' \in Logged
           /\ DownIsEmpty' /\ MemoryIsOfSummaries'
           /\ summaries' = Append(summaries, s)
<1>1. summaries \in Logged /\ scored \in Logged /\ graph \in Logged
  BY DEF ServiceInv, ServiceTyped
<1>2. summaries' = Append(summaries, s) /\ scored' = Append(scored, s) /\ graph' = Append(graph, s)
  BY DEF Service!Take
<1>3. summaries' \in Logged /\ scored' \in Logged /\ graph' \in Logged
  BY <1>1, <1>2, ListsAppend
<1>4. DownIsEmpty' /\ MemoryIsOfSummaries'
  BY <1>2 DEF ServiceInv, DownIsEmpty, MemoryIsOfSummaries
<1>5. QED
  BY <1>2, <1>3, <1>4

LEMMA HandleKeeps ==
    ASSUME Service!ConstantsFit, ServiceInv, NEW q \in requests, Service!Handle(q)
    PROVE  ServiceInv'
<1>1. q[1] \in Summaries /\ up /\ up' = up
  BY DEF ServiceInv, ServiceTyped, Service!Handle
<1>2. Service!Take(q[1]) /\ UNCHANGED <<up, behind, lost>> /\ Service!Tell(q, "synced")
  BY DEF Service!Handle, Service!history
<1>3. /\ summaries' \in Logged /\ scored' \in Logged /\ graph' \in Logged
      /\ DownIsEmpty' /\ MemoryIsOfSummaries' /\ summaries' = Append(summaries, q[1])
  BY <1>1, <1>2, TakeKeeps
<1>4. scores' = Service!Holds(summaries')
  BY DEF Service!Handle
<1>5. /\ (\A r \in requests' : r[1] \in Summaries) /\ told' \in [Summaries -> Reports]
      /\ \A s \in Summaries : told'[s] = "synced" => told[s] = "synced" \/ s = q[1]
  BY <1>2, ToldOne DEF ServiceInv
<1>6. ServiceTyped'
  BY <1>1, <1>3, <1>4, <1>5 DEF ServiceInv, ServiceTyped, Service!Holds, Service!NoFile, Service!TornFile
<1>7. SyncedInBoth'
  <2> SUFFICES ASSUME ~lost', NEW s \in Summaries, told'[s] = "synced" PROVE Lists(summaries', s)
    BY <1>4 DEF SyncedInBoth, Service!Holds
  <2>1. summaries \in Logged
    BY DEF ServiceInv, ServiceTyped
  <2>2. CASE s = q[1]
    BY <1>1, <1>3, <2>1, <2>2, ListsAppend
  <2>3. CASE told[s] = "synced"
    <3>1. Lists(summaries, s)
      BY <1>1, <1>2, <2>3 DEF ServiceInv, SyncedInBoth
    <3>2. QED
      BY <1>1, <1>3, <2>1, <3>1, ListsAppend
  <2>4. QED
    BY <1>5, <2>2, <2>3
<1>8. QED
  BY <1>3, <1>6, <1>7 DEF ServiceInv

LEMMA HandleUnsavedKeeps ==
    ASSUME Service!ConstantsFit, ServiceInv, NEW q \in requests, Service!HandleUnsaved(q)
    PROVE  ServiceInv'
<1>1. q[1] \in Summaries /\ up /\ up' = up
  BY DEF ServiceInv, ServiceTyped, Service!HandleUnsaved
<1>2. /\ Service!Take(q[1]) /\ UNCHANGED <<up, behind, lost>> /\ Service!Tell(q, "unsynced")
      /\ Service!SavedInPart(Append(summaries, q[1]))
  BY DEF Service!HandleUnsaved, Service!history
<1>3. /\ summaries' \in Logged /\ scored' \in Logged /\ graph' \in Logged
      /\ DownIsEmpty' /\ MemoryIsOfSummaries' /\ summaries' = Append(summaries, q[1])
  BY <1>1, <1>2, TakeKeeps
<1>4. /\ scores' \in {Service!NoFile, Service!TornFile} \cup [state : {Whole}, of : Logged]
      /\ \A r : /\ scores.state = Torn \/ Lists(scores.of, r)
                /\ Lists(summaries, r)
                => scores'.state = Torn \/ Lists(scores'.of, r)
  BY <1>1, <1>2, SavedLists DEF ServiceInv
<1>5. /\ (\A r \in requests' : r[1] \in Summaries) /\ told' \in [Summaries -> Reports]
      /\ \A s \in Summaries : told'[s] = "synced" => told[s] = "synced"
  BY <1>2, ToldOne DEF ServiceInv
<1>6. ServiceTyped'
  BY <1>1, <1>3, <1>4, <1>5 DEF ServiceInv, ServiceTyped, Service!NoFile, Service!TornFile
<1>7. SyncedInBoth'
  <2> SUFFICES ASSUME ~lost', NEW s \in Summaries, told'[s] = "synced"
               PROVE  (scores'.state = Torn \/ Lists(scores'.of, s)) /\ Lists(summaries', s)
    BY DEF SyncedInBoth
  <2>1. summaries \in Logged
    BY DEF ServiceInv, ServiceTyped
  <2>2. (scores.state = Torn \/ Lists(scores.of, s)) /\ Lists(summaries, s)
    BY <1>1, <1>2, <1>5 DEF ServiceInv, SyncedInBoth
  <2>3. QED
    BY <1>1, <1>3, <1>4, <2>1, <2>2, ListsAppend
<1>8. QED
  BY <1>3, <1>6, <1>7 DEF ServiceInv

LEMMA CrashKeeps ==
    ASSUME Service!ConstantsFit, ServiceInv,
           Service!Crash \/ \E q \in requests : Service!CrashInSave(q)
    PROVE  ServiceInv'
<1>1. /\ up /\ up' = FALSE /\ summaries' = <<>> /\ scored' = <<>> /\ graph' = <<>> /\ UNCHANGED lost
  BY DEF Service!Crash, Service!CrashInSave, Service!Forget, Service!history, ServiceInv, ServiceTyped
<1> DEFINE Harmless ==
              /\ scores' \in {Service!NoFile, Service!TornFile} \cup [state : {Whole}, of : Logged]
              /\ \A r : /\ scores.state = Torn \/ Lists(scores.of, r)
                        /\ Lists(summaries, r)
                        => scores'.state = Torn \/ Lists(scores'.of, r)
              /\ (\A r \in requests' : r[1] \in Summaries) /\ told' \in [Summaries -> Reports]
              /\ \A s \in Summaries : told'[s] = "synced" => told[s] = "synced"
<1>2. Harmless
  <2>1. CASE Service!Crash
    BY <2>1 DEF Service!Crash, Service!files, Service!exchange, ServiceInv, ServiceTyped
  <2>2. ASSUME NEW q \in requests, Service!CrashInSave(q) PROVE Harmless
    <3>1. /\ q[1] \in Summaries /\ Service!Tell(q, "unsynced")
          /\ \/ Service!SavedInPart(Append(summaries, q[1]))
             \/ scores' = Service!Holds(Append(summaries, q[1]))
      BY <2>2 DEF Service!CrashInSave, ServiceInv, ServiceTyped
    <3>2. ServiceTyped
      BY DEF ServiceInv
    <3>3. /\ scores' \in {Service!NoFile, Service!TornFile} \cup [state : {Whole}, of : Logged]
          /\ \A r : /\ scores.state = Torn \/ Lists(scores.of, r)
                    /\ Lists(summaries, r)
                    => scores'.state = Torn \/ Lists(scores'.of, r)
      BY <3>1, <3>2, SavedLists
    <3>4. /\ (\A r \in requests' : r[1] \in Summaries) /\ told' \in [Summaries -> Reports]
          /\ \A s \in Summaries : told'[s] = "synced" => told[s] = "synced"
      BY <3>1, <3>2, ToldOne
    <3>5. QED
      BY <3>3, <3>4
  <2>3. QED
    BY <2>1, <2>2
<1>3. ServiceTyped'
  BY <1>1, <1>2, NoneLogged DEF ServiceTyped
<1>4. DownIsEmpty' /\ MemoryIsOfSummaries'
  BY <1>1 DEF DownIsEmpty, MemoryIsOfSummaries
<1>5. SyncedInBoth'
  BY <1>1, <1>2 DEF SyncedInBoth, ServiceInv
<1>6. QED
  BY <1>3, <1>4, <1>5 DEF ServiceInv

(* A file that is read is whole; one that is not is torn, or nothing was   *)
(* ever saved, so that nothing was reported as synced.                     *)
LEMMA StartKeeps ==
    ASSUME Service!ConstantsFit, ServiceInv, Service!Start
    PROVE  ServiceInv'
<1>1. /\ up' = TRUE /\ UNCHANGED <<scores, graphFile, requests, told>>
      /\ lost' = (lost \/ (~up /\ scores.state = Torn))
      /\ behind' = (graphFile # Whole /\ (behind \/ summaries' # summaries \/ ~up))
  BY DEF Service!Start, Service!files, Service!exchange
<1>2. /\ summaries' = IF scores.state = Whole THEN scores.of ELSE summaries
      /\ scored' = IF scores.state = Whole THEN summaries' ELSE scored
      /\ graph' = IF graphFile = Whole THEN summaries' ELSE graph
  BY DEF Service!Start, Service!LoadData
<1>3. scores.state = Whole => scores.of \in Logged
  BY DEF ServiceInv, ServiceTyped, Service!NoFile, Service!TornFile, Service!ConstantsFit
<1>4. ServiceTyped'
  BY <1>1, <1>2, <1>3 DEF ServiceInv, ServiceTyped, Service!NoFile, Service!TornFile
<1>5. DownIsEmpty'
  BY <1>1 DEF DownIsEmpty
<1>6. scored = summaries
  BY DEF ServiceInv, DownIsEmpty, MemoryIsOfSummaries
<1>7. MemoryIsOfSummaries'
  BY <1>1, <1>2, <1>6 DEF ServiceInv, MemoryIsOfSummaries
<1>8. SyncedInBoth'
  <2> SUFFICES ASSUME ~lost', NEW s \in Summaries, told[s] = "synced"
               PROVE  (scores.state = Torn \/ Lists(scores.of, s)) /\ Lists(summaries', s)
    BY <1>1 DEF SyncedInBoth
  <2>1. ~lost /\ (up \/ scores.state # Torn)
    BY <1>1 DEF ServiceInv, ServiceTyped
  <2>2. (scores.state = Torn \/ Lists(scores.of, s)) /\ (up => Lists(summaries, s))
    BY <2>1 DEF ServiceInv, SyncedInBoth
  <2>3. CASE scores.state = Whole
    BY <1>2, <2>2, <2>3 DEF Service!ConstantsFit
  <2>4. CASE scores.state = Absent
    <3>1. scores.of = <<>>
      BY <2>4 DEF ServiceInv, ServiceTyped, Service!NoFile, Service!TornFile, Service!ConstantsFit
    <3>2. ~Lists(scores.of, s)
      BY <3>1 DEF Lists
    <3>3. QED
      BY <2>2, <2>4, <3>2 DEF Service!ConstantsFit
  <2>5. CASE scores.state = Torn
    BY <1>2, <2>1, <2>2, <2>5 DEF Service!ConstantsFit
  <2>6. QED
    BY <2>3, <2>4, <2>5 DEF ServiceInv, ServiceTyped, Service!NoFile, Service!TornFile
<1>9. QED
  BY <1>4, <1>5, <1>7, <1>8 DEF ServiceInv

LEMMA SubmitKeeps ==
    ASSUME ServiceInv, NEW s \in Summaries, Service!Submit(s) \/ Service!Timeout(s)
    PROVE  ServiceInv'
<1>1. /\ UNCHANGED <<up, summaries, scored, graph, scores, lost, behind>>
      /\ \A q \in requests' : q \in requests \/ q[1] = s
  BY DEF Service!Submit, Service!Timeout, Service!memory, Service!files, Service!history
<1>2. told' = [told EXCEPT ![s] = "waiting"] \/ told' = [told EXCEPT ![s] = "unsynced"]
  BY DEF Service!Submit, Service!Timeout
<1>3. told' \in [Summaries -> Reports] /\ \A r \in Summaries : told'[r] = "synced" => told[r] = "synced"
  BY <1>2 DEF ServiceInv, ServiceTyped, Reports
<1>4. QED
  BY <1>1, <1>3 DEF ServiceInv, ServiceTyped, DownIsEmpty, MemoryIsOfSummaries, SyncedInBoth

LEMMA ServiceStep ==
    ASSUME Service!ConstantsFit, ServiceInv, [Service!Next]_Service!vars
    PROVE  ServiceInv'
<1>1. ASSUME NEW s \in Summaries, Service!Submit(s) \/ Service!Timeout(s) PROVE ServiceInv'
  BY <1>1, SubmitKeeps
<1>2. ASSUME NEW q \in requests, Service!Handle(q) PROVE ServiceInv'
  BY <1>2, HandleKeeps
<1>3. ASSUME NEW q \in requests, Service!HandleUnsaved(q) PROVE ServiceInv'
  BY <1>3, HandleUnsavedKeeps
<1>4. CASE Service!Crash \/ \E q \in requests : Service!CrashInSave(q)
  BY <1>4, CrashKeeps
<1>5. CASE Service!Start
  BY <1>5, StartKeeps
<1>6. CASE UNCHANGED Service!vars
  BY <1>6 DEF ServiceInv, ServiceTyped, DownIsEmpty, MemoryIsOfSummaries, SyncedInBoth, Service!vars,
              Service!memory, Service!files, Service!exchange, Service!history
<1>7. QED
  BY <1>1, <1>2, <1>3, <1>4, <1>5, <1>6 DEF Service!Next

LEMMA ServiceInvHolds == Service!ConstantsFit => (Service!Spec => []ServiceInv)
<1> SUFFICES ASSUME Service!ConstantsFit PROVE Service!Spec => []ServiceInv
  OBVIOUS
<1>1. Service!Init => ServiceInv
  BY ServiceInit
<1>2. ServiceInv /\ [Service!Next]_Service!vars => ServiceInv'
  BY ServiceStep
<1>3. QED
  BY <1>1, <1>2, PTL DEF Service!Spec

(* The scores and the graph of the service are made of the summaries it    *)
(* lists, each once and in their order, however often it stopped and       *)
(* whatever became of its files (MemoryIsOfSummaries).                     *)
THEOREM MemoryMatches == Service!ConstantsFit => (Service!Spec => []MemoryIsOfSummaries)
<1> SUFFICES ASSUME Service!ConstantsFit PROVE Service!Spec => []MemoryIsOfSummaries
  OBVIOUS
<1>1. ServiceInv => MemoryIsOfSummaries
  BY DEF ServiceInv
<1>2. QED
  BY <1>1, ServiceInvHolds, PTL

(* What was reported as synced is not lost by failing saves, crashes and   *)
(* late answers, unless a start finds the file torn (SyncedKept).          *)
THEOREM SyncedStays == Service!ConstantsFit => (Service!Spec => []SyncedKept)
<1> SUFFICES ASSUME Service!ConstantsFit PROVE Service!Spec => []SyncedKept
  OBVIOUS
<1>1. ASSUME ServiceInv PROVE SyncedKept
  <2> SUFFICES ASSUME ~lost, NEW s \in Summaries, told[s] = "synced"
               PROVE  IF up THEN Copies(summaries, s) > 0
                      ELSE scores.state = Torn \/ Copies(scores.of, s) > 0
    BY DEF SyncedKept
  <2>1. (scores.state = Torn \/ Lists(scores.of, s)) /\ (up => Lists(summaries, s))
    BY <1>1 DEF ServiceInv, SyncedInBoth
  <2>2. summaries \in Logged /\ scores.of \in Logged
    BY <1>1, NoneLogged DEF ServiceInv, ServiceTyped, Service!NoFile, Service!TornFile
  <2>3. QED
    BY <2>1, <2>2, ListedIsCounted
<1>2. QED
  BY <1>1, ServiceInvHolds, PTL
-----------------------------------------------------------------------------
(* The searches of the trust graph.  A level of the search holds exactly   *)
(* the simple walks of its length that avoid the goal, each with the trust *)
(* carried along it; so what is found is the trust of the paths.           *)
(* A set of numbers has a least one. *)
LEMMA LeastOf ==
    ASSUME NEW T, T \subseteq Nat, T # {}
    PROVE  \E x \in T : \A y \in T : x <= y
<1>1. IsWellFoundedOn({ss \in Nat \X Nat : ss[1] < ss[2]}, Nat)
  BY NatLessThanWellFounded DEF OpToRel
<1>2. PICK x \in T : \A y \in T : ~ (<<y, x>> \in {ss \in Nat \X Nat : ss[1] < ss[2]})
  BY <1>1, WFMin, Zenon
<1>3. \A y \in T : ~ (y < x)
  BY <1>2
<1> QED
  BY <1>3

(* The levels of a search and the trust carried along a path are functions *)
(* defined by recursion; `arg` is the goal of the one, the path of the     *)
(* other.                                                                  *)
LevelAfter(trusts, goal, level) ==
    UNION {{Extended(trusts, item, v) : v \in Onward(trusts, item) \ {goal}} : item \in level}

OneMore(what, trusts, arg, k, x) ==
    IF what = "level" THEN LevelAfter(trusts, arg, x)
    ELSE Times(x, trusts[<<arg[k - 1], arg[k]>>])

Recursive(f, what, trusts, arg, first, n) ==
    f = [k \in 1..n |-> IF k = 1 THEN first ELSE OneMore(what, trusts, arg, k, f[k - 1])]

LEMMA RecursiveExists ==
    ASSUME NEW what, NEW trusts, NEW arg, NEW first, NEW n \in Nat
    PROVE  \E f : Recursive(f, what, trusts, arg, first, n)
<1> DEFINE T == {m \in Nat : ~ \E f : Recursive(f, what, trusts, arg, first, m)}
<1> SUFFICES ASSUME T # {} PROVE FALSE
  OBVIOUS
<1>1. PICK m \in T : \A y \in T : m <= y
  BY LeastOf
<1>2. m # 0
  <2>1. PICK f : f = [k \in 1..0 |-> first]
    OBVIOUS
  <2>2. \A k \in 1..0 : FALSE
    OBVIOUS
  <2>3. Recursive(f, what, trusts, arg, first, 0)
    BY <2>1, <2>2 DEF Recursive
  <2>4. QED
    BY <1>1, <2>3
<1>3. m - 1 \in Nat /\ m - 1 \notin T
  BY <1>1, <1>2
<1>4. PICK g : Recursive(g, what, trusts, arg, first, m - 1)
  BY <1>3
<1>5. PICK f : f = [k \in 1..m |-> IF k # m THEN g[k] ELSE IF m = 1 THEN first
                                  ELSE OneMore(what, trusts, arg, m, g[m - 1])]
  OBVIOUS
<1>6. ASSUME NEW k \in 1..m
      PROVE  f[k] = IF k = 1 THEN first ELSE OneMore(what, trusts, arg, k, f[k - 1])
  <2>1. CASE k = m
    BY <1>1, <1>5, <2>1
  <2>2. CASE k # m
    <3>1. k \in 1..m - 1 /\ (k # 1 => k - 1 \in 1..m /\ k - 1 # m)
      BY <1>1, <2>2
    <3>2. g[k] = IF k = 1 THEN first ELSE OneMore(what, trusts, arg, k, g[k - 1])
      BY <1>4, <3>1 DEF Recursive
    <3>3. QED
      BY <1>5, <2>2, <3>1, <3>2
  <2>3. QED
    BY <2>1, <2>2
<1>7. f = [k \in 1..m |-> f[k]]
  BY <1>5
<1>8. Recursive(f, what, trusts, arg, first, m)
  BY <1>6, <1>7 DEF Recursive
<1>9. QED
  BY <1>1, <1>8

Levels(trusts, from, goal) ==
    CHOOSE level :
        level = [n \in 1..MaxDepth + 1 |->
                    IF n = 1 THEN {[path |-> <<from>>, trust |-> Unit]}
                    ELSE UNION {{Extended(trusts, item, v) : v \in Onward(trusts, item) \ {goal}} :
                                    item \in level[n - 1]}]

LEMMA LevelsAre ==
    ASSUME NEW trusts, NEW from, NEW goal
    PROVE  Recursive(Levels(trusts, from, goal), "level", trusts, goal,
                     {[path |-> <<from>>, trust |-> Unit]}, MaxDepth + 1)
<1>1. MaxDepth + 1 \in Nat
  BY GraphAssumption
<1>2. PICK f : Recursive(f, "level", trusts, goal, {[path |-> <<from>>, trust |-> Unit]}, MaxDepth + 1)
  BY <1>1, RecursiveExists
<1>3. \A k, x : OneMore("level", trusts, goal, k, x) = LevelAfter(trusts, goal, x)
  BY DEF OneMore
<1>4. /\ f = [n \in 1..MaxDepth + 1 |-> f[n]]
      /\ \A n \in 1..MaxDepth + 1 :
            f[n] = IF n = 1 THEN {[path |-> <<from>>, trust |-> Unit]}
                   ELSE OneMore("level", trusts, goal, n, f[n - 1])
  BY <1>2 DEF Recursive
<1>5. \A n \in 1..MaxDepth + 1 :
         f[n] = IF n = 1 THEN {[path |-> <<from>>, trust |-> Unit]} ELSE LevelAfter(trusts, goal, f[n - 1])
  BY <1>3, <1>4
<1>6. f = [n \in 1..MaxDepth + 1 |->
              IF n = 1 THEN {[path |-> <<from>>, trust |-> Unit]} ELSE LevelAfter(trusts, goal, f[n - 1])]
  BY <1>4, <1>5
<1>7. Levels(trusts, from, goal) =
         [n \in 1..MaxDepth + 1 |->
              IF n = 1 THEN {[path |-> <<from>>, trust |-> Unit]}
              ELSE LevelAfter(trusts, goal, Levels(trusts, from, goal)[n - 1])]
  BY <1>6, Zenon DEF Levels, LevelAfter
<1> DEFINE L == Levels(trusts, from, goal)
<1> HIDE DEF L
<1>8. /\ L = [n \in 1..MaxDepth + 1 |-> L[n]]
      /\ \A n \in 1..MaxDepth + 1 :
            L[n] = IF n = 1 THEN {[path |-> <<from>>, trust |-> Unit]} ELSE LevelAfter(trusts, goal, L[n - 1])
  BY <1>7 DEF L
<1>9. ASSUME NEW n \in 1..MaxDepth + 1
      PROVE  L[n] = IF n = 1 THEN {[path |-> <<from>>, trust |-> Unit]}
                    ELSE OneMore("level", trusts, goal, n, L[n - 1])
  <2>1. OneMore("level", trusts, goal, n, L[n - 1]) = LevelAfter(trusts, goal, L[n - 1])
    BY <1>3
  <2>2. QED
    BY <1>8, <2>1
<1>10. L = [n \in 1..MaxDepth + 1 |->
              IF n = 1 THEN {[path |-> <<from>>, trust |-> Unit]}
              ELSE OneMore("level", trusts, goal, n, L[n - 1])]
  BY <1>8, <1>9
<1>11. QED
  BY <1>10 DEF Recursive, L

LEMMA QueueIs ==
    ASSUME NEW trusts, NEW from, NEW goal
    PROVE  Queue(trusts, from, goal) = UNION {Levels(trusts, from, goal)[n] : n \in 1..MaxDepth + 1}
BY DEF Queue, Levels

(* The trust along a path, which is a list `p` of `n` agents.              *)
Carried(trusts, p, c) ==
    c = [i \in 1..Len(p) |-> IF i = 1 THEN Unit ELSE Times(c[i - 1], trusts[<<p[i - 1], p[i]>>])]

LEMMA AlongIs ==
    ASSUME NEW trusts, NEW S, NEW p \in Seq(S)
    PROVE  \E c : Carried(trusts, p, c) /\ Along(trusts, p) = c[Len(p)]
<1>1. Len(p) \in Nat
  BY LenProperties
<1>2. \E c : c = [i \in 1..Len(p) |-> IF i = 1 THEN Unit ELSE Times(c[i - 1], trusts[<<p[i - 1], p[i]>>])]
  <2>1. PICK f : Recursive(f, "trust", trusts, p, Unit, Len(p))
    BY <1>1, RecursiveExists
  <2>2. \A k, x : OneMore("trust", trusts, p, k, x) = Times(x, trusts[<<p[k - 1], p[k]>>])
    BY DEF OneMore
  <2>3. f = [i \in 1..Len(p) |-> IF i = 1 THEN Unit ELSE Times(f[i - 1], trusts[<<p[i - 1], p[i]>>])]
    BY <2>1, <2>2 DEF Recursive
  <2>4. QED
    BY <2>3
<1> DEFINE C == CHOOSE c : c = [i \in 1..Len(p) |-> IF i = 1 THEN Unit ELSE Times(c[i - 1], trusts[<<p[i - 1], p[i]>>])]
<1>3. C = [i \in 1..Len(p) |-> IF i = 1 THEN Unit ELSE Times(C[i - 1], trusts[<<p[i - 1], p[i]>>])]
  BY <1>2
<1>4. Along(trusts, p) = C[Len(p)]
  BY DEF Along
<1> HIDE DEF C
<1>5. QED
  BY <1>3, <1>4 DEF Carried

LEMMA AlongOne ==
    ASSUME NEW trusts, NEW S, NEW a \in S
    PROVE  Along(trusts, <<a>>) = Unit
<1>1. <<a>> \in Seq(S) /\ Len(<<a>>) = 1
  OBVIOUS
<1>2. PICK c : Carried(trusts, <<a>>, c) /\ Along(trusts, <<a>>) = c[1]
  BY <1>1, AlongIs
<1>3. c[1] = Unit
  BY <1>1, <1>2 DEF Carried
<1>4. QED
  BY <1>2, <1>3

LEMMA AlongNext ==
    ASSUME NEW trusts, NEW S, NEW p \in Seq(S), NEW v \in S, p # <<>>
    PROVE  Along(trusts, Append(p, v)) = Times(Along(trusts, p), trusts[<<p[Len(p)], v>>])
<1> DEFINE q == Append(p, v)
           n == Len(p)
<1>1. n \in Nat /\ n # 0 /\ q \in Seq(S) /\ Len(q) = n + 1 /\ q[n + 1] = v /\ \A i \in 1..n : q[i] = p[i]
  BY EmptySeq, LenProperties, AppendProperties
<1> HIDE DEF q
<1>2. PICK c : Carried(trusts, p, c) /\ Along(trusts, p) = c[n]
  BY AlongIs
<1>3. PICK d : Carried(trusts, q, d) /\ Along(trusts, q) = d[n + 1]
  BY <1>1, AlongIs
<1>4. \A i \in 1..n : c[i] = IF i = 1 THEN Unit ELSE Times(c[i - 1], trusts[<<p[i - 1], p[i]>>])
  BY <1>2 DEF Carried
<1>5. \A i \in 1..n + 1 : d[i] = IF i = 1 THEN Unit ELSE Times(d[i - 1], trusts[<<q[i - 1], q[i]>>])
  BY <1>1, <1>3 DEF Carried
<1> HIDE DEF n
<1>6. c[n] = d[n]
  <2> DEFINE T == {i \in Nat : i \in 1..n /\ c[i] # d[i]}
  <2> SUFFICES ASSUME T # {} PROVE FALSE
    BY <1>1
  <2>1. PICK i \in T : \A j \in T : i <= j
    BY LeastOf
  <2>2. i \in 1..n /\ i \in 1..n + 1
    BY <1>1, <2>1
  <2>3. CASE i = 1
    BY <1>4, <1>5, <2>1, <2>2, <2>3
  <2>4. CASE i # 1
    <3>1. i - 1 \in Nat /\ i - 1 \in 1..n /\ i - 1 \notin T
      BY <1>1, <2>1, <2>2, <2>4
    <3>2. c[i - 1] = d[i - 1] /\ q[i - 1] = p[i - 1] /\ q[i] = p[i]
      BY <1>1, <2>2, <3>1
    <3>3. c[i] = Times(c[i - 1], trusts[<<p[i - 1], p[i]>>])
      BY <1>4, <2>2, <2>4
    <3>4. d[i] = Times(d[i - 1], trusts[<<q[i - 1], q[i]>>])
      BY <1>5, <2>2, <2>4
    <3>5. QED
      BY <2>1, <3>2, <3>3, <3>4
  <2>5. QED
    BY <2>3, <2>4
<1>7. d[n + 1] = Times(d[n], trusts[<<q[n], q[n + 1]>>])
  <2>1. n + 1 \in 1..n + 1 /\ n + 1 # 1 /\ (n + 1) - 1 = n
    BY <1>1
  <2>2. QED
    BY <1>5, <2>1
<1>8. q[n] = p[n]
  BY <1>1
<1>9. QED
  BY <1>1, <1>2, <1>3, <1>6, <1>7, <1>8 DEF q, n

(* What stands in the queue: the simple walks from `from` that avoid the   *)
(* goal, with the trust along each.                                        *)
Walk(trusts, nodes, from, goal, p) ==
    /\ p \in Seq(nodes) /\ p # <<>> /\ p[1] = from
    /\ \A i \in 1..Len(p) : p[i] # goal
    /\ \A i, j \in 1..Len(p) : p[i] = p[j] => i = j
    /\ \A i \in 1..Len(p) - 1 : <<p[i], p[i + 1]>> \in DOMAIN trusts

Item(trusts, p) == [path |-> p, trust |-> Along(trusts, p)]

(* A walk goes on to an agent if it is a longer walk.                      *)
LEMMA WalkOn ==
    ASSUME NEW trusts, NEW nodes, DOMAIN trusts \subseteq nodes \X nodes, NEW from, NEW goal,
           NEW p, Walk(trusts, nodes, from, goal, p), NEW v, v # goal
    PROVE  v \in Onward(trusts, Item(trusts, p)) <=> v \in nodes /\ Walk(trusts, nodes, from, goal, Append(p, v))
<1> DEFINE n == Len(p)
           q == Append(p, v)
<1>1. p \in Seq(nodes) /\ n \in Nat /\ n # 0 /\ p[n] \in nodes
  <2>1. p \in Seq(nodes) /\ p # <<>>
    BY DEF Walk
  <2>2. n \in Nat /\ n # 0
    BY <2>1, EmptySeq, LenProperties
  <2>3. QED
    BY <2>1, <2>2, ElementOfSeq
<1>2. v \in Onward(trusts, Item(trusts, p)) <=>
         <<p[n], v>> \in DOMAIN trusts /\ \A i \in 1..n : p[i] # v
  <2>1. Last(p) = p[n] /\ (Contains(p, v) <=> \E i \in 1..n : p[i] = v)
    BY DEF Last, Contains
  <2>2. ASSUME NEW l \in DOMAIN trusts, l[1] = p[n], l[2] = v PROVE l = <<p[n], v>>
    BY <2>2
  <2>3. v \in Onward(trusts, Item(trusts, p)) <=>
           \E l \in DOMAIN trusts : l[1] = Last(p) /\ l[2] = v /\ ~Contains(p, v)
    BY DEF Onward, Item
  <2>4. QED
    BY <2>1, <2>2, <2>3
<1>3. ASSUME v \in nodes
      PROVE  q \in Seq(nodes) /\ Len(q) = n + 1 /\ q[n + 1] = v /\ \A i \in 1..n : q[i] = p[i]
  BY <1>1, <1>3, AppendProperties
<1> HIDE DEF q
<1>4. ASSUME <<p[n], v>> \in DOMAIN trusts, \A i \in 1..n : p[i] # v
      PROVE  v \in nodes /\ Walk(trusts, nodes, from, goal, q)
  <2>1. v \in nodes
    BY <1>4
  <2>2. q \in Seq(nodes) /\ Len(q) = n + 1 /\ q[n + 1] = v /\ \A i \in 1..n : q[i] = p[i]
    BY <1>3, <2>1
  <2>3. q # <<>> /\ q[1] = from
    BY <1>1, <2>2, EmptySeq DEF Walk
  <2>4. ASSUME NEW i \in 1..Len(q) PROVE q[i] # goal
    <3>1. i = n + 1 \/ i \in 1..n
      BY <1>1, <2>2
    <3>2. QED
      BY <2>2, <3>1 DEF Walk
  <2>5. ASSUME NEW i \in 1..Len(q), NEW j \in 1..Len(q), q[i] = q[j] PROVE i = j
    <3>1. (i = n + 1 \/ i \in 1..n) /\ (j = n + 1 \/ j \in 1..n)
      BY <1>1, <2>2
    <3>2. QED
      BY <1>4, <2>2, <2>5, <3>1 DEF Walk
  <2>6. ASSUME NEW i \in 1..Len(q) - 1 PROVE <<q[i], q[i + 1]>> \in DOMAIN trusts
    <3>1. i \in 1..n /\ (i = n \/ (i \in 1..n - 1 /\ i + 1 \in 1..n))
      BY <1>1, <2>2
    <3>2. QED
      BY <1>4, <2>2, <3>1 DEF Walk
  <2>7. QED
    BY <2>1, <2>2, <2>3, <2>4, <2>5, <2>6 DEF Walk
<1>5. ASSUME v \in nodes, Walk(trusts, nodes, from, goal, q)
      PROVE  <<p[n], v>> \in DOMAIN trusts /\ \A i \in 1..n : p[i] # v
  <2>1. Len(q) = n + 1 /\ q[n + 1] = v /\ \A i \in 1..n : q[i] = p[i]
    BY <1>3, <1>5
  <2>2. n \in 1..Len(q) - 1 /\ n \in 1..n
    BY <1>1, <2>1
  <2>3. <<q[n], q[n + 1]>> \in DOMAIN trusts
    BY <1>5, <2>2 DEF Walk
  <2>4. ASSUME NEW i \in 1..n, p[i] = v PROVE FALSE
    <3>1. i \in 1..Len(q) /\ n + 1 \in 1..Len(q) /\ q[i] = q[n + 1] /\ i # n + 1
      BY <1>1, <2>1, <2>4
    <3>2. QED
      BY <1>5, <3>1 DEF Walk
  <2>5. QED
    BY <2>1, <2>2, <2>3, <2>4
<1>6. QED
  BY <1>2, <1>4, <1>5 DEF q

(* A walk of more than one agent goes on from a shorter one.               *)
GoesOn(trusts, nodes, from, goal, q) ==
    \E p, v : /\ Walk(trusts, nodes, from, goal, p) /\ v \in nodes /\ v # goal
              /\ q = Append(p, v) /\ Len(p) = Len(q) - 1

LEMMA WalkBack ==
    ASSUME NEW trusts, NEW nodes, NEW from, NEW goal,
           NEW q, Walk(trusts, nodes, from, goal, q), Len(q) # 1
    PROVE  GoesOn(trusts, nodes, from, goal, q)
<1> DEFINE n == Len(q) - 1
           p == SubSeq(q, 1, n)
           v == q[n + 1]
<1>1. q \in Seq(nodes) /\ Len(q) \in Nat /\ n \in Nat /\ n # 0 /\ n + 1 = Len(q)
  <2>1. q \in Seq(nodes) /\ q # <<>>
    BY DEF Walk
  <2>2. Len(q) \in Nat /\ Len(q) # 0
    BY <2>1, EmptySeq, LenProperties
  <2>3. QED
    BY <2>1, <2>2
<1>2. p \in Seq(nodes) /\ Len(p) = n /\ \A i \in 1..n : p[i] = q[i]
  <2>1. \A i \in 1..n : q[i] \in nodes
    BY <1>1, ElementOfSeq
  <2>2. QED
    BY <1>1, <2>1, SubSeqProperties
<1>3. v \in nodes /\ v # goal
  BY <1>1, ElementOfSeq DEF Walk
<1> HIDE DEF n, p, v
<1>4. q = Append(p, v)
  <2>1. Append(p, v) \in Seq(nodes) /\ Len(Append(p, v)) = n + 1 /\ Append(p, v)[n + 1] = v
        /\ \A i \in 1..n : Append(p, v)[i] = p[i]
    BY <1>2, <1>3, AppendProperties
  <2>2. ASSUME NEW i \in 1..Len(q) PROVE q[i] = Append(p, v)[i]
    <3>1. i = n + 1 \/ i \in 1..n
      BY <1>1
    <3>2. QED
      BY <1>2, <2>1, <3>1 DEF v
  <2>3. QED
    BY <1>1, <2>1, <2>2, SeqEqual
<1>5. Walk(trusts, nodes, from, goal, p)
  <2>1. \A i \in 1..n : i \in 1..Len(q)
    BY <1>1
  <2>2. p # <<>> /\ p[1] = from
    BY <1>1, <1>2, EmptySeq DEF Walk
  <2>3. \A i \in 1..Len(p) - 1 : i \in 1..n /\ i + 1 \in 1..n /\ i \in 1..Len(q) - 1
    BY <1>1, <1>2
  <2>4. QED
    BY <1>1, <1>2, <2>1, <2>2, <2>3 DEF Walk
<1>6. QED
  BY <1>2, <1>3, <1>4, <1>5 DEF GoesOn, n

LEMMA LevelHolds ==
    ASSUME NEW trusts, NEW goal, NEW level, NEW x
    PROVE  x \in LevelAfter(trusts, goal, level) <=>
              \E item \in level : \E v \in Onward(trusts, item) : v # goal /\ x = Extended(trusts, item, v)
<1>1. x \in LevelAfter(trusts, goal, level) <=>
         \E item \in level : x \in {Extended(trusts, item, v) : v \in Onward(trusts, item) \ {goal}}
  BY DEF LevelAfter
<1>2. ASSUME NEW item
      PROVE  x \in {Extended(trusts, item, v) : v \in Onward(trusts, item) \ {goal}} <=>
                \E v \in Onward(trusts, item) : v # goal /\ x = Extended(trusts, item, v)
  OBVIOUS
<1>3. QED
  BY <1>1, <1>2

(* The `n`-th level holds the walks of `n` agents.                         *)
IsWalk(trusts, nodes, from, goal, n, x) ==
    \E p : Walk(trusts, nodes, from, goal, p) /\ Len(p) = n /\ x = Item(trusts, p)

LEMMA LevelIsWalks ==
    ASSUME NEW trusts, NEW nodes, DOMAIN trusts \subseteq nodes \X nodes, NEW from \in nodes, NEW goal, goal # from,
           NEW n \in 1..MaxDepth + 1, NEW x
    PROVE  x \in Levels(trusts, from, goal)[n] <=> IsWalk(trusts, nodes, from, goal, n, x)
<1> DEFINE L == Levels(trusts, from, goal)
           Right(k, y) == y \in L[k] <=>
              \E p : Walk(trusts, nodes, from, goal, p) /\ Len(p) = k /\ y = Item(trusts, p)
           T == {k \in Nat : k \in 1..MaxDepth + 1 /\ ~ \A y : Right(k, y)}
<1>0. Recursive(L, "level", trusts, goal, {[path |-> <<from>>, trust |-> Unit]}, MaxDepth + 1)
  BY LevelsAre
<1> HIDE DEF L
<1>1. \A k \in 1..MaxDepth + 1 :
         L[k] = IF k = 1 THEN {[path |-> <<from>>, trust |-> Unit]} ELSE LevelAfter(trusts, goal, L[k - 1])
  BY <1>0 DEF Recursive, OneMore
<1> SUFFICES ASSUME T # {} PROVE FALSE
  <2>1. n \in Nat /\ n \notin T
    BY GraphAssumption
  <2>2. QED
    BY <2>1 DEF L, IsWalk
<1>2. PICK k \in T : \A j \in T : k <= j
  BY LeastOf
<1>3. PICK y : ~Right(k, y)
  BY <1>2
<1>4. k \in 1..MaxDepth + 1 /\ MaxDepth \in Nat
  BY <1>2, GraphAssumption
<1>5. CASE k = 1
  <2>1. y \in L[k] <=> y = [path |-> <<from>>, trust |-> Unit]
    BY <1>1, <1>4, <1>5
  <2>2. Item(trusts, <<from>>) = [path |-> <<from>>, trust |-> Unit]
    BY AlongOne DEF Item
  <2>3. Walk(trusts, nodes, from, goal, <<from>>) /\ Len(<<from>>) = 1
    BY DEF Walk
  <2>4. ASSUME NEW p, Walk(trusts, nodes, from, goal, p), Len(p) = 1 PROVE p = <<from>>
    <3>1. p \in Seq(nodes) /\ p[1] = from
      BY <2>4 DEF Walk
    <3>2. <<from>> \in Seq(nodes) /\ Len(<<from>>) = 1 /\ <<from>>[1] = from
      OBVIOUS
    <3>3. \A i \in 1..1 : i = 1
      OBVIOUS
    <3>4. QED
      BY <2>4, <3>1, <3>2, <3>3, SeqEqual
  <2>5. QED
    BY <1>3, <1>5, <2>1, <2>2, <2>3, <2>4
<1>6. CASE k # 1
  <2>1. k - 1 \in Nat /\ k - 1 \in 1..MaxDepth + 1 /\ k - 1 \notin T
    BY <1>2, <1>4, <1>6
  <2>2. \A z : Right(k - 1, z)
    BY <2>1
  <2>3. y \in L[k] <=> \E item \in L[k - 1] : \E v \in Onward(trusts, item) : v # goal /\ y = Extended(trusts, item, v)
    BY <1>1, <1>4, <1>6, LevelHolds
  <2>4. ASSUME NEW p, Walk(trusts, nodes, from, goal, p), NEW v \in nodes
        PROVE  /\ Extended(trusts, Item(trusts, p), v) = Item(trusts, Append(p, v))
               /\ Len(Append(p, v)) = Len(p) + 1
    <3>1. p \in Seq(nodes) /\ p # <<>>
      BY <2>4 DEF Walk
    <3>2. Along(trusts, Append(p, v)) = Times(Along(trusts, p), trusts[<<p[Len(p)], v>>])
      BY <2>4, <3>1, AlongNext
    <3>3. QED
      BY <3>1, <3>2, AppendProperties DEF Extended, Item, Last
  <2>5. ASSUME y \in L[k]
        PROVE  \E q : Walk(trusts, nodes, from, goal, q) /\ Len(q) = k /\ y = Item(trusts, q)
    <3>1. PICK item \in L[k - 1] : \E v \in Onward(trusts, item) : v # goal /\ y = Extended(trusts, item, v)
      BY <2>3, <2>5
    <3>2. PICK v \in Onward(trusts, item) : v # goal /\ y = Extended(trusts, item, v)
      BY <3>1
    <3>3. PICK p : Walk(trusts, nodes, from, goal, p) /\ Len(p) = k - 1 /\ item = Item(trusts, p)
      BY <2>2, <3>1
    <3>4. v \in nodes /\ Walk(trusts, nodes, from, goal, Append(p, v))
      BY <3>2, <3>3, WalkOn
    <3>5. y = Item(trusts, Append(p, v)) /\ Len(Append(p, v)) = k
      BY <1>4, <2>4, <3>2, <3>3, <3>4
    <3>6. QED
      BY <3>4, <3>5
  <2>6. ASSUME NEW q, Walk(trusts, nodes, from, goal, q), Len(q) = k, y = Item(trusts, q)
        PROVE  y \in L[k]
    <3>0. Len(q) # 1
      BY <1>6, <2>6
    <3>1. PICK p, v : /\ Walk(trusts, nodes, from, goal, p) /\ v \in nodes /\ v # goal
                      /\ q = Append(p, v) /\ Len(p) = Len(q) - 1
      <4>1. GoesOn(trusts, nodes, from, goal, q)
        BY <2>6, <3>0, WalkBack
      <4>2. QED
        BY <4>1 DEF GoesOn
    <3>2. v \in Onward(trusts, Item(trusts, p))
      BY <2>6, <3>1, WalkOn
    <3>3. Item(trusts, p) \in L[k - 1]
      BY <2>2, <2>6, <3>1
    <3>4. y = Extended(trusts, Item(trusts, p), v)
      BY <2>4, <2>6, <3>1
    <3>5. QED
      BY <2>3, <3>1, <3>2, <3>3, <3>4
  <2>7. QED
    BY <1>3, <2>5, <2>6
<1>7. QED
  BY <1>5, <1>6

(* The paths through n others. *)
Through(trusts, nodes, from, to, n) ==
    {p \in {<<from>> \o q \o <<to>> : q \in [1..n -> nodes \ {from, to}]} :
        /\ IsInjective(p)
        /\ \A i \in 1..n + 1 : <<p[i], p[i + 1]>> \in DOMAIN trusts}

(* The walk before the last agent of a path through `n` others.            *)
Completes(trusts, nodes, from, to, n, p) ==
    \E w : /\ Walk(trusts, nodes, from, to, w) /\ Len(w) = n + 1 /\ p = Append(w, to)
           /\ <<w[Len(w)], to>> \in DOMAIN trusts

LEMMA PathIsWalk ==
    ASSUME NEW trusts, NEW nodes, NEW from \in nodes, NEW to \in nodes, from # to, NEW n \in Nat,
           NEW p, p \in Through(trusts, nodes, from, to, n)
    PROVE  Completes(trusts, nodes, from, to, n, p)
<1>1. PICK q \in [1..n -> nodes \ {from, to}] : p = <<from>> \o q \o <<to>>
  BY DEF Through
<1>2. IsInjective(p) /\ \A i \in 1..n + 1 : <<p[i], p[i + 1]>> \in DOMAIN trusts
  BY DEF Through
<1> DEFINE w == <<from>> \o q
<1>3. q \in Seq(nodes) /\ Len(q) = n /\ \A i \in 1..n : q[i] \in nodes \ {from, to}
  <2>1. q \in [1..n -> nodes]
    OBVIOUS
  <2>2. q \in Seq(nodes)
    BY <2>1, SeqDef
  <2>3. QED
    BY <2>2, LenProperties
<1>4. /\ w \in Seq(nodes) /\ Len(w) = n + 1 /\ w[1] = from
      /\ \A i \in 2..n + 1 : w[i] = q[i - 1]
  <2>1. <<from>> \in Seq(nodes) /\ Len(<<from>>) = 1 /\ <<from>>[1] = from
    OBVIOUS
  <2>2. w \in Seq(nodes) /\ Len(w) = 1 + n /\ \A i \in 1..1 + n : w[i] = IF i <= 1 THEN <<from>>[i] ELSE q[i - 1]
    BY <1>3, <2>1, ConcatProperties
  <2>3. \A i \in 2..n + 1 : i \in 1..1 + n /\ ~(i <= 1)
    OBVIOUS
  <2>4. 1 \in 1..1 + n
    OBVIOUS
  <2>5. QED
    BY <2>1, <2>2, <2>3, <2>4
<1> HIDE DEF w
<1>5. p = w \o <<to>>
  BY <1>1 DEF w
<1>6. p = Append(w, to)
  BY <1>4, <1>5, AppendIsConcat
<1>7. /\ p \in Seq(nodes) /\ Len(p) = n + 2 /\ p[n + 2] = to
      /\ \A i \in 1..n + 1 : p[i] = w[i]
  BY <1>4, <1>6, AppendProperties
<1>8. Walk(trusts, nodes, from, to, w)
  <2>1. w # <<>>
    BY <1>4, EmptySeq
  <2>2. ASSUME NEW i \in 1..Len(w) PROVE w[i] # to
    <3>1. CASE i = 1
      BY <1>4, <3>1
    <3>2. CASE i # 1
      <4>1. i \in 2..n + 1 /\ i - 1 \in 1..n
        BY <1>4, <3>2
      <4>2. QED
        BY <1>3, <1>4, <4>1
    <3>3. QED
      BY <3>1, <3>2
  <2>3. ASSUME NEW i \in 1..Len(w), NEW j \in 1..Len(w), w[i] = w[j] PROVE i = j
    <3>1. i \in 1..n + 1 /\ j \in 1..n + 1 /\ i \in DOMAIN p /\ j \in DOMAIN p
      BY <1>4, <1>7, LenProperties
    <3>2. QED
      BY <1>2, <1>7, <2>3, <3>1 DEF IsInjective
  <2>4. ASSUME NEW i \in 1..Len(w) - 1 PROVE <<w[i], w[i + 1]>> \in DOMAIN trusts
    <3>1. i \in 1..n + 1 /\ i + 1 \in 1..n + 1
      BY <1>4
    <3>2. QED
      BY <1>2, <1>7, <3>1
  <2>5. QED
    BY <1>4, <2>1, <2>2, <2>3, <2>4 DEF Walk
<1>9. <<w[n + 1], to>> \in DOMAIN trusts
  <2>1. n + 1 \in 1..n + 1 /\ (n + 1) + 1 = n + 2
    OBVIOUS
  <2>2. QED
    BY <1>2, <1>7, <2>1
<1>10. QED
  BY <1>4, <1>6, <1>8, <1>9 DEF Completes

LEMMA WalkIsPath ==
    ASSUME NEW trusts, NEW nodes, NEW from \in nodes, NEW to \in nodes, from # to,
           NEW w, Walk(trusts, nodes, from, to, w), <<w[Len(w)], to>> \in DOMAIN trusts,
           NEW n \in Nat, Len(w) = n + 1
    PROVE  Append(w, to) \in Through(trusts, nodes, from, to, n)
<1> DEFINE p == Append(w, to)
           q == [i \in 1..n |-> w[i + 1]]
<1>1. w \in Seq(nodes) /\ w[1] = from
  BY DEF Walk
<1>2. /\ p \in Seq(nodes) /\ Len(p) = n + 2 /\ p[n + 2] = to
      /\ \A i \in 1..n + 1 : p[i] = w[i]
  BY <1>1, AppendProperties
<1>3. q \in [1..n -> nodes \ {from, to}]
  <2>1. ASSUME NEW i \in 1..n PROVE w[i + 1] \in nodes \ {from, to}
    <3>1. i + 1 \in 1..Len(w) /\ 1 \in 1..Len(w) /\ i + 1 # 1
      OBVIOUS
    <3>2. w[i + 1] \in nodes
      BY <1>1, <3>1, ElementOfSeq
    <3>3. QED
      BY <3>1, <3>2 DEF Walk
  <2>2. QED
    BY <2>1
<1>4. q \in Seq(nodes) /\ Len(q) = n /\ \A i \in 1..n : q[i] = w[i + 1]
  <2>1. q \in [1..n -> nodes]
    BY <1>3
  <2>2. q \in Seq(nodes)
    BY <2>1, SeqDef
  <2>3. QED
    BY <2>2, LenProperties
<1> HIDE DEF p, q
<1>5. w = <<from>> \o q
  <2>1. <<from>> \in Seq(nodes) /\ Len(<<from>>) = 1 /\ <<from>>[1] = from
    OBVIOUS
  <2>2. /\ <<from>> \o q \in Seq(nodes) /\ Len(<<from>> \o q) = 1 + n
        /\ \A i \in 1..1 + n : (<<from>> \o q)[i] = IF i <= 1 THEN <<from>>[i] ELSE q[i - 1]
    BY <1>4, <2>1, ConcatProperties
  <2>3. ASSUME NEW i \in 1..Len(w) PROVE w[i] = (<<from>> \o q)[i]
    <3>1. CASE i = 1
      BY <1>1, <2>1, <2>2, <2>3, <3>1
    <3>2. CASE i # 1
      <4>1. i \in 1..1 + n /\ ~(i <= 1) /\ i - 1 \in 1..n /\ (i - 1) + 1 = i
        BY <3>2
      <4>2. QED
        BY <1>4, <2>2, <4>1
    <3>3. QED
      BY <3>1, <3>2
  <2>4. QED
    BY <1>1, <2>2, <2>3, SeqEqual
<1>6. p = <<from>> \o q \o <<to>>
  BY <1>1, <1>5, AppendIsConcat DEF p
<1>7. IsInjective(p)
  <2> SUFFICES ASSUME NEW i \in 1..n + 2, NEW j \in 1..n + 2, p[i] = p[j] PROVE i = j
    BY <1>2, LenProperties DEF IsInjective
  <2>1. (i = n + 2 \/ i \in 1..n + 1) /\ (j = n + 2 \/ j \in 1..n + 1)
    OBVIOUS
  <2>2. \A k \in 1..n + 1 : w[k] # to
    BY DEF Walk
  <2>3. \A k, l \in 1..n + 1 : w[k] = w[l] => k = l
    BY DEF Walk
  <2>4. QED
    BY <1>2, <2>1, <2>2, <2>3
<1>8. ASSUME NEW i \in 1..n + 1 PROVE <<p[i], p[i + 1]>> \in DOMAIN trusts
  <2>1. CASE i = n + 1
    BY <1>2, <2>1
  <2>2. CASE i # n + 1
    <3>1. i \in 1..n + 1 /\ i + 1 \in 1..n + 1 /\ i \in 1..Len(w) - 1
      BY <2>2
    <3>2. QED
      BY <1>2, <3>1 DEF Walk
  <2>3. QED
    BY <2>1, <2>2
<1>9. QED
  BY <1>3, <1>6, <1>7, <1>8 DEF Through, p

PathTrusts(trusts, nodes, from, to, least) ==
    UNION {{PathTrust(trusts, p) : p \in Through(trusts, nodes, from, to, n)} : n \in least..MaxDepth}

(* The search finds the trust of each path through `least` to MaxDepth     *)
(* others, and nothing else.                                               *)
LEMMA FoundArePaths ==
    ASSUME NEW trusts, NEW nodes, DOMAIN trusts \subseteq nodes \X nodes,
           NEW from \in nodes, NEW to \in nodes, from # to, NEW least \in Nat
    PROVE  Found(trusts, from, to, least + 1) = PathTrusts(trusts, nodes, from, to, least)
<1> DEFINE Of(x, w) == /\ Walk(trusts, nodes, from, to, w) /\ Len(w) \in least + 1..MaxDepth + 1
                       /\ <<w[Len(w)], to>> \in DOMAIN trusts
                       /\ x = PathTrust(trusts, Append(w, to))
<1>0. MaxDepth \in Nat
  BY GraphAssumption
<1>1. ASSUME NEW w, Walk(trusts, nodes, from, to, w)
      PROVE  /\ w \in Seq(nodes) /\ w # <<>> /\ Len(w) \in Nat /\ Len(w) # 0
             /\ Item(trusts, w).path = w
             /\ (to \in Onward(trusts, Item(trusts, w)) <=> <<w[Len(w)], to>> \in DOMAIN trusts)
             /\ Decayed(Extended(trusts, Item(trusts, w), to).trust, Len(w))
                = PathTrust(trusts, Append(w, to))
  <2>1. w \in Seq(nodes) /\ w # <<>> /\ Len(w) \in Nat /\ Len(w) # 0 /\ Item(trusts, w).path = w
    BY <1>1, EmptySeq, LenProperties DEF Walk, Item
  <2>2. Last(w) = w[Len(w)] /\ ~Contains(w, to)
    BY <1>1 DEF Last, Contains, Walk
  <2>3. to \in Onward(trusts, Item(trusts, w)) <=>
           \E l \in DOMAIN trusts : l[1] = Last(w) /\ l[2] = to /\ ~Contains(w, to)
    BY <2>1 DEF Onward
  <2>4. ASSUME NEW l \in DOMAIN trusts, l[1] = w[Len(w)], l[2] = to PROVE l = <<w[Len(w)], to>>
    BY <2>4
  <2>5. to \in Onward(trusts, Item(trusts, w)) <=> <<w[Len(w)], to>> \in DOMAIN trusts
    BY <2>2, <2>3, <2>4
  <2>6. Along(trusts, Append(w, to)) = Times(Along(trusts, w), trusts[<<w[Len(w)], to>>])
    BY <2>1, AlongNext
  <2>7. Extended(trusts, Item(trusts, w), to).trust = Along(trusts, Append(w, to))
    BY <2>2, <2>6 DEF Extended, Item
  <2>8. Len(Append(w, to)) - 1 = Len(w)
    BY <2>1, AppendProperties
  <2>9. PathTrust(trusts, Append(w, to)) = Decayed(Along(trusts, Append(w, to)), Len(w))
    BY <2>8 DEF PathTrust
  <2>10. QED
    BY <2>1, <2>5, <2>7, <2>9
<1>2. ASSUME NEW item
      PROVE  item \in Queue(trusts, from, to) <=>
                \E w : /\ Walk(trusts, nodes, from, to, w) /\ Len(w) \in 1..MaxDepth + 1
                       /\ item = Item(trusts, w)
  <2>1. item \in Queue(trusts, from, to) <=> \E n \in 1..MaxDepth + 1 : item \in Levels(trusts, from, to)[n]
    BY QueueIs
  <2>2. ASSUME NEW n \in 1..MaxDepth + 1
        PROVE  item \in Levels(trusts, from, to)[n] <=>
                  \E w : Walk(trusts, nodes, from, to, w) /\ Len(w) = n /\ item = Item(trusts, w)
    <3>1. item \in Levels(trusts, from, to)[n] <=> IsWalk(trusts, nodes, from, to, n, item)
      BY LevelIsWalks
    <3>2. QED
      BY <3>1 DEF IsWalk
  <2>3. QED
    BY <2>1, <2>2
<1> HIDE DEF Of
<1>3. ASSUME NEW x PROVE x \in Found(trusts, from, to, least + 1) <=> \E w : Of(x, w)
  <2>1. x \in Found(trusts, from, to, least + 1) <=>
           \E item \in Queue(trusts, from, to) :
              /\ Len(item.path) >= least + 1 /\ to \in Onward(trusts, item)
              /\ x = Decayed(Extended(trusts, item, to).trust, Len(item.path))
    BY DEF Found
  <2>2. ASSUME NEW item \in Queue(trusts, from, to), Len(item.path) >= least + 1, to \in Onward(trusts, item),
               x = Decayed(Extended(trusts, item, to).trust, Len(item.path))
        PROVE  \E w : Of(x, w)
    <3>1. PICK w : Walk(trusts, nodes, from, to, w) /\ Len(w) \in 1..MaxDepth + 1 /\ item = Item(trusts, w)
      BY <1>2
    <3>2. Item(trusts, w).path = w /\ Len(w) \in least + 1..MaxDepth + 1
      <4>1. item.path = w
        BY <1>1, <3>1
      <4>2. Len(w) >= least + 1 /\ Len(w) \in 1..MaxDepth + 1
        BY <2>2, <3>1, <4>1
      <4>3. QED
        BY <1>0, <3>1, <4>1, <4>2
    <3>3. Of(x, w)
      BY <1>1, <2>2, <3>1, <3>2 DEF Of
    <3>4. QED
      BY <3>3
  <2>3. ASSUME NEW w, Of(x, w) PROVE x \in Found(trusts, from, to, least + 1)
    <3>1. /\ Walk(trusts, nodes, from, to, w) /\ Len(w) \in least + 1..MaxDepth + 1
          /\ <<w[Len(w)], to>> \in DOMAIN trusts /\ x = PathTrust(trusts, Append(w, to))
      BY <2>3 DEF Of
    <3>2. Len(w) \in 1..MaxDepth + 1 /\ Len(w) >= least + 1
      BY <1>0, <3>1
    <3>3. Item(trusts, w) \in Queue(trusts, from, to)
      BY <1>2, <3>1, <3>2
    <3>4. /\ Item(trusts, w).path = w /\ to \in Onward(trusts, Item(trusts, w))
          /\ x = Decayed(Extended(trusts, Item(trusts, w), to).trust, Len(w))
      BY <1>1, <3>1
    <3>5. QED
      BY <2>1, <3>2, <3>3, <3>4
  <2>4. QED
    BY <2>1, <2>2, <2>3
<1>4. ASSUME NEW x
      PROVE  x \in PathTrusts(trusts, nodes, from, to, least) <=> \E w : Of(x, w)
  <2>1. x \in PathTrusts(trusts, nodes, from, to, least)
        <=> \E n \in least..MaxDepth : \E p \in Through(trusts, nodes, from, to, n) : x = PathTrust(trusts, p)
    BY DEF PathTrusts
  <2>2. ASSUME NEW n \in least..MaxDepth, NEW p \in Through(trusts, nodes, from, to, n), x = PathTrust(trusts, p)
        PROVE  \E w : Of(x, w)
    <3>1. n \in Nat
      BY <1>0
    <3>2. PICK w : /\ Walk(trusts, nodes, from, to, w) /\ Len(w) = n + 1 /\ p = Append(w, to)
                   /\ <<w[Len(w)], to>> \in DOMAIN trusts
      <4>1. Completes(trusts, nodes, from, to, n, p)
        BY <3>1, PathIsWalk
      <4>2. QED
        BY <4>1 DEF Completes
    <3>3. n + 1 \in least + 1..MaxDepth + 1
      BY <1>0
    <3>4. Of(x, w)
      BY <2>2, <3>2, <3>3 DEF Of
    <3>5. QED
      BY <3>4
  <2>3. ASSUME NEW w, Of(x, w)
        PROVE  \E n \in least..MaxDepth : \E p \in Through(trusts, nodes, from, to, n) : x = PathTrust(trusts, p)
    <3>1. /\ Walk(trusts, nodes, from, to, w) /\ Len(w) \in least + 1..MaxDepth + 1
          /\ <<w[Len(w)], to>> \in DOMAIN trusts /\ x = PathTrust(trusts, Append(w, to))
      BY <2>3 DEF Of
    <3>2. Len(w) - 1 \in least..MaxDepth /\ Len(w) - 1 \in Nat /\ Len(w) = (Len(w) - 1) + 1
      BY <1>0, <3>1
    <3>3. Append(w, to) \in Through(trusts, nodes, from, to, Len(w) - 1)
      BY <3>1, <3>2, WalkIsPath
    <3>4. QED
      BY <3>1, <3>2, <3>3
  <2>4. QED
    BY <2>1, <2>2, <2>3
<1>5. QED
  BY <1>3, <1>4

(* A path of so many hops goes through one other less. *)
LEMMA BestIs ==
    ASSUME NEW trusts, NEW nodes, NEW from, NEW to, NEW least \in Nat
    PROVE  BestPath(trusts, nodes, from, to, least + 1, MaxDepth + 1)
             = Best(PathTrusts(trusts, nodes, from, to, least))
<1>1. MaxDepth \in Nat
  BY GraphAssumption
<1>2. ASSUME NEW n \in Nat
      PROVE  Paths(trusts, nodes, from, to, n + 1) = Through(trusts, nodes, from, to, n)
  <2>1. (n + 1) - 1 = n
    OBVIOUS
  <2>2. QED
    BY <2>1 DEF Paths, Through
<1> DEFINE At(h) == {PathTrust(trusts, p) : p \in Paths(trusts, nodes, from, to, h)}
           Of(n) == {PathTrust(trusts, p) : p \in Through(trusts, nodes, from, to, n)}
<1>3. ASSUME NEW n \in least..MaxDepth PROVE At(n + 1) = Of(n) /\ n + 1 \in least + 1..MaxDepth + 1
  BY <1>1, <1>2
<1>4. ASSUME NEW h \in least + 1..MaxDepth + 1
      PROVE  h - 1 \in least..MaxDepth /\ At(h) = Of(h - 1)
  <2>1. h - 1 \in least..MaxDepth /\ (h - 1) + 1 = h
    BY <1>1
  <2>2. QED
    BY <1>3, <2>1
<1> HIDE DEF At, Of
<1>5. UNION {At(h) : h \in least + 1..MaxDepth + 1} = UNION {Of(n) : n \in least..MaxDepth}
  BY <1>3, <1>4
<1>6. QED
  BY <1>5 DEF BestPath, PathTrusts, At, Of

(* PathsAreBest is about the graph at one time only.                       *)
LEMMA SearchesAreBest ==
    ASSUME graph \in Seq(Summaries)
    PROVE  PathsAreBest
<1> DEFINE log   == [i \in 1..Len(graph) |-> About[graph[i]]]
           nodes == Nodes(log)
           far   == MaxDepth + 1
<1> SUFFICES ASSUME NEW scene \in {x.scene : x \in ToSet(log)}, NEW from \in nodes, NEW to \in nodes, from # to
             PROVE  /\ indirectTrust(Trusts(log, scene), from, to) = BestPath(Trusts(log, scene), nodes, from, to, 2, far)
                    /\ strongestPath(Trusts(log, scene), from, to) = BestPath(Trusts(log, scene), nodes, from, to, 1, far)
  BY DEF PathsAreBest, Finds
<1> HIDE DEF log
<1> DEFINE trusts == Trusts(log, scene)
<1>1. DOMAIN trusts \subseteq nodes \X nodes
  <2>1. DOMAIN trusts = Links(log, scene)
    BY DEF Trusts
  <2>2. QED
    BY <2>1 DEF Links, Nodes
<1> HIDE DEF trusts, nodes
<1>2. 1 \in Nat /\ 0 \in Nat /\ 1 + 1 = 2 /\ 0 + 1 = 1
  OBVIOUS
<1>3. Found(trusts, from, to, 2) = PathTrusts(trusts, nodes, from, to, 1)
  BY <1>1, <1>2, FoundArePaths
<1>4. Found(trusts, from, to, 1) = PathTrusts(trusts, nodes, from, to, 0)
  BY <1>1, <1>2, FoundArePaths
<1>5. indirectTrust(trusts, from, to) = BestPath(trusts, nodes, from, to, 2, far)
  <2>1. BestPath(trusts, nodes, from, to, 2, far) = Best(PathTrusts(trusts, nodes, from, to, 1))
    BY <1>2, BestIs
  <2>2. QED
    BY <1>3, <2>1, Zenon DEF indirectTrust
<1>6. strongestPath(trusts, from, to) = BestPath(trusts, nodes, from, to, 1, far)
  <2>1. BestPath(trusts, nodes, from, to, 1, far) = Best(PathTrusts(trusts, nodes, from, to, 0))
    BY <1>2, BestIs
  <2>2. QED
    BY <1>4, <2>1, Zenon DEF strongestPath
<1>7. QED
  BY <1>5, <1>6 DEF trusts

(* Whatever the service was told, and in whatever order, its searches find *)
(* the strongest path of up to MaxDepth + 1 hops of the graph it holds, for*)
(* every MaxDepth and every graph (PathsAreBest).                          *)
THEOREM PathsFoundAreBest == Service!ConstantsFit => (Service!Spec => []PathsAreBest)
<1> SUFFICES ASSUME Service!ConstantsFit PROVE Service!Spec => []PathsAreBest
  OBVIOUS
<1>1. ServiceInv => PathsAreBest
  <2>1. ServiceInv => graph \in Seq(Summaries)
    BY DEF ServiceInv, ServiceTyped, Logged
  <2>2. QED
    BY <2>1, SearchesAreBest
<1>2. QED
  BY <1>1, ServiceInvHolds, PTL
=============================================================================
