----------------------------- MODULE ProofBundle -----------------------------
(***************************************************************************)
(* From a trace to a proof others accept.                                  *)
(*                                                                         *)
(*   src/src/proof/index.ts          ProofGenerator, ProofVerifier         *)
(*   src/src/anchor/index.ts         AnchorManager and its records         *)
(*   src/src/anchor/evm.ts, mock.ts  the providers                         *)
(*   src/src/collaboration/index.ts  CollaborationAnchor                   *)
(*   src/src/orchestrator/index.ts   verifyExecution                       *)
(*   src/src/score/index.ts          addProofRecord, verifyAllRecords      *)
(*                                                                         *)
(* One process records a trace, builds bundles from it while it grows, has *)
(* their roots anchored, and verifies bundles and records of proofs.       *)
(* Every call that waits for a chain is a slot of "call" and overlaps with *)
(* the others: a transaction lands before its answer arrives, and the      *)
(* answer may be lost.  What is verified need not be what was built: any   *)
(* field of the bundle, and the trace shown with it, may have changed.     *)
(*                                                                         *)
(* A chain keeps transactions: "memo" chains carry the hash as data,       *)
(* "contract" chains carry a call of the registry, from which verify, as   *)
(* it is called, cannot read it.  Signatures hold what they sign.          *)
(***************************************************************************)
EXTENDS TraceLog, FiniteSets

CONSTANTS
    Bundles,    \* proof ids
    Calls,      \* calls that wait for a chain
    Chains,     \* the chains registered, in the order of registration
    Mode,       \* the kind of each: "memo" or "contract"
    ScoreChain, \* the chain of the provider of the TrustScoreClient
    Kinds,      \* the kinds of collaboration events that happen
    Executor,   \* the agent that records and signs
    Interval,   \* events between checkpoints
    MaxEvents, MaxTx, MaxStored, MaxCollab, MaxBegun,
    None

ChainSet == {Chains[i] : i \in 1..Len(Chains)}

ASSUME ChainAssumption ==
    /\ Chains \in Seq(ChainSet)
    /\ Mode \in [ChainSet -> {"memo", "contract"}]
    /\ ScoreChain \in ChainSet
    /\ None \notin ChainSet

ASSUME BoundAssumption ==
    /\ Interval \in Nat /\ MaxEvents \in Nat /\ MaxTx \in Nat /\ MaxStored \in Nat
    /\ MaxCollab \in Nat /\ MaxBegun \in Nat

VARIABLES
    trace,      \* the trace under way
    bundle,     \* the bundles built, by proof id
    tx,         \* the transactions of all chains: [on, data]
    records,    \* AnchorManager.records: [hash, tx, chain]
    collab,     \* CollaborationAnchor.records: [type, hash, tx, chain]
    store,      \* the proof records of one agent: [tx, root, verified, from]
    call,       \* the calls that wait
    begun,      \* how many calls have begun, bounded by MaxBegun
    lost,       \* transactions whose answer never came
    overlapped  \* two passes over the proof records were under way at once

vars == <<trace, bundle, tx, records, collab, store, call, begun, lost, overlapped>>

Idle == [op |-> "idle"]

Init ==
    /\ trace = NewTrace(Interval)
    /\ bundle = [b \in Bundles |-> None]
    /\ tx = <<>> /\ records = <<>> /\ collab = <<>> /\ store = <<>>
    /\ call = [k \in Calls |-> Idle] /\ begun = 0
    /\ lost = {}
    /\ overlapped = FALSE

-----------------------------------------------------------------------------
(* The trace, by the operators of TraceLog.                                *)

Leaves(es) == [i \in 1..Len(es) |-> <<"event", es[i].hash>>]

Record ==
    /\ IsOpen(trace) /\ Len(trace.events) < MaxEvents
    /\ \E d \in Data \ {Summary} : trace' = Appended(trace, "TOOL_CALL", d)
    /\ UNCHANGED <<bundle, tx, records, collab, store, call, begun, lost, overlapped>>

Seal ==
    /\ IsOpen(trace)
    /\ \E d \in Data \ {Summary} : trace' = Finalized(trace, d)
    /\ UNCHANGED <<bundle, tx, records, collab, store, call, begun, lost, overlapped>>

-----------------------------------------------------------------------------
(* The Merkle tree over the hashes of the events: the last hash of an odd  *)
(* layer is paired with itself.  Positions count from zero, as in the      *)
(* code.  SHA-256 is collision free: the hash of two concatenated hashes   *)
(* is the pair of them.                                                    *)

Node(l, r) == <<"node", l, r>>

(* Mutant: the last hash of an odd layer is carried up as it is. *)
ParentsCarried(s) ==
    [i \in 1..((Len(s) + 1) \div 2) |->
        IF 2 * i <= Len(s) THEN Node(s[2 * i - 1], s[2 * i]) ELSE s[2 * i - 1]]

Parents(s) ==
    [i \in 1..((Len(s) + 1) \div 2) |->
        Node(s[2 * i - 1], IF 2 * i <= Len(s) THEN s[2 * i] ELSE s[2 * i - 1])]

Layers(leaves) ==
    LET layer[k \in Nat] == IF k = 0 THEN leaves ELSE Parents(layer[k - 1])
    IN  layer

(* The index of the layer of one hash, where the constructor's loop ends. *)
Top(leaves) ==
    LET layer == Layers(leaves)
    IN  CHOOSE k \in 0..Len(leaves) :
            /\ Len(layer[k]) = 1
            /\ \A j \in 0..(k - 1) : Len(layer[j]) > 1

Root(leaves) == Layers(leaves)[Top(leaves)][1]

Sibling(layer, i) ==
    LET right == i % 2 = 1
        other == IF right THEN i - 1 ELSE i + 1
    IN  IF other < Len(layer)
        THEN [hash |-> layer[other + 1], position |-> IF right THEN "left" ELSE "right"]
        ELSE [hash |-> layer[i + 1], position |-> "right"]

GetProof(leaves, index) ==
    LET layer == Layers(leaves)
        idx[k \in Nat] == IF k = 0 THEN index ELSE idx[k - 1] \div 2
    IN  [k \in 1..Top(leaves) |-> Sibling(layer[k - 1], idx[k - 1])]

Climb(hash, step) ==
    IF step.position = "left" THEN Node(step.hash, hash) ELSE Node(hash, step.hash)

VerifyPath(leaf, path, root) ==
    LET current[k \in Nat] == IF k = 0 THEN leaf ELSE Climb(current[k - 1], path[k])
    IN  current[Len(path)] = root

-----------------------------------------------------------------------------
(* Bundles.                                                                *)

Checkpoints(es) == {[hash |-> es[i].hash, by |-> Executor] : i \in Positions(es, "CHECKPOINT")}

(* The unsigned bundle; refs says that no reference is empty, missing      *)
(* names the required fields that are absent.                              *)
Unsigned(b, t) ==
    [id |-> b, executor |-> Executor, root |-> Root(Leaves(t.events)),
     length |-> Len(t.events), checkpoints |-> Checkpoints(t.events),
     refs |-> TRUE, attested |-> Verify(t.events), finalized |-> t.finalized,
     missing |-> {}]

Signed(u, key) == [content |-> u, by |-> key, over |-> u]

Generate(b) ==
    /\ bundle[b] = None
    /\ trace.events # <<>>
    /\ bundle' = [bundle EXCEPT ![b] = Signed(Unsigned(b, trace), Executor)]
    /\ UNCHANGED <<trace, tx, records, collab, store, call, begun, lost, overlapped>>

Built == {bundle[b] : b \in {c \in Bundles : bundle[c] # None}}

-----------------------------------------------------------------------------
(* ProofVerifier.  es is None when no trace is given.                      *)

checkStructure(p) == p.content.missing = {}

(* The key is that of the executor's DID. *)
checkBundleSignature(p) == p.by = p.content.executor /\ p.over = p.content

(* Mutant: a trace of the right length will do. *)
checkMerkleRootSkipped(p, es) == es # <<>>

checkMerkleRoot(p, es) == es # <<>> /\ Root(Leaves(es)) = p.content.root

checkCheckpoints(p, es) ==
    \A c \in p.content.checkpoints :
        /\ c.by = p.content.executor
        /\ es # None => \E i \in 1..Len(es) : es[i].hash = c.hash

VerifyBundle(p, es) ==
    /\ checkStructure(p)
    /\ checkBundleSignature(p)
    /\ checkCheckpoints(p, es)
    /\ p.content.refs
    /\ es # None => /\ Verify(es)
                    /\ checkMerkleRoot(p, es)
                    /\ Len(es) = p.content.length

(* What may be shown instead of the bundle that was built ... *)
Changed(p) ==
    {[p EXCEPT !.content.root = Root(Leaves(SubSeq(trace.events, 1, n)))] : n \in 1..Len(trace.events)}
      \cup {[p EXCEPT !.content.length = n] : n \in 1..Len(trace.events)}
      \cup {[p EXCEPT !.content.refs = FALSE], [p EXCEPT !.content.checkpoints = {}],
            [p EXCEPT !.content.executor = None], [p EXCEPT !.content.missing = {"result_ref"}]}
      \cup {[p EXCEPT !.over = q.over] : q \in Built}

(* ... and as its trace: a part of the trace, one whose data was changed,  *)
(* and one recorded anew with other data.                                  *)
Rehashed(es, d) ==
    LET again[n \in 0..Len(es)] ==
          IF n = 0 THEN NewTrace(Interval)
          ELSE Push(again[n - 1], es[n].type, IF n = 1 THEN d ELSE es[n].data)
    IN  again[Len(es)].events

Shown ==
    {None} \cup {SubSeq(trace.events, 1, n) : n \in 0..Len(trace.events)}
      \cup {[trace.events EXCEPT ![i].data = Summary] : i \in 1..Len(trace.events)}
      \cup {Rehashed(SubSeq(trace.events, 1, n), Summary) : n \in 1..Len(trace.events)}

-----------------------------------------------------------------------------
(* The providers.                                                          *)

(* Mutant: any anchor in the transaction will do. *)
SaysOfAny(ch, hash, n) == n \in 1..Len(tx) /\ tx[n].on = ch /\ Mode[ch] = "memo"

(* verify(hash, txHash): the transaction is on this chain and its data     *)
(* decode to the hash.  Without the id of an order, which no caller gives, *)
(* the data of a registry call do not.                                     *)
Says(ch, hash, n) ==
    n \in 1..Len(tx) /\ tx[n].on = ch /\ Mode[ch] = "memo" /\ tx[n].data = hash

(* A provider that cannot reach its chain answers "not valid". *)
Answers(ch, hash, n) == {Says(ch, hash, n), FALSE}

(* lookup: the EVM providers find nothing, so what is left are the local   *)
(* records; verifyExecution asks for the first one of the chain.           *)
Lookup(hash, ch) == {i \in 1..Len(records) : records[i].hash = hash /\ records[i].chain = ch}

First(S) == CHOOSE i \in S : \A j \in S : i <= j

-----------------------------------------------------------------------------
(* Anchoring: AnchorManager.anchor, anchorAll and CollaborationAnchor.     *)

Begin(k, c) ==
    /\ call[k] = Idle /\ begun < MaxBegun
    /\ call' = [call EXCEPT ![k] = c]
    /\ begun' = begun + 1
    /\ UNCHANGED <<trace, bundle, tx, records, collab, store, lost>>

Anchoring(op, hash, i) == [op |-> op, hash |-> hash, at |-> i, tx |-> 0]

Anchor(k, b, i) ==
    /\ bundle[b] # None
    /\ Begin(k, Anchoring("anchor", bundle[b].content.root, i))
    /\ UNCHANGED overlapped

AnchorAll(k, b) ==
    /\ bundle[b] # None /\ Chains # <<>>
    /\ Begin(k, Anchoring("all", bundle[b].content.root, 1))
    /\ UNCHANGED overlapped

Digest(type, of) == <<"digest", type, of>>

(* The methods of CollaborationAnchor differ in what they hash.  An        *)
(* execution proof is anchored by its id, root and executor, and so it is  *)
(* not found under its root.                                               *)
AnchorHandshake == Digest("handshake", None)

AnchorTaskDelegation == Digest("task_delegation", None)

AnchorExecutionProof(b) == Digest("execution_proof", b)

AnchorTrustScore == Digest("trust_score", None)

AnchorDisputeEvidence == Digest("dispute_evidence", None)

AnchorKeyRotation == Digest("key_rotation", None)

EventDigests ==
    {AnchorHandshake, AnchorTaskDelegation, AnchorTrustScore, AnchorDisputeEvidence,
     AnchorKeyRotation} \cup {AnchorExecutionProof(b) : b \in {c \in Bundles : bundle[c] # None}}

Kind(digest) == digest[2]

AnchorEvent(k, i) ==
    /\ Len(collab) < MaxCollab
    /\ \E d \in EventDigests :
         /\ Kind(d) \in Kinds
         /\ Begin(k, Anchoring("event", d, i))
    /\ UNCHANGED overlapped

Anchors(k) == call[k].op \in {"anchor", "all", "event"}

(* The transaction is on the chain, its receipt under way. *)
Land(k) ==
    /\ Anchors(k) /\ call[k].tx = 0 /\ Len(tx) < MaxTx
    /\ tx' = Append(tx, [on |-> Chains[call[k].at], data |-> call[k].hash])
    /\ call' = [call EXCEPT ![k].tx = Len(tx) + 1]
    /\ UNCHANGED <<trace, bundle, records, collab, store, begun, lost, overlapped>>

(* anchorAll goes on to the next chain; the others are done. *)
Onward(k) ==
    LET c == call[k]
    IN  call' = [call EXCEPT ![k] = IF c.op = "all" /\ c.at < Len(Chains)
                                    THEN Anchoring("all", c.hash, c.at + 1) ELSE Idle]

RecordOf(c) == [hash |-> c.hash, tx |-> c.tx, chain |-> Chains[c.at]]

(* Mutant: anchorAll keeps its records for the end. *)
PushedLate(c) ==
    IF c.op = "all" /\ c.at < Len(Chains) THEN records ELSE Append(records, RecordOf(c))

Pushed(c) == Append(records, RecordOf(c))

Receipt(k) ==
    /\ Anchors(k) /\ call[k].tx # 0
    /\ records' = Pushed(call[k])
    /\ collab' = IF call[k].op = "event"
                 THEN Append(collab, [type |-> Kind(call[k].hash), anchor |-> RecordOf(call[k])])
                 ELSE collab
    /\ Onward(k)
    /\ UNCHANGED <<trace, bundle, tx, store, begun, lost, overlapped>>

(* No wallet, no network, a reverted transaction, or a receipt that never  *)
(* came: the provider throws, and only anchorAll goes on.                  *)
AnchorFails(k) ==
    /\ Anchors(k)
    /\ lost' = IF call[k].tx = 0 THEN lost ELSE lost \cup {call[k].tx}
    /\ Onward(k)
    /\ UNCHANGED <<trace, bundle, tx, records, collab, store, begun, overlapped>>

-----------------------------------------------------------------------------
(* verifyExecution.  A report that fails decides the answer; otherwise the *)
(* chain is asked about the first local record of the root, if a chain was *)
(* named, and there is none to ask about, the answer is no.                *)

Accepts(p, es, ch) == [op |-> "accepts", bundle |-> p, events |-> es, on |-> ch]

VerifyExecution(k, p, es) ==
    /\ VerifyBundle(p, es)
    /\ \E ch \in ChainSet \cup {None} :
         IF ch = None THEN Begin(k, Accepts(p, es, None))
         ELSE LET found == Lookup(p.content.root, ch)
              IN  /\ found # {}
                  /\ Begin(k, [op |-> "asks", bundle |-> p, events |-> es, on |-> ch,
                               tx |-> records[First(found)].tx])
    /\ UNCHANGED overlapped

ChainAnswers(k) ==
    /\ call[k].op = "asks"
    /\ \E ok \in Answers(call[k].on, call[k].bundle.content.root, call[k].tx) :
         call' = [call EXCEPT ![k] = IF ok THEN Accepts(@.bundle, @.events, @.on) ELSE Idle]
    /\ UNCHANGED <<trace, bundle, tx, records, collab, store, begun, lost, overlapped>>

(* CollaborationAnchor.verifyAnchor: the manager is asked about a record. *)
VerifyAnchor(k, i) ==
    /\ Begin(k, [op |-> "checks", record |-> collab[i].anchor])
    /\ UNCHANGED overlapped

AnchorAnswers(k) ==
    /\ call[k].op = "checks"
    /\ LET r == call[k].record
       IN  \E ok \in Answers(r.chain, r.hash, r.tx) :
             call' = [call EXCEPT ![k] = IF ok THEN [op |-> "confirms", record |-> r] ELSE Idle]
    /\ UNCHANGED <<trace, bundle, tx, records, collab, store, begun, lost, overlapped>>

(* The caller takes the answer. *)
Return(k) ==
    /\ call[k].op \in {"accepts", "confirms"}
    /\ call' = [call EXCEPT ![k] = Idle]
    /\ UNCHANGED <<trace, bundle, tx, records, collab, store, begun, lost, overlapped>>

-----------------------------------------------------------------------------
(* TrustScoreClient: the proof records of an agent, and the passes that    *)
(* verify those not verified yet.  A record keeps the flag its caller gave *)
(* it; "from" is history, who that caller was.                             *)

AddProofRecord(n, root, flag, from) ==
    /\ Len(store) < MaxStored
    /\ \A i \in 1..Len(store) : store[i].tx # n
    /\ store' = Append(store, [tx |-> n, root |-> root, verified |-> flag, from |-> from])
    /\ UNCHANGED <<trace, bundle, tx, records, collab, call, begun, lost, overlapped>>

(* Of others, as reported: some root, some transaction, which need not     *)
(* carry it, verified or not as the report says.                           *)
AddReported ==
    \E n \in 1..Len(tx), root \in {p.content.root : p \in Built}, flag \in BOOLEAN :
        AddProofRecord(n, root, flag, IF flag THEN "vouched" ELSE "reported")

(* Mutant: the root that was to be anchored, without its receipt. *)
AddOwnUnanchored ==
    \E n \in 1..Len(tx), root \in {p.content.root : p \in Built} :
        AddProofRecord(n, root, TRUE, "own")

(* The runtime's and atel complete's own work, once its anchor has a       *)
(* receipt: entered as verified, and no chain is asked.                    *)
AddOwn ==
    \E i \in 1..Len(records) :
        /\ \E p \in Built : records[i].hash = p.content.root
        /\ AddProofRecord(records[i].tx, records[i].hash, TRUE, "own")

(* Mutant: verified records are asked about once more. *)
PendingAll(i) == {j \in 1..Len(store) : i < j}

Pending(i) == {j \in 1..Len(store) : i < j /\ ~store[j].verified}

PassUnderWay == \E k \in Calls : call[k].op = "pass"

VerifyAllRecords(k) ==
    /\ Pending(0) # {}
    /\ Begin(k, [op |-> "pass", at |-> First(Pending(0))])
    /\ overlapped' = (overlapped \/ PassUnderWay)

(* The flag is set to the answer, whatever it was before. *)
RecordAnswers(k) ==
    /\ call[k].op = "pass"
    /\ LET i == call[k].at
       IN  /\ \E ok \in Answers(ScoreChain, store[i].root, store[i].tx) :
                store' = [store EXCEPT ![i].verified = ok]
           /\ call' = [call EXCEPT ![k] =
                         IF Pending(i) = {} THEN Idle ELSE [op |-> "pass", at |-> First(Pending(i))]]
    /\ UNCHANGED <<trace, bundle, tx, records, collab, begun, lost, overlapped>>

-----------------------------------------------------------------------------

Next ==
    \/ Record \/ Seal \/ AddReported \/ AddOwn
    \/ \E b \in Bundles : Generate(b)
    \/ \E k \in Calls :
         \/ Land(k) \/ Receipt(k) \/ AnchorFails(k)
         \/ ChainAnswers(k) \/ AnchorAnswers(k) \/ Return(k)
         \/ VerifyAllRecords(k) \/ RecordAnswers(k)
         \/ \E b \in Bundles : AnchorAll(k, b)
         \/ \E i \in 1..Len(collab) : VerifyAnchor(k, i)
         \/ /\ call[k] = Idle /\ begun < MaxBegun
            /\ \E p \in Built : \E q \in {p} \cup Changed(p), es \in Shown : VerifyExecution(k, q, es)
         \/ \E i \in 1..Len(Chains) :
              \/ AnchorEvent(k, i)
              \/ \E b \in Bundles : Anchor(k, b, i)

Spec == Init /\ [][Next]_vars

-----------------------------------------------------------------------------

(* Where a transaction is accounted for. *)
RecordsOf(n) == {i \in 1..Len(records) : records[i].tx = n}

AwaitedBy(n) == {k \in Calls : Anchors(k) /\ call[k].tx = n}

Holds(n, on, data) == n \in 1..Len(tx) /\ tx[n] = [on |-> on, data |-> data]

Carries(n, data) == n \in 1..Len(tx) /\ tx[n].data = data

(* Every variable has its type. *)
TypeOK ==
    /\ trace \in Trace
    /\ DOMAIN bundle = Bundles
    /\ tx \in Seq([on : ChainSet, data : {tx[n].data : n \in 1..Len(tx)}])
    /\ \A i \in 1..Len(store) :
         /\ store[i].tx \in 1..Len(tx) /\ store[i].verified \in BOOLEAN
         /\ store[i].from \in {"reported", "vouched", "own"}
    /\ lost \subseteq 1..Len(tx)
    /\ overlapped \in BOOLEAN

(* Whatever the number of events, odd layers included, the path getProof   *)
(* gives for an event proves that event and no other, and no two stages of *)
(* a trace have the same root (MerkleTree).                                *)
PathsProve ==
    LET leaves == Leaves(trace.events)
        root   == Root(leaves)
        last   == Len(leaves) - 1
    IN  /\ \A i \in 0..last :
             LET path == GetProof(leaves, i)
             IN  \A j \in 0..last : VerifyPath(leaves[j + 1], path, root) <=> i = j
        /\ \A m \in 1..last : Root(SubSeq(leaves, 1, m)) # root

(* What verifyExecution lets pass is a bundle as it was built, and the     *)
(* trace given with it is what had been recorded then: no field of the     *)
(* bundle, no event, no number of events and no re-hashed copy can differ  *)
(* (ProofVerifier.verify).                                                 *)
AcceptedIsGenuine ==
    \A k \in Calls : call[k].op \in {"asks", "accepts"} =>
        LET p == call[k].bundle
        IN  /\ p \in Built
            /\ call[k].events # None => call[k].events = SubSeq(trace.events, 1, p.content.length)

(* Whoever is told that something is anchored - the caller of              *)
(* verifyExecution or verifyAnchor, or the score of a proof record - is    *)
(* told so of a transaction on that chain that carries that very hash,     *)
(* though records are taken from others and answers overlap.  Two kinds of *)
(* records count as verified without a look at the chain: those a caller   *)
(* of addProofRecord vouched for, of whatever transaction, and the         *)
(* program's own, whose transaction carries their root on whatever chain   *)
(* they were anchored on.                                                  *)
AnchoredAsClaimed ==
    /\ \A k \in Calls :
         /\ call[k].op = "accepts" /\ call[k].on # None =>
              \E n \in 1..Len(tx) : Holds(n, call[k].on, call[k].bundle.content.root)
         /\ call[k].op = "confirms" =>
              Holds(call[k].record.tx, call[k].record.chain, call[k].record.hash)
    /\ \A i \in 1..Len(store) :
         LET r == store[i]
         IN  /\ r.verified /\ r.from = "reported" => Holds(r.tx, ScoreChain, r.root)
             /\ r.from = "own" => Carries(r.tx, r.root)

(* Every transaction is accounted for once: it has one record, or its      *)
(* answer is under way, or the answer was lost - also when some chains of  *)
(* anchorAll fail and others do not - and records say what is on the       *)
(* chain (AnchorManager.anchor, anchorAll, CollaborationAnchor).           *)
Accounted ==
    /\ \A n \in 1..Len(tx) :
         Cardinality(RecordsOf(n)) + Cardinality(AwaitedBy(n)) + (IF n \in lost THEN 1 ELSE 0) = 1
    /\ \A i \in 1..Len(records) : Holds(records[i].tx, records[i].chain, records[i].hash)
    /\ \A i \in 1..Len(collab) : \E j \in 1..Len(records) : collab[i].anchor = records[j]

(* A proof record that was verified stays verified, although later passes  *)
(* run while the chain cannot be reached - unless two passes overlapped:   *)
(* then the one that failed may overwrite the other's answer               *)
(* (verifyAllRecords, verifyProofRecord).                                  *)
VerifiedKept ==
    [][~overlapped' => \A i \in 1..Len(store) : store[i].verified => store'[i].verified]_vars
=============================================================================
