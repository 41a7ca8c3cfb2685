---------------------------- MODULE TaskExecution ---------------------------
(***************************************************************************)
(* ATELOrchestrator.executeTask with what it builds for each run: a        *)
(* PolicyEngine on the consent token, an ExecutionTrace and a ToolGateway  *)
(* (src/src/orchestrator, policy, gateway, anchor).  Several runs may be   *)
(* executing under one token, and the user's execute function may make     *)
(* tool calls concurrently and return without awaiting them, so a handler  *)
(* can finish before, between or after any of the steps of its run.        *)
(***************************************************************************)
EXTENDS TraceLog, FiniteSets

CONSTANTS
    Runs,           \* executions of tasks delegated with the same token
    Calls,          \* calls of callTool
    MaxCalls,       \* constraints.max_calls of the token
    Providers,      \* the chains results are anchored on
    Interval,       \* checkpoint interval of the traces
    Note,           \* the data of events that are not about a call
    None

ASSUME TaskExecutionAssumption ==
    /\ Data = Calls \cup {Note, Summary}
    /\ MaxCalls \in Nat \ {0}      \* mintConsentToken refuses less
    /\ Interval \in Nat
    /\ None \notin Runs
    /\ {Note, Summary} \cap Calls = {}

VARIABLES
    phase,       \* where executeTask stands, for each run
    trace,       \* its trace
    callCount,   \* the PolicyEngine's count
    callLog,     \* the gateway's log
    state,       \* what became of each call
    runOf,       \* the run whose gateway a call was made on
    proof,       \* the events the proof's trace_root commits to
    success,     \* the flag executeTask reports
    anchors,     \* what became of anchoring the root on each chain
    submitted,   \* the TrustSubmission handed to the TrustManager
    expired      \* the token's exp has passed

callVars == <<callCount, callLog, state, runOf>>
runVars  == <<proof, success, anchors, submitted>>
vars     == <<phase, trace, callVars, runVars, expired>>

(* refused: the policy denied it or asked for confirmation; wasted: counted *)
(* but never run; lost: run, with no result recorded.                       *)
CallStates == {"new", "refused", "wasted", "running", "logged", "lost"}
(* waiting: the transaction was sent, and the run waits for its block.      *)
AnchorStates == {"unasked", "waiting", "mined", "failed"}
Phases     == {"idle", "refused", "executing", "anchoring", "verifying",
               "syncing", "done", "rejected"}

Init ==
    /\ phase = [r \in Runs |-> "idle"]
    /\ trace = [r \in Runs |-> NewTrace(Interval)]
    /\ callCount = [r \in Runs |-> 0]
    /\ callLog = [r \in Runs |-> <<>>]
    /\ state = [c \in Calls |-> "new"]
    /\ runOf = [c \in Calls |-> None]
    /\ proof = [r \in Runs |-> None]
    /\ success = [r \in Runs |-> TRUE]
    /\ anchors = [r \in Runs |-> [p \in Providers |-> "unasked"]]
    /\ submitted = [r \in Runs |-> None]
    /\ expired = FALSE

(* verifyConsentToken lets a run begin while the token is valid. *)
Accept(r) ==
    /\ phase[r] = "idle" /\ ~expired
    /\ phase' = [phase EXCEPT ![r] = "executing"]
    /\ trace' = [trace EXCEPT ![r] = Appended(@, "TASK_ACCEPTED", Note)]
    /\ UNCHANGED <<callVars, runVars, expired>>

Refuse(r) ==
    /\ phase[r] = "idle" /\ expired
    /\ phase' = [phase EXCEPT ![r] = "refused"]
    /\ UNCHANGED <<trace, callVars, runVars, expired>>

Started(r) == phase[r] \notin {"idle", "refused"}

(* Mutant: one call too many. *)
EvaluateOffByOne(r, request) ==
    IF expired \/ callCount[r] > MaxCalls THEN "deny" ELSE request

(* PolicyEngine.evaluate: expiry, then the count, then risk and scopes,    *)
(* which are a property of the request.                                    *)
Evaluate(r, request) ==
    IF expired \/ callCount[r] >= MaxCalls THEN "deny" ELSE request

MakeCall(c, r, outcome) ==
    /\ Started(r) /\ state[c] = "new"
    /\ state' = [state EXCEPT ![c] = outcome]
    /\ runOf' = [runOf EXCEPT ![c] = r]
    /\ UNCHANGED <<phase, callLog, runVars, expired>>

CallRefused(c, r, request) ==
    /\ Evaluate(r, request) # "allow"
    /\ MakeCall(c, r, "refused")
    /\ UNCHANGED <<trace, callCount>>

(* An allowed call is counted first; the input is hashed and the call      *)
(* traced before the handler runs, and either may throw: an undefined      *)
(* input has no serialisation, a sealed trace takes no event.              *)
CallWasted(c, r, hashable) ==
    /\ Evaluate(r, "allow") = "allow"
    /\ ~hashable \/ ~IsOpen(trace[r])
    /\ MakeCall(c, r, "wasted")
    /\ callCount' = [callCount EXCEPT ![r] = @ + 1]
    /\ UNCHANGED trace

CallStarts(c, r) ==
    /\ Evaluate(r, "allow") = "allow"
    /\ IsOpen(trace[r])
    /\ MakeCall(c, r, "running")
    /\ callCount' = [callCount EXCEPT ![r] = @ + 1]
    /\ trace' = [trace EXCEPT ![r] = Appended(@, "TOOL_CALL", c)]

(* Mutant: a result is traced after the verdict. *)
ResultLoggedLate(c) ==
    LET r == runOf[c]
    IN  /\ state[c] = "running"
        /\ state' = [state EXCEPT ![c] = "logged"]
        /\ trace' = [trace EXCEPT ![r] = Appended(@, "TOOL_RESULT", c)]
        /\ callLog' = [callLog EXCEPT ![r] = Append(@, c)]
        /\ UNCHANGED <<phase, callCount, runOf, runVars, expired>>

(* The handler settles.  Its output, or the error it threw, is hashed,     *)
(* traced and logged; an undefined output or a sealed trace throws first.  *)
ResultLogged(c) ==
    LET r == runOf[c]
    IN  /\ state[c] = "running"
        /\ IsOpen(trace[r])
        /\ state' = [state EXCEPT ![c] = "logged"]
        /\ trace' = [trace EXCEPT ![r] = Appended(@, "TOOL_RESULT", c)]
        /\ callLog' = [callLog EXCEPT ![r] = Append(@, c)]
        /\ UNCHANGED <<phase, callCount, runOf, runVars, expired>>

ResultLost(c, hashable) ==
    /\ state[c] = "running"
    /\ ~hashable \/ ~IsOpen(trace[runOf[c]])
    /\ state' = [state EXCEPT ![c] = "lost"]
    /\ UNCHANGED <<phase, trace, callCount, callLog, runOf, runVars, expired>>

(* execute is handed the trace and may give the verdict itself. *)
UserSeals(r, verdict) ==
    /\ phase[r] = "executing" /\ IsOpen(trace[r])
    /\ trace' = [trace EXCEPT ![r] = Sealed(@, verdict, Note)]
    /\ UNCHANGED <<phase, callVars, runVars, expired>>

(* What follows execute up to the next await: the proof is built from the  *)
(* trace t it leaves.                                                      *)
Conclude(r, ok, t) ==
    /\ trace' = [trace EXCEPT ![r] = t]
    /\ success' = [success EXCEPT ![r] = ok]
    /\ proof' = [proof EXCEPT ![r] = t.events]
    /\ phase' = [phase EXCEPT ![r] = "anchoring"]
    /\ UNCHANGED <<callVars, anchors, submitted, expired>>

(* Mutant: a verdict the user has given is not looked for. *)
ExecuteReturnsAnyway(r) ==
    /\ phase[r] = "executing"
    /\ Conclude(r, TRUE, Finalized(trace[r], Note))

ExecuteReturns(r) ==
    /\ phase[r] = "executing"
    /\ Conclude(r, TRUE, IF IsOpen(trace[r]) THEN Finalized(trace[r], Note) ELSE trace[r])

ExecuteThrows(r) ==
    /\ phase[r] = "executing" /\ IsOpen(trace[r])
    /\ Conclude(r, FALSE, Failed(trace[r], Note))

(* fail() throws on a sealed trace, and executeTask with it. *)
ExecuteThrowsSealed(r) ==
    /\ phase[r] = "executing" /\ ~IsOpen(trace[r])
    /\ phase' = [phase EXCEPT ![r] = "rejected"]
    /\ UNCHANGED <<trace, callVars, runVars, expired>>

(* The submission is built from the trace's statistics and handed to the   *)
(* local TrustManager; the network sync that follows is awaited.           *)
Submit(r) ==
    /\ submitted' = [submitted EXCEPT ![r] =
           [success    |-> success[r],
            toolCalls  |-> Cardinality(Positions(trace[r].events, "TOOL_CALL")),
            violations |-> Cardinality(Positions(trace[r].events, "POLICY_VIOLATION"))]]
    /\ phase' = [phase EXCEPT ![r] = "syncing"]

AnchorsOf(r, what) == {p \in Providers : anchors[r][p] \in what}

AnchorSet(r, p, what) ==
    /\ anchors' = [anchors EXCEPT ![r][p] = what]
    /\ UNCHANGED <<phase, trace, callVars, proof, success, submitted, expired>>

(* anchorAll asks the chains one after the other: the transaction is sent, *)
(* or sending it fails.                                                    *)
AnchorAsked(r) ==
    /\ phase[r] = "anchoring" /\ AnchorsOf(r, {"waiting"}) = {}
    /\ \E p \in AnchorsOf(r, {"unasked"}), sent \in {"waiting", "failed"} : AnchorSet(r, p, sent)

(* tx.wait: the block that holds the transaction, or that it was dropped   *)
(* or reverted.  Nothing bounds the time this takes.                       *)
AnchorMined(r) ==
    \E p \in AnchorsOf(r, {"waiting"}), mined \in {"mined", "failed"} : AnchorSet(r, p, mined)

Asked(r) == phase[r] = "anchoring" /\ AnchorsOf(r, {"unasked", "waiting"}) = {}

(* Mutant: the failure of every chain is not caught. *)
AnchorFailsUncaught(r) ==
    /\ Asked(r) /\ AnchorsOf(r, {"mined"}) = {}
    /\ phase' = [phase EXCEPT ![r] = "rejected"]
    /\ UNCHANGED <<trace, callVars, runVars, expired>>

(* anchorAll throws only if every chain fails; that is caught.             *)
AnchorFails(r) ==
    /\ Asked(r) /\ AnchorsOf(r, {"mined"}) = {}
    /\ Submit(r)
    /\ UNCHANGED <<trace, callVars, proof, success, anchors, expired>>

Anchored(r) ==
    /\ Asked(r) /\ AnchorsOf(r, {"mined"}) # {}
    /\ phase' = [phase EXCEPT ![r] = "verifying"]
    /\ UNCHANGED <<trace, callVars, runVars, expired>>

(* Every anchor is verified; one that fails to verify is only reported. *)
VerifyAnchors(r) ==
    /\ phase[r] = "verifying"
    /\ Submit(r)
    /\ UNCHANGED <<trace, callVars, proof, success, anchors, expired>>

(* trustSync.submit settles, whichever way. *)
Sync(r) ==
    /\ phase[r] = "syncing"
    /\ phase' = [phase EXCEPT ![r] = "done"]
    /\ UNCHANGED <<trace, callVars, runVars, expired>>

Expire ==
    /\ ~expired
    /\ expired' = TRUE
    /\ UNCHANGED <<phase, trace, callVars, runVars>>

(* The continuations of executeTask, which the event loop runs once what   *)
(* they await settles.  Requests to a chain and to the trust service end,  *)
(* with an answer or at their time limit; only the wait for a block has    *)
(* none.                                                                   *)
Continue(r) ==
    \/ AnchorAsked(r) \/ AnchorFails(r) \/ Anchored(r)
    \/ VerifyAnchors(r)
    \/ Sync(r)

RunStep(r) ==
    \/ Accept(r) \/ Refuse(r)
    \/ \E verdict \in Verdicts : UserSeals(r, verdict)
    \/ ExecuteReturns(r) \/ ExecuteThrows(r) \/ ExecuteThrowsSealed(r)
    \/ AnchorMined(r) \/ Continue(r)

CallStep(c) ==
    \/ \E r \in Runs :
           \/ \E request \in {"allow", "deny", "needs_confirm"} : CallRefused(c, r, request)
           \/ \E hashable \in BOOLEAN : CallWasted(c, r, hashable)
           \/ CallStarts(c, r)
    \/ ResultLogged(c)
    \/ \E hashable \in BOOLEAN : ResultLost(c, hashable)

Next ==
    \/ \E r \in Runs : RunStep(r)
    \/ \E c \in Calls : CallStep(c)
    \/ Expire

Spec == Init /\ [][Next]_vars

FairSpec == Spec /\ \A r \in Runs : WF_vars(Continue(r))

-----------------------------------------------------------------------------
Executed(r) == {c \in Calls : runOf[c] = r /\ state[c] \in {"running", "logged", "lost"}}

Submission == [success : BOOLEAN, toolCalls : Nat, violations : Nat]

(* Every variable has its type. *)
TypeOK ==
    /\ phase \in [Runs -> Phases]
    /\ trace \in [Runs -> Trace]
    /\ callCount \in [Runs -> Nat]
    /\ callLog \in [Runs -> Seq(Calls)]
    /\ state \in [Calls -> CallStates]
    /\ runOf \in [Calls -> Runs \cup {None}]
    /\ proof \in [Runs -> Seq(Event) \cup {None}]
    /\ success \in [Runs -> BOOLEAN]
    /\ anchors \in [Runs -> [Providers -> AnchorStates]]
    /\ submitted \in [Runs -> Submission \cup {None}]
    /\ expired \in BOOLEAN

(* However calls overlap, a run's gateway never runs more handlers than    *)
(* the token allows: nothing is awaited between the check and the count.   *)
BudgetRespected == \A r \in Runs : Cardinality(Executed(r)) <= MaxCalls

(* A proof stays a proof of its trace: handlers that finish while the root *)
(* is being anchored can no longer change what was signed.                 *)
ProofCoversTrace ==
    \A r \in Runs : proof[r] # None => trace[r].events = proof[r]

Seal(t) ==
    IF t.finalized THEN "TASK_RESULT" ELSE IF t.failed THEN "TASK_FAILED" ELSE "none"

Traces == INSTANCE SealedLog WITH
    Logs <- Runs,
    Verdict <- Verdicts,
    log <- [r \in Runs |-> trace[r].events],
    verdict <- [r \in Runs |-> Seal(trace[r])]

(* The traces implement sealed logs: each grows until its one verdict,     *)
(* given by the user's function or by executeTask but not by both, and no  *)
(* late handler adds to it.                                                *)
TracesSeal == Traces!Spec

(* Once a run has its proof, executeTask resolves, whatever the chains and *)
(* the network do, unless it waits for ever for a transaction to be mined. *)
RunsResolve ==
    \A r \in Runs :
        proof[r] # None ~> phase[r] = "done" \/ [](AnchorsOf(r, {"waiting"}) # {})
=============================================================================
