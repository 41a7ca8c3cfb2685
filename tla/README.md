# Verification of the ATEL SDK

TLA+ models of the ATEL SDK (`src/`, a TypeScript SDK and the `atel` command that
runs an agent on it), TLC configurations that check them on small instances,
and theorems about them with proofs that TLAPS checks. Line references are to
the repository; `PROJECT.json` maps every definition to the lines it models.

## 1. The system

An *agent* is a process with an Ed25519 identity (a DID). Agents exchange
signed messages over HTTP, directly or through a relay. A *requester* delegates
a task under a consent token, or places an order on a platform; an *executor*
runs it through a tool gateway that records everything in a hash-chained trace,
proves the trace with a Merkle root, anchors the root on chains and reports the
outcome to a trust system. `atel start` is the runtime of an agent; every other
`atel` command is a process of its own that shares files with it.

### Components

| Component | State | Operations | Correct if |
|---|---|---|---|
| **trace** `src/src/trace` | events, numbering, checkpoint counter, two seal flags; a JSONL file | append (with an automatic checkpoint inside), checkpoint, finalize, fail, verify, save, load | the chain always verifies; one verdict, and nothing after it; a verdict survives a restart |
| **policy, gateway, orchestrator** `src/src/policy`, `gateway`, `orchestrator` | call count, expiry, log of calls, one activation per run | evaluate, callTool, executeTask | the budget holds whatever overlaps; the proof covers the trace; a run with a proof resolves |
| **proof, anchor, collaboration** `src/src/proof`, `anchor`, `collaboration` | bundles, records of anchors and of collaboration, transactions | generate, verify, anchor, anchorAll, lookup, anchorEvent, verifyExecution | only genuine bundles pass; what is called anchored is; every transaction is accounted for |
| **envelope, endpoint** `src/src/envelope`, `endpoint` | nonces seen, rate windows | createMessage, verifyIncoming, the routes | no message is handled twice; bursts are bounded |
| **relay delivery** `src/bin/atel.mjs` | messages the relay keeps, a batch under way, used nonces on file | poll, forward, acknowledge | the relay forgets only what was settled or cut off, and what it keeps is settled |
| **handshake, crypto** `src/src/handshake`, `crypto` | pending challenges, key pairs, inits; sessions; shared keys | createInit, processInit, processAck, processConfirm, expiry, termination | a session stands for one handshake of the agent and whoever holds the key it names, with its key |
| **trust-sync, service, score, graph** `src/src/trust-sync`, `service`, `score`, `graph`, `trust` | summaries, proof records, scores, edges; two files | submit with a timeout, POST /summary, load and save, verification passes, path searches | memory is what the summaries say; what was reported as synced is kept; the searches find the best path |
| **rollback** `src/src/rollback` | compensations with a status | registerCompensation, rollback, clear | each is run once |
| **tasks of the runtime** `src/bin/atel.mjs` | registered tasks, tasks to confirm (files), slots, nonces (file) | the task handler, `atel approve`, `atel reject`, POST /approve, POST /result | accepted tasks are tracked; slots match tasks |
| **result push queue** `src/bin/atel.mjs` | array of results to push again; its file | enqueue, flush on a timer | a queued result is delivered or given up, nothing else |
| **tool proxy** `src/bin/atel.mjs` | a gateway and a trace per task | /init, /register, /call, /finalize | the returned trace is complete; what is proved of it is a chain |
| **peer access** `src/bin/atel.mjs`, `friend-helpers.mjs` | friends, requests, temporary sessions in files, a cache of the sessions | commands of `atel friend` and `atel temp-session`, messages of peers, admission of tasks | files keep what they were told; a revoked session soon admits nothing |
| **agent hooks** `src/bin/atel.mjs`, `notification-action-helpers.mjs` | queue, slots, sessions, callbacks in memory and on file, child processes | notify, reconcile, wait, callback, fallback, recovery | slots are given back once; every hook ends; a conclusion lands where it belongs |
| **orders** `src/bin/atel.mjs`, `order-cancel-helpers.mjs` | orders on the platform, tracked orders on file of both agents | the trade commands, notifications, reconciliation | an order moves on, whatever is lost; tracking ends with the order |
| **files of scores and proofs** `src/bin/atel.mjs` | score records in memory and on file, traces on file, the published score | POST /result, echo mode, `atel complete`, `atel audit` | records are kept; an audit finds the proof |
| **tasks given out** `src/bin/atel.mjs` | trust file, inbox, a command per task | `atel task`, `atel check`, checkTrust | outcomes count as they were reported; the check agrees with the decision |

The other modules of the SDK (registry, negotiation, identity, schema, auditor,
audit, attachment, bitrefill, mcp, network, intent, executor) keep no state, or
a map with one operation per method, or are I/O; see section 7.

### How they interact

* `executeTask` builds a PolicyEngine, an ExecutionTrace and a ToolGateway for
  its run, and calls the user's function with them. The function makes calls
  whose handlers are awaited concurrently, or not awaited at all.
* The endpoint checks each incoming message (limiter, nonce, timestamp,
  signature) and calls the handler that was registered; the runtime's handler
  registers the task and forwards it to an executor, which works through the
  tool proxy and later posts a result to a route of the same server.
* The runtime polls the relay for what could not reach it, hands it to its own
  endpoint, and acknowledges what was answered in time.
* Commands are other processes: they read a file, change it and write it back
  while the runtime does the same.
* The runtime hands work on orders to AI agents (hooks), whose conclusions come
  back as callbacks and are carried out by `atel` commands as child processes.

### Grain of atomicity

JavaScript is single threaded: the code between two `await`s is atomic within
a process, and that is the grain of the actions. Between processes the grain is
finer: where two may touch a file, reading it and writing it are two actions
(`doing` and `editing` of PeerAccess, `edits` of TradeOrder, `copy` of
TrustFiles, `"read"` of TaskHistory), and a write that is cut short leaves half
a file or none. The list of friends is the one exception: it is only looked up,
no property speaks of it, and it moves in one step. A process may die at any
instant, also between two file writes of one block; the actions called Crash,
CrashInCall, CrashInSave and Restart stand for that.

## 2. The modules

| Module | Models | Run | Proofs |
|---|---|---|---|
| `TraceLog` | the in-memory trace, as operators on a record | of its users | `TraceLogProofs` |
| `ExecutionTrace` | one trace object, its file, failures and restarts | `ExecutionTrace` | `ExecutionTraceProofs` |
| `SealedLog` | abstract: logs that grow until one verdict closes them | as a property of `TaskExecution` | |
| `TaskExecution` | orchestrator, policy, gateway, traces, anchoring, submission; implements `SealedLog` | `TaskExecution` | `TaskExecutionProofs` |
| `ProofBundle` | Merkle trees, their paths and their check; bundles, their verifier, anchors of three kinds, proof records | `ProofBundle` | `ProofBundleProofs` |
| `MessageDelivery` | envelope, endpoint checks, used nonces of the runtime | of `RelayDelivery` | `MessageDeliveryProofs` |
| `RelayDelivery` | `MessageDelivery` with the relay as one more way for a message to arrive | `RelayDelivery` | `MessageDeliveryProofs` |
| `Handshake` | two agents' handshakes, sessions and keys over a lossy network | `AgentPeers` | `HandshakeProofs` |
| `TrustGraph` | edges and searches of the graph | of `AgentPeers` | `MessageDeliveryProofs` |
| `TrustService` | submission adapter and scoring service with its files | `AgentPeers` | `MessageDeliveryProofs` |
| `Rollback` | compensations | `ExecutionTrace` | `ExecutionTraceProofs` |
| `AgentTask` | `ExecutionTrace`, `Rollback` and `ToolProxy` side by side, as one agent has them | of `ExecutionTrace` | `ExecutionTraceProofs` |
| `TaskRuntime` | the life of a peer-to-peer task in `atel start` | `TaskRuntime` | `TaskRuntimeProofs` |
| `ResultPushQueue` | the durable queue of results | `ResultPushQueue` | `TaskExecutionProofs` |
| `ToolProxy` | gateways of the proxy, and what POST /result makes of their traces | `ExecutionTrace` | `ExecutionTraceProofs` |
| `PeerAccess` | friends, requests, temporary sessions | `AgentPeers` | `HandshakeProofs` |
| `AgentPeers` | `Handshake`, `PeerAccess` and `TrustService` side by side: what an agent has to do with its peers | `AgentPeers` | |
| `AgentHooks` | hook queue, sessions, callbacks, child processes | `AgentHooks` | `TaskRuntimeProofs` |
| `TradeOrder` | orders between platform, two runtimes and their commands | `TradeOrder` | `TaskRuntimeProofs` |
| `TrustFiles` | scores and their formula, traces and anchors on file | `TrustFiles` | `AgentFilesProofs` |
| `TaskHistory` | checkTrust and `atel check`; `atel task` and the trust file | `TrustFiles` | `AgentFilesProofs` |
| `AgentFiles` | `TaskHistory` and `TrustFiles` side by side, as one agent has them | of `TrustFiles` | `AgentFilesProofs` |
| `AccessPromises`, `HookPromises`, `TradePromises`, `QueuePromises`, `TrustPromises` | what `PeerAccess`, `AgentHooks`, `TradeOrder`, `ResultPushQueue` and `TrustService` promise, over the variables that takes | of those | |

The modules `*Promises` stand apart so that a proof module can name the very
property TLC checks (it EXTENDS them) and reach the component, whose names for
states and steps are also those of others, through `INSTANCE`: each component
EXTENDS its own. The `MC*` modules give the constants their values. Operators
whose comment starts with "Mutant" are variants of an operator with a plausible
bug; no action uses them, and each checked property fails under one of them.

**TraceLog, ExecutionTrace.** A hash is modelled by the chain it commits to, so
that SHA-256 is injective and `Verify` is the code's recomputation. One action
per method; an append is a sequence of *stages* (the event, the checkpoint it
may owe) because the file is written after each, and `WriteFails` and
`CrashInCall` stop a call between any two. JSON drops undefined members:
`Sparse` data is hashed as it is and reads back as `Stripped`.

**TaskExecution.** `phase` is the await at which `executeTask` is suspended.
`CallRefused`, `CallWasted`, `CallStarts`, `ResultLogged` and `ResultLost` are
the early returns and exceptions of `callTool`; after `CallStarts` the handler
is awaited, and may finish at any later moment, or never. `anchors` says what
has become of the transaction on each chain: asked for, sent and not mined yet,
done with a receipt or an error. Requests to a node end by themselves;
`tx.wait()` (`src/src/anchor/evm.ts:179`) has no limit and may never come back,
so that a run with a proof may stay there.

**ProofBundle.** The trace grows and bundles are built of it; `Changed` and
`Shown` are the bundles and traces a verifier may be shown, whole, cut, altered
or with another signature. A transaction lands (`Land`) before its receipt is
answered, or the answer is lost (`AnchorFails`). `Mode` tells chains whose
anchors can be read back from those in contract mode, which cannot. A proof
record keeps the flag of its caller: it comes as `reported` (unverified),
`vouched` for by a caller that says it is verified, or as the program's `own`,
entered as verified once the anchor has a receipt. The tree is a section of the
module: a layer, a path and the climb along it are recursive functions.

**MessageDelivery, RelayDelivery.** A message that was created can arrive at
any time, any number of times. `Admit`, `RefuseReplay`, `Judge`, `Expired` and
`Handle` follow `verifyIncoming` in its order: the limiter, the nonce, which is
recorded, the timestamp. `Take` is the runtime's own check against the nonces
in its file, to which it adds the message's; the handler is then at work
(`handling`) through awaits until it registers, queues or refuses the task
(`Settle`), or throws (`Throw`); a restart cuts it off. RelayDelivery composes
with it: an admission may be the delivery of a message of the batch, and the
handler's answer (`Answered`), if it comes in time, decides what is
acknowledged.

**Handshake.** A challenge and the ephemeral key made with it are one number;
a shared key is the set of two. The maps of a manager are keyed by the remote
DID, so two agents show all there is to one pair. The network is the set of
messages ever sent; any of them may arrive at any time. A DID names a key, and
an init must be signed with the one of its DID (`handshake/index.ts:283-287`).
An ack is verified with the key it carries (214-229), which the model lets be
any key (`Other`, `OtherAck`): a session says in `remote` what key that was.

**TrustService.** A request is handled in one synchronous block that updates
memory and rewrites two files; `HandleUnsaved` is a write that throws,
`CrashInSave` a death between or inside the writes. `Timeout` lets the caller
give up, and submit again. Trust is in whole units, rounded down where the code
rounds a fraction.

**Rollback.** Compensations are numbered in the order of registration. A call
keeps its reversed copy and its place in it; `Proceed` runs on to the next one
whose status is still pending *then*.

**ResultPushQueue.** A flush keeps what it has yet to reach of the array it
walks (`todo`), which of it was due when it started (`ripe`), the entry whose
push it awaits (`busy`) and the array it builds (`kept`); `live` says that its
array is still the queue, so that `EnqueueResultPush` shows in it.

**TaskRuntime.** `stage` is where a task's handler has come. Approvals carry
the copies of the pending file that the command and the endpoint have read,
which each writes back whole after its await. `Post` is a result handler, with
the scores updated (`scored`) and then the task removed.

**ToolProxy.** Gateways are numbered as they are opened; the map names the one
of each task. `CallLate` is a tool that comes back after `/finalize`: callTool
throws, and /call answers an error. `Copied` is the import of the events into
the runtime's trace, which numbers and seals on its own.

**PeerAccess.** `half` divides a behaviour: one about friends and requests, one
about sessions with a clock, which share no state but the list of friends. The
processes are the runtime and the commands (`Writers`). Each reads the file of
requests or of sessions in one step, which puts its copy and what it is to
change into `doing` or `editing`, and writes it back whole in another
(`StatusSaved`, `saveTempSessions`); an accepted request is written twice. A
read while another process writes may find nothing. `touched` and `held` are the
requests and sessions that a process had in hand while another changed them.

**AgentHooks.** `pc` is where a hook stands (in the queue, waiting for the
session, in the local agent, in a child process); `calls` are callbacks under
way, which may act for a hook that has gone on. Callback tables in memory and
on file are separate, so that a restart forgets one.

**TradeOrder.** Each command is a process with stages; `edits` are reads of the
tracked-orders file whose write is still to come; `views` are orders that a
reconciliation has fetched and not yet dealt with, and may be stale.

**TrustFiles, TaskHistory.** The executor's files and the requester's; they
share no state, and one run checks both by `role`. Jobs (results, echoes,
commands) have a `step`; `copy` is what a command read of the score file. A
completed order may go on to a dispute (`disputed`), which `atel complete` does
not stop at. `cmdCheck` starts from the score of the platform where that has
one (`effectiveScore`) and falls back to the history on file; `checkTrust` knows
only the latter.

## 3. The runs

| Run | Question | Bounds |
|---|---|---|
| `ExecutionTrace` | Does a trace stay a chain with one verdict through failed writes, crashes and reloads? Is what the tool proxy returns complete, and what is proved of it a chain? Does a compensation run once? | one of three per behaviour (`role`): a trace of 4 events, a checkpoint due every 2 (3 after a load), 1 failed write, 2 crashes, so that a checkpoint falls before, into and after a verdict; or 1 task with 2 gateways, 2 calls and 1 restart, so that calls overlap and outlive /finalize and a second /init; or 3 compensations and 3 calls of rollback, the list cleared at any time |
| `TaskExecution` | Does the budget hold, is the trace a sealed log, does the run resolve, unless it waits for a block for ever? | 1 run, 3 calls with a budget of 2, 2 chains: calls overlap, exceed the budget and outlive the verdict. Runs share no state, and the theorems cover any number |
| `ProofBundle` | Do only genuine bundles pass, and are anchors as claimed? | 1 bundle of up to 4 events, 3 operations of which 2 overlap (`MaxBegun`, `Calls`), 2 chains of different mode, 2 transactions, 2 proof records of any flag |
| `RelayDelivery` | Is a message handled at most once, and not lost by the relay? | 3 messages of one sender whose clock is ahead by 1, which is accepted, or by 2, which is not yet, one of them `Relayed`; nonces kept exactly as long as needed (2, for 1 and 1), 3 ticks with a window of 1, 1 restart, 1 fault, a file of 1 nonce |
| `AgentPeers` | Do sessions stand for one handshake, with its key? Do the files of friends keep what they were told, and does revoking shut? Do scores, graph, files and reports agree, are the paths best? | one of three per behaviour (`role`): 4 challenges, that is two complete attempts in either direction, acks by a key of neither, 1 restart; or the runtime and 2 commands, any two of which overlap, with 1 peer of 1 request in and 1 out, under 3 policies, or with 2 sessions of limit 1 that last 2 ticks, as long as the clock runs, 2 admissions each, a cache of 1 tick; or a chain of 4 hops, one more than `MaxDepth`, with a shorter way that closes, one summary sent twice, 1 failed save, 2 restarts |
| `TaskRuntime` | Do slots and table agree while handlers overlap? | 3 tasks (one signed, one approved and posted up to twice), limit 1, 2 approvals and 2 posts at one time, 1 restart |
| `ResultPushQueue` | Does a queued result stay until it is delivered or given up, and then leave? | 2 tasks, 3 results entered (so one twice), 2 flushes at one time, 2 failures or restarts: each flush can replace the other's array |
| `AgentHooks` | Do slots come back, hooks end, conclusions land where they belong? | 2 hooks, 1 slot, and per behaviour (`Budgets`) one of: 2 callbacks, a restart, a user and old notifications, a fallback for a peer's task |
| `TradeOrder` | Do orders move on and leave the file when they end? | a free order of 1 or 2 milestones under one kind of mishap at a time, one or two with a price; rejections limited to 2 (3 in the code) |
| `TrustFiles` | Do files of scores, proofs and trust keep and count what they should? | per behaviour (`role`): 3 tasks given out, of which 2 relayed, after 13 earlier ones (so that the level flips); or, of a worker with 2 results of one task, an echo, 2 runs of `atel complete`, 1 start and 1 fault, the jobs but two or three: a result and both commands, a result with an echo and a command, or both results; a completed order disputed |

Two runs look for a violation, each of something the repository says of
itself, on the instance of another run:

| Run | What is said | What the run shows |
|---|---|---|
| `TrustDepth` | searches of the graph are "BFS, max depth 3" (`src/src/graph/index.ts:300`, likewise 455), an agent between being "depth=2" (307) | the goal is looked for beyond the last level entered (323-343, 464-488): a path of four hops decides. `PathsAreBest` is what the searches do |
| `RelayAcked` | the runtime acknowledges "only ... after confirmed local persistence" (`src/bin/atel.mjs:7314`, 7350) | a task whose nonce is saved (6899-6900) and whose handler then dies or throws before it registers the task (7085-7096) is refused as a replay when it comes again, which is a 200 (6894-6897), and acknowledged. `ForgottenWereSettled` is what is left: nothing else is lost so (`cut`) |

Symmetry is used only where a run has no liveness property and the permuted
constants (calls of one kind, sessions, posts) appear in no definition. Deadlock
is not checked where the bounds, or the end of the work (orders that are closed,
hooks that have ended), let the model stop; `ResultPushQueue` never stops.
Properties of the form "unless two overlapped" name, in a history variable, the
exact overlap that the code does not survive; so they show both that the race
is real and that it is the only one.

### What they show

The properties are described where they are defined, each with the code it is
about. Those that took most care:

* `SealSurvivesRestart`, `CleanFileVerifies`: a verdict may be followed by the
  automatic checkpoint, in the trace, in the file and in what is loaded.
* `ReturnedIsComplete`: an executor may be answered after its gateway was
  finalized or replaced; what was answered with a result is in the trace.
* `TracesSeal`: handlers nobody awaited settle while the root is being
  anchored, and find the trace sealed.
* `AtMostOnce`, `TakenOnce`, `KeptAreSettled`: a message comes directly, through
  the relay, again, late, to a process that was restarted. Nonces must be kept
  as long as the oldest acceptable message can be fresh: ten minutes, where
  five and a half are needed.
* `SessionsMatch`, `ConfirmedKey`: the pending maps are shared by all attempts,
  and an ack is taken from whoever signed it. A responder's session is with the
  key of the peer's DID; an initiator's is with the key the ack came with.
* `RequestsKept`, `RevokedSoonShut`: the runtime counts a task of a session, or
  notes a request, while a command rewrites the same file.
* `OwedKept`, `QueueDrains`: overlapping flushes put older copies back, yet lose
  only what was entered under a flush of an older array.
* `SlotsHeld`, `HooksDrain`, `StraysExplained`: a hook may end in a dozen ways,
  and actions outlive it.
* `OrderAdvances`: somebody does the next step, whatever was lost, because
  reconciliation starts from the state of the platform.
* `PathsProve`, `AcceptedIsGenuine`, `AnchoredAsClaimed`, `Accounted`: about
  what a verifier is shown, and what transactions and records say.
* `AuditFindsProof`, `CountedAsReported`, `HistoryKept`: what is on file when
  processes overlap, and when results come late, twice or for another task.

Some of what the models had to follow may surprise a reader of the code. These
are plain from the source, so that no run is spent on them.

*Traces and proofs.* Events are hashed before JSON drops undefined members, so
a loaded trace may not verify. A handler that returns nothing runs, but hashing
its output throws: no result, no log entry. `finalize` returns the hash of its
verdict, which is not the last event when it completes a checkpoint interval.
The call budget of a token holds per execution. The trace of the tool proxy is
imported with its verdict, so that a failed task has three, and the numbers
start again (`src/bin/atel.mjs:6320-6340`); whose task a posted trace is of is
not looked at. A gateway replaced by a second `/init` is never returned.
Compensations run twice when rollbacks overlap. Anchors made in contract mode
cannot be verified, and `verifyExecution` looks at the first record only. A
proof record counts as verified from the start if its caller says so
(`src/src/score/index.ts:163-176`).

*Messages.* The nonce is recorded before the timestamp is checked, so a message
refused as being from the future is a replay later. A late init replaces the
responder's key at once, and a key is used after its session has expired until
something looks the session up. A task that comes again while its handler is
still at work is answered as a replay, before it is registered. An ack is
verified with the key it carries, which is compared with nothing. Requests between
runtimes and relay carry no nonce.

*Tasks.* The limit of concurrent tasks is exceeded by approvals, and by tasks
admitted while a signature is verified; slots are forgotten by a restart though
tasks are not. An approval writes back the pending file as it was up to ten
minutes before. A flush that replaces the queue loses what was entered under an
older array. A chain that cannot be reached makes an executor report a failure
that its own score counts as a success.

*Hooks and orders.* The guard before a hook's action compares the status of a
milestone, not the submission. Hooks are deduplicated by order and event, which
drops later notifications of the same kind; reconciliation recovers. Two
processes lose each other's tracked orders. A deposit whose message to the
platform was lost is not repaired by running the command again.

*Scores and trust.* A failed task can raise the score when it completes a level
of 5, 10 or 20 tasks. Once there is a proof record, summaries no longer count.
Summaries sent again count twice. A record without proofs reaches level 2 with
30 tasks (the comment at `src/bin/atel.mjs:3538` says about 50 points). The
comment at 3589 calls `checkTrust` the "single function used by all code paths",
but `atel check` decides for itself: a score on the platform that is too low
denies what `atel task` sends, which `CheckAgrees` excepts. A direct task counts
as a success whatever was answered. `atel complete` makes a new proof each time
it is run, for an order in dispute too, and reads a flag `blocked` that is never
returned (9101).

### Fairness

Five specifications state fairness, each from the event loop: a continuation
whose promise has settled is run, and a timer that is set fires.

* `TaskExecution`: weak, of the continuations of `executeTask`; the requests it
  awaits after the proof settle with a value, an error or a timeout. Nothing is
  assumed of tool handlers, of the user's function, or of a transaction ever
  being mined (`AnchorMined`, for `tx.wait()`): `RunsResolve` excepts a run that
  waits for one.
* `ResultPushQueue`: weak, of time, of the timer that starts flushes, and of the
  push a flush awaits (every request has a timeout).
* `RelayDelivery`: weak, of a poll going on to its end (each step has a
  timeout), and of a handler coming to its end, well or not (what it awaits is
  requests); strong, of a waiting message being handed out, because the relay
  hides what it has handed out for sixty seconds, again and again.
* `AgentHooks`: weak, for each hook, of its next step: the session's wait, the
  local agent and the child process all have time limits.
* `TradeOrder`: weak, of commands, approvals, saves and hooks; strong, of each
  agent's reconciliation, whose timer fires for ever between restarts.

Nothing is assumed about success: `MaxFaults` and the budgets bound how often
things fail, so that a liveness property says what happens after the last
failure.

## 4. The proofs

All proofs are for arbitrary constants, under the named assumptions of the
modules, which TLC evaluates in the runs. A component that a proof module
reaches through `INSTANCE` (as `Access`, `Agent`, `Trade`, `Queue`, `Service`)
brings its assumption along as the hypothesis `ConstantsFit` of its theorems:
that is the formula an ASSUME of the component, or of `AgentPeers`, names, so TLC
evaluates it in the component's run. The arguments:

* **TraceLogProofs.** Appending an event to a chain that verifies, with the
  checkpoint it may owe, gives one (`AppendVerifies`): the new event links to
  the last hash, and its own hash is recomputed from the same preimage.
* **ExecutionTraceProofs.** Types; `ChainKept` from the lemmas above, because
  every stage of every call, completed or cut short, is a sequence of such
  appends; `SealKept` because each call tests the seal first. That a clean file
  verifies (`FileVerifies`) is not inductive: the file must be the trace as long
  as no write has failed (`FileFollows`), and trace and file must verify up to
  the first event that JSON has changed. `SealReloaded` needs that a seal is an
  event, not only a flag (`SealIsEvent`). For the compensations: one that is
  still pending and was run is awaited by whoever ran it, and what was never
  registered was not run (`OpenRunsAwaited`), so a second run comes to a
  compensation another call awaits, which is what `shared` records. For the tool
  proxy (`ReturnsAreComplete`): a gateway in the map is of one task only and has
  not returned its trace yet (`MapIsOpen`); what was returned is the whole of a
  sealed trace, to which nothing is appended any more (`ReturnedIsSealed`); each
  call that a gateway took is in its trace, and so is its result once it was
  answered with one (`CallsTraced`); what is proved of a task verifies and has
  every result of what its gateway returned (`ProvedIsSound`).
* **TaskExecutionProofs.** The inductive invariant is `TypeOK` with: every call
  under way is in the trace of its run (`Placed`); a run that has not begun has
  an empty trace (`IdleIsNew`); an open trace holds no verdict
  (`OpenHasNoVerdict`); a proof's trace is sealed and what was proved
  (`ProvedIsSealed`); a gateway has counted at least what it runs (`Counted`).
  `BudgetRespected` alone is not inductive: the count, not the number of
  running handlers, is what the code tests. From it: `BudgetKept`,
  `ProofStays`, and `TracesAreSealedLogs`, the refinement of `SealedLog`: each
  action either leaves the traces alone, appends to one open trace (`Record`)
  or gives its verdict (`Close`). The second part is about the queue of results
  (`OwedStaysQueued`): the end of a flush puts another array in the place of the
  queue, so it is not enough that a task is in the queue; every flush under way
  must carry it, too, in what it has to reach, the entry it awaits or what it
  keeps (`Held`), for each task that is owed and not exposed (`OwedHeld`). A
  restart reads the file, which is the queue as long as no save failed
  (`FileIsQueue`).
* **MessageDeliveryProofs.** A message that was handled is either remembered,
  since a time not before it was handled, or was handled more than `NonceAge`
  ago (`AllKept`); its timestamp was at most `MaxFuture` ahead then, so with
  `NonceAge >= MaxAge + MaxFuture` it is no longer fresh. `HandledAtMostOnce`
  follows. The file of nonces is the end of the log of what was taken, each
  once, while saves succeed (`StoreIsTail`): hence `NoTaskTwice`. The window of
  a sender counts what was handled in it, and what was handled in the length of
  a window before it lies in the one before (`WindowCounts`): a span of one
  length is covered by two windows, hence `BurstsAreBounded`. `RelayIsDelivery`
  maps each step of RelayDelivery to one of MessageDelivery or a stutter, so all
  of this holds of it, too. Whatever was taken has a handler that is at work,
  has settled it or was cut off (`Followed`); a message that is to be
  acknowledged, or was, is one of the latter two (`AckedWereSettled`), hence
  `NothingLostByRelay`. The second part is about the trust score service. Its
  invariant says besides `MemoryIsOfSummaries` that a service that is down has
  an empty memory (`DownIsEmpty`), and of what was reported as synced that the
  file has it *and* the memory, if there is one (`SyncedInBoth`): either may be
  made of the other, by a save or by a start. Hence `MemoryMatches` and
  `SyncedStays`. The last part is about the searches of the graph. Level `n` of
  a search holds exactly the walks of `n` agents that repeat none and avoid the
  goal, each with the trust carried along it (`LevelIsWalks`): at the least
  level where it did not, the level before it would already fail (`WalkOn`,
  `WalkBack`). So what a search finds is the trust of the simple paths it may
  take and nothing else (`FoundArePaths`), for any graph and depth, hence
  `PathsFoundAreBest`, for paths of up to `MaxDepth + 1` hops.
* **HandshakeProofs.** The network only grows, and identifiers are drawn once;
  the invariant relates what an agent holds (pending challenge, stored init,
  key, session) to messages that must have been sent (`UniqueIds`, `Answers`,
  `Pending`, `KeysChosen`, `SessionsMatch`, `EncryptedHasKey`). The second part
  is about whom the agent lets in, with the runtime one of the processes that
  read and write. `RequestsAreKept`: the copy that a process has read is out of
  date only in requests touched since, and its own (`CopiesKnown`), so writing it
  back reopens no other. `RevokedShut` is an action property: an id that left the
  file while no other process held it is in no copy and never comes back, and
  what the cache still holds left the file after the cache was filled
  (`RemovedLater`), so an admission that finds it comes within the age of the
  cache.
* **TaskRuntimeProofs.** `AcceptedTracked` with `ScoredIsFinished`: only a
  result whose scores were updated removes its task, and then it is finished.
  `SlotsMatch` is an equation between a counter and the sizes of two sets; it is
  inductive only with what the file of pending tasks, the copies that approvals
  have read and the table may hold at each stage of a task (`QueuedOnFile`,
  `RegisteredIsEngaged`), because each of them can bring a task back.
  `TrackedIsKept`: closed orders stay closed, a view that was fetched as closed
  is of a closed order however stale it is (`ClosedViews`), and only closed
  orders are dropped (`DropsClosed`). `SlotsOfHooks`: the queue lists each queued
  hook once and the counter is the number of hooks that hold a slot (`Lined`); a
  slot is freed and refilled in one step, so none is free while a hook is queued
  (`SlotsKept`). `StraysAreExplained` relates five tables: the callbacks waited
  for (`TablesSound`), the sessions (`SessionsSound`), the keys that let one hook
  of a stage be live (`KeysHeld`), the hook in charge of an order nothing else
  acted on, which acts once and on the round it was queued for (`OneActs`), and
  what has gone astray (`StraysKnown`).
* **AgentFilesProofs.** The requester: `HistoryKept` needs that every command in
  the middle of its update has read all that was counted and not overtaken
  (`AllHeld`); `CountedAsReported` that a command that knows its task takes only
  results of that task (`Named`); `CheckNeverStricter` that the file is finite
  (`FiniteFiles`), so that it has a score, and then, unless the platform's score
  is the lower one, is arithmetic on the thresholds of both functions
  (`NeverLaxer`), with the table of square roots shown to have an entry for
  every number of tasks (`RootsExist`). The executor: whoever holds a copy of
  the score file that it may write back, the runtime in memory and each command
  between reading and writing, holds all that was saved and not exposed to
  another (`Sound`, in `RuntimeHolds` and `CommandsHold`): hence `ScoresStay`.
  Of two commands under way on one order each has met the other, one under way
  on a completed order is late or has met the one that completed it or found it
  in dispute, and what has proved something finds its own trace or that of such
  a command (`Met`, `Late`, `OwnTrace`, `Accepted`, `TaskTrace`): hence
  `AuditsFindProofs`.
* **ProofBundleProofs.** Three parts. *Trees*: a layer has half as many hashes
  as the one before, rounded up, so there is a top (`TopIs`); going down from
  equal roots, equal layers come from equal layers as long as the numbers of
  hashes are known (`RootTells`), and for distinct event hashes even if they are
  not (`RootTellsAll`); climbing from a leaf with its path passes through the
  hash above it on each layer (`PathsAlwaysProve`, `PathTells`). Each is an
  argument about the least layer where it would fail (`LeastExists`, from the
  library's well-foundedness of the numbers), which stands in for induction.
  *Anchors*: each transaction has exactly one record, or one waiting call, or is
  lost (`OnceEach`), with what each kind of call knows (`CallsProper`) and what
  records say (`RecordsHold`, `CollabRecorded`, and `StoreHolds`, which
  distinguishes the records a caller vouched for, of which nothing is known); a
  pass that overlaps no other stands at a record not verified yet (`Passes`).
  *Verifier*: the trace always verifies and the bundles are of its prefixes
  (`TraceTrue`, `BundlesTrue`); whatever else a verifier is shown fails one of
  the checks, because a root of as many leaves fixes them (`RootVouches`).

Assumptions on constants beyond their types: nonces are kept at least as long as
a message may be fresh (`MessageDeliveryAssumption`; the code keeps them ten
minutes, and a message is fresh for five and a half); tasks are finitely many in
one behaviour and the limit of active ones is positive
(`TaskRuntimeAssumption`); tasks are named by the runtime, so that an echo, a
result and an order are never of one name (`AgentFilesAssumption`); the calls of
tools are data a trace can carry (`AgentTaskAssumption`); a model value that
stands for "nothing" is not one of the things.

One proof that did not go through at first was a finding about the model. The
table of callbacks is keyed by `dedupeKey` (`src/bin/atel.mjs:4715`, 4853, 5390),
which hooks that are queued later share: a late callback of an earlier session
ends the wait of the hook that is there now, whose own callback may be at work.
`StraysExplained` failed for it beyond the bounds of the run, until the history
variable `excused` looked at the hook whose wait ends (`Excuse`).

Only model-checked: all liveness (`RunsResolve`, `KeptAreSettled`,
`QueueDrains`, `HooksDrain`, `TrackedDrain`, `OrderAdvances`), because fairness
and ENABLED are beyond the prover. Every safety property the passing runs check
has a theorem. Where one needs an induction over data (the paths of a Merkle
tree, the levels of a search), which the installed provers cannot instantiate,
the least place where the claim fails is led to a contradiction instead. What
the formula of a score and the counts of an edge compute is not stated as a
property: the run checks that both are fed the right summaries.

## 5. Abstractions

Cryptography is perfect: hashes are injective, signatures unforgeable, keys
agree only if both halves do. Messages are well formed. Times are ticks, or a
flag that may be set at any moment (expiry). A platform, a registry, a relay and
a chain are external: they are what the code relies on them to do, with lost
requests and lost answers. Left out: the content of messages and traces beyond
what the properties tell apart, logging, printed text, and failures of files
other than those named in the modules.

## 6. What is left

1. Models: offers and disputes in `TradeOrder` (that a completed order may be
   disputed is in `TrustFiles` only); the transports `atel task`
   tries; the ageing of trust edges.
2. An abstract specification of the hook queue (each hook is begun once, and
   ends) that `AgentHooks` implements.

## 7. Not modelled

* registry, negotiation, schema, auditor, intent: a map, or pure functions of
  one argument; a unit test reaches all there is.
* identity, the ciphers of crypto: cryptography, taken as perfect.
* attachment, bitrefill, mcp, network: file and network I/O whose only state is
  that of the other side.
* audit, executor: re-exports and types.
* the rest of the `atel` command (`hub-helpers`, `tunnel-manager`,
  `atel-attachment-helpers`, `atel-cli-improvements`, and the commands that send
  one request and print its answer): no state is kept between the request and
  the text.
* scripts, demo, examples, tests, skill, docs: not part of the running system;
  read for what they say of it.
