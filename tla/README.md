# Verification of the sidecar

TLA+ models of the sidecar, the per-rollup coordinator of cross-chain
transactions (XTs), with TLC configurations that check them and TLAPS proofs
of the parts that are proved for every instance. Paths below are relative to
`src/crates/` unless they start with `bin/`; `coordinator/` alone stands for
`coordinator/coordinator/src/`.

## The system

A sidecar serves one rollup chain. It talks to the *shared publisher* (SP) over
QUIC, to *peer* sidecars over HTTP, and to the local *block builder* over
JSON-RPC. It runs in one of two modes:

* **Publisher mode.** The SP opens periods (`StartPeriod`), starts instances
  (`StartInstance`), collects votes and sends `Decided` or `Rollback`. The
  sidecar locks the XT in the builder, simulates it, votes, and releases or
  aborts it in the builder.
* **Standalone mode.** The sidecar a client submits to forwards the XT to its
  peers; votes are exchanged and every sidecar decides by itself.

All coordinator state (`CoordinatorState`) is behind one tokio `RwLock`, which
is released before every RPC. `bin/sidecar/src/main.rs` spawns a task for every
publisher message, so messages can be handled in any order.

### Inventory

| Part | State | Operations | Hard behaviour |
|---|---|---|---|
| Nonce manager, `coordinator/nonce_manager.rs` | `canonical_floor`, `live`, `recycled` | `reserve`, `release_confirmed`, `release_aborted`, `reset` | stale canonical nonce, saturation, gaps |
| XT lifecycle, `coordinator/handlers/`, `coordinator.rs` | `pending`, `publisher_period` | the four publisher messages, peer votes, builder commands, confirmation, `cleanup` | reordered messages, RPCs after the unlock, failed and late RPCs, rollback |
| Submission, `coordinator.rs`, `pipeline/submission.rs` | `pending_submissions` | `submit_xt_publisher`, resolution by StartInstance, timeout, rollback | closed senders, retries |
| Standalone mode | `origin_seq`, `submitted_fingerprints`, `pending` | `submit_xt_standalone`, forward, vote, decide, `cleanup` | lost, reordered messages, restart with empty state |
| Inbound mailbox, `handlers/mailbox.rs` | `mailbox_buffer`, `mailbox_notify`, `pending_mailbox` | receive, drain, wait, time out | early and duplicate messages, lost wake-ups, full buffer |
| Overrides, `mailbox/src/overrides.rs`, `simulation/src/rpc.rs` | `chain_overlay` | merge, build from diff, simulate | cleared slots, re-created accounts |
| Pipeline, `pipeline/simulation.rs` | `chain_overlay`, the XT's dependencies and messages | check, simulate, record, dispatch, wait, vote | concurrent XTs, decisions and clearing between any two steps, failing calls |
| Trace parsing, `mailbox/src/parser.rs`, `simulation/src/rpc.rs` | - | `parse_call_trace`, `extract_mailbox_data` | order, depth bound, caught failures |
| Permissions, `permissions/` | `connected`, `snapshot` | check-tx, XT check, readiness, stream update | flag and snapshot loaded apart, malformed snapshots, silence |
| QUIC transport, `net/` | `connection`, `connected`, `connect_lock` | connect, send, receive, close | stale handles, two tasks dialling, loss at any step |

`PROJECT.json` lists every part, modelled or not, and the hazards with the line
at which each of them bites.

## Modules

One locked section of the code is one action; every RPC and every call of the
nonce manager after the unlock is an action of its own, in a task variable that
remembers where the handler stands. The map in `PROJECT.json` gives the lines
of every definition.

* **NonceManager**: the three fields of `Inner` plus the history variable
  `consumed`, the nonces the chain is known to have used. `initialized` is never
  read by the code and left out. `reserve` takes any canonical nonce the builder
  may report. `SaturatingAdd` keeps the width of u64 as the constant `MaxU64`.
* **Coordinator**: publisher mode. The SP and the builder are external and
  modelled by what the handlers use of them. `proc[x]` is the task of
  `handle_start_instance` and `process_xt`, `cmd[x]` the task of
  `apply_builder_command`, `sweep[k]` the abort loops of `handle_start_period`
  and `handle_rollback`, `conf` the task of `confirm_included_xts`. The nonce
  manager is `INSTANCE NonceManager`, so the lane of this model is the one the
  proofs are about. A failing RPC is `lost` (not applied) or `late` (applied,
  but the caller sees an error). The simulation ends with some number of
  dependencies or a failure; module MailboxWait has its inside.
* **Standalone**: several sidecars with a set of messages `net` that delivers
  in any order and may lose. `started`, `cast` and `log` are history variables:
  the instances, votes and decisions there have been. A restart empties the
  state of a sidecar.
* **AtomicCommit**: what the sidecars promise together: one vote each, commit
  only after a yes of every chain, abort only after a no, one decision each.
  Standalone implements it with those history variables.
* **MailboxWait**: the orphan buffer with both limits, registration with its
  drain, the loop of `wait_for_dependencies` down to the creation of the
  `notified()` future, the deadline, cleanup and rollback of the buffer.
* **Submission**: HTTP calls in publisher mode with their oneshot senders, which
  a call closes when it times out, and everything that takes senders out of the
  map. A fingerprint stands for the hash of the transactions; those of `Local` have
  transactions for the local chain. Only these go to the builder, and only if there
  is a builder client (`xt_builder_client`, either way from the start); the others
  are admitted without the RPC.
* **StateOverrides**: a chain state is a map from addresses and slots to words.
  `debug_traceCall` and its prestate tracer are external: the effect of a
  transaction is any set of writes, a destruction or a creation. Merging and
  the conversion of a diff are the code's. A transaction may come with mailbox
  messages, which the simulation sees as overrides of the slots `Puts` and the
  chain as putInbox transactions, and its prestate trace may fail.
* **CallTrace**: the mailbox calls of a transaction. A transaction is a tree of
  calls; running it (external: the EVM and its call tracer) gives a tree of
  frames. `ParseCallTrace` is the code's loop over an explicit stack with its
  depth bound; `Frames`, the recursive walk, is the reference it is compared
  with.
* **Pipeline**: `process_xt()` of several XTs at one sidecar. `task[x]` holds its
  local variables (the copy of the overlay, the copy of `fulfilled_deps`, the last
  result, the queue of messages as positions in that result), `xt[x]` the
  PendingXt. Each locked section and each call is a step; `on_decision`,
  `handle_peer_vote`, periods, rollbacks, confirmation and cleanup come in between;
  a peer's no decides before the local vote, and a confirmation is taken for any
  registered XT, as in the code.
  The overlay maps a slot to the transaction that wrote it last, which is all its
  properties ask for. `BuildCoordinator` is the wiring of `main.rs`: with or
  without a simulator, a mailbox address, a mailbox sender. What a simulation finds
  is a parameter, so that the rest of the module can be proved about.
* **TracedPipeline**: Pipeline with the parser of CallTrace in that place.
* **Transport**: the QUIC client, its two mutexes, the tasks that send and the
  receive loop of `main.rs`. A section under the connection mutex is one action;
  `connect_lock` is held across several. A frame is its size. The flag `connected`
  changes with the connection, in one step, although `is_connected()` may read it
  inside the section, between the two assignments.
* **Permissions**: the policy server (external), the WebSocket stream, the
  engine's flag and snapshot, and requests that load the two apart. `FromWire`
  indexes a payload as the code does, or refuses it. The check of an XT that is gone
  from `pending` passes without a policy (`RequestForGoneXt`). `window[t]` is a history variable: the
  policies in force since request `t` came in.

The modules `*Proofs` hold the theorems (see Proofs).
The `MC*` modules hold the model values of the configurations. The operators
called `Mutant...` in a module are plausible slips of the code, kept to show
that each property can fail; no specification uses them.

## Runs

### Runs that pass

| Run | Instance | Checks | Shows |
|---|---|---|---|
| `MCNonceManager` | 3 XTs, nonces 0..6, counts 1..3 | TypeOK, OneOwner, NoStrandedNonce, ConsumedNotReissued, FloorRespected | no nonce has two owners, is lost, or returns after its use |
| `MCCore` | 2 XTs, rollback | CommitOnlyIfPublisherCommits, RollbackReanchorsLane, DecisionFinal | any order of messages keeps to the SP's decisions; after a rollback the lane follows the chain; nothing else overturns a decision |
| `MCLive` | 2 XTs, 1 or 2 dependencies each, 2 lost RPCs | PutInboxNoncesUsable, CommittedIsIncluded | no nonce is shared by two released XTs or wasted; without faults the lane stalls no committed XT |
| `MCVoted` | 1 XT, 2 periods, rollback, peer votes, 1 fault (failing RPC or lost connection) | UndecidedNotStale, LocalCommitUnanimous, EveryInstanceVoted | no stale XT stays undecided; a commit without the SP rests on every chain's yes; while connected, every started instance is voted on |
| `MCAgreement` | 2 sidecars, 2 XTs of one origin, 1 place, 1 fault, 1 restart of the peer | Agreement, OneInstancePerXt, ImplementsAtomicCommit, OriginDecides | sidecars never disagree; refinement; resubmission makes no second pending instance; the origin decides |
| `MCMailbox` | 2 XTs, buffer of 1, one duplicate, cleanup and rollback | TypeOK, MessagesConserved, EveryXtVotes | no message is lost silently or doubled; waiting ends |
| `MCSubmit` | 3 calls, 2 starts, rollback, 1 fault | TypeOK, OkIsAccepted, NoWaiterForgotten | an id is given only for the caller's own XT, started for good and in the builder if it goes there; a waiting call keeps its sender until it is answered |
| `MCPipeline` | 2 XTs, 6 set-ups, 1 failing call, 1 period or rollback | ParsedAsExecuted, YesVoteEarned, SentOnce, OwnWritesVisible, OverlayMovesForward, StatusForward, EveryXtVoted, CleanRunVotesYes | a yes is earned whatever happens in between; messages are found as executed and handed over once; concurrent XTs never bring back old writes; every way out votes |
| `MCTransport` | 2 senders, receive loop, 3 connections, 2 refusals, 2 retries | NoneLeftOpen, HealthyKept, SendReturns, ReceiverFollows | a late report never closes a newer connection, none is left open, sends return, the loop is on the current connection or ended |
| `MCPermissions` | 1 request of 6, 2 snapshots of 4, 2 faults | DecisionJustified, PolicyAsPublished, PolicyConverges | every answer follows from a policy in force meanwhile; a payload with a malformed entry is not applied, not even the rest of it; the last good policy comes into force |
| `MCOverlay` | 1 address, 2 slots, 2 words, 1 inbox entry, failing traces | TypeOK, OverlayIsPostState | overrides show the state after the transactions; none has both `state` and `stateDiff` |

Runs of Coordinator, Standalone, Submission, Pipeline, Transport and Permissions
say `CHECK_DEADLOCK FALSE`: the clients, publisher, faults and connections of a
bounded instance run out. Liveness properties that speak of working parts carry
the condition themselves: CommittedIsIncluded is about behaviours without faults,
OriginDecides about behaviours without faults and restarts in which no peer is
full, EveryInstanceVoted about those in which the connection lasts,
CleanRunVotesYes about those without a failing call or a wait that times out
while a message is missing, where the simulator, if there is one, knows the mailbox
address. Without the address (`main.rs:152-156` leaves a malformed one out) it finds
no dependencies, and an XT with a read that nothing catches is voted down; one of
the set-ups of `MCPipeline` is that case, and without the condition TLC reports it.
EveryXtVoted and CleanRunVotesYes are stated with `[]<>`; what they ask for, once
true, stays true, so `<>` would say the same.

A configuration checks `TypeOK` where it says more than the shape of the state:
nonces within u64, buffers within their limits, senders filed under their own
XT, overrides the RPC accepts. The other type invariants hold on the instances
above as well; the proofs about those modules carry the part of the shape they
need in their inductive invariants.

### The run that finds a disagreement

It checks one sentence of the repository that the code does not always keep.

| Run | Sentence | What happens |
|---|---|---|
| `MCWakeup` | simulation.rs:417 "This avoids missing a notification" | the future is created after the check |

### Further disagreements

These sentences are stated in the modules too, mostly in the section at the end,
and TLC refutes each of them with the instance given; they have no configuration
of their own. (Coordinator: faults and peer votes are off unless given.)

| Property | Instance | Sentence | What happens |
|---|---|---|---|
| NonceManager, AbortedNonceReissuedNext | as `MCNonceManager` | nonce_manager.rs:5 "so the next XT can reissue the same nonce" | only a reservation of one nonce reuses a recycled one |
| Coordinator, CommitDecisionHonoured | 1 XT, 2 periods | README.md:28 "On a commit decision, the sidecar instructs the local builder" | ignored after the new period aborted the XT |
| Coordinator, OneInstanceAtATime | 2 XTs, 1 period | README.md:32 "no overlapping instances on a chain" | instances of one period overlap |
| Coordinator, FirstVoteWins | 1 XT, 2 periods | simulation.rs:555 "First local vote wins" | a new period sends a no beside the yes |
| Coordinator, AbortedLeavesBuilder | 1 XT, 1 period | README.md:180 "on abort ... push `ethera_abortXt`" | the abort overtakes the submission |
| Coordinator, StaleInstanceRejected | 1 XT, 2 periods | README.md:187-189 "rejects stale instances" | an older StartPeriod handled last sets the period back |
| Coordinator, PutInboxNoncesUsable | 2 XTs, 1 `late` RPC | builder_control.rs:171 "nonces are unused" | the release was applied, its answer was not received |
| Coordinator, PutInboxNoncesUsable | as `MCCore` | nonce_manager.rs:3 "freed only by an explicit lifecycle event" | the late reset frees the reservation of an XT released meanwhile |
| Coordinator, RollbackReanchorsLane | 1 XT, rollback, 1 `lost` RPC | README.md:192 "re-arms the nonce manager" | a failed abort RPC skips the reset |
| Coordinator, CommitOnlyIfPublisherCommits | 1 XT, peer votes yes | coordinator.rs:361 "In standalone mode" | a peer vote decides under a connected SP |
| Standalone, VetoRespected | 3 sidecars, XT without transactions of the origin | coordinator.rs:365 "any `false` vote decides `false` immediately" | the vote of such an origin is not waited for |
| Standalone, IdNamesOneXt | 2 sidecars, 2 XTs, restart of the origin | primitives/src/lib.rs:66 "unique per sidecar" | the counter restarts at zero |
| Standalone, OriginSeqAgrees | 2 sidecars, 2 XTs, 2 places | pending_xt.rs:51 "Origin sequence number." | read again after an RPC |
| Standalone, EveryoneDecides | 2 sidecars, 1 XT, `FairSpec` | README.md:26 "Votes are aggregated" | a vote ahead of its XT is dropped |
| MailboxWait, WipedXtNeverArrives | 1 XT, cleanup | coordinator.rs:287 "whose XTs will never arrive" | the XT arrives later |
| Submission, NoWaiterForgotten without its exception | 2 calls, rollback, 1 fault | rollback.rs:65 "publisher submission aborted by rollback" | a failed abort RPC drops the senders |
| Submission, SubmissionIsSent | 2 calls | coordinator.rs:411 "the XT is sent to the publisher" | a closed sender suppresses the send |
| StateOverrides, OverlayHasInbox | as `MCOverlay` | chain_overlay.rs:5 "post-state of previously committed local XTs" | putInbox writes are not recorded |
| Pipeline, OverlayOfCommitted | as `MCPipeline` | chain_overlay.rs:5 "post-state of previously committed local XTs" | an XT aborted while it is simulated still pushes; in standalone mode an abort drops nothing |
| TracedPipeline, LastWriteWins | as `MCPipeline` | parser.rs:39-40 "writes that share a dedup key fall under last-in-wins on the receiver" | only the first is sent, and a repeated simulation does not send the new payload |
| Transport, LoopOutlivesReconnects | as `MCTransport`, `MaxRetries = 0` | transport/src/config.rs:15 "0 = unlimited" | a connection lost before ensure_connected() looks again ends the receive loop |

### Bounds

The interesting cases of Coordinator need two XTs (one nonce lane, two owners)
or two periods (one stale instance); the two together with a rollback are out of
reach, so `MCCore` and `MCLive` have two XTs and `MCVoted` two periods. Faults
come at any RPC, one or two per behaviour. `MaxU64 = 6` lets three ranges of up
to three nonces saturate. Two sidecars and two XTs of one origin with one place
let submissions compete, votes overtake forwards and the peer restart; that more
sidecars, who learn of votes in different orders, agree as well is what the proof
is for. Its invariant was also run with TLC on this instance and on three sidecars
with one XT and two restarting peers.
The mailbox run uses a buffer of one place, so that both limits are met, and one
message that comes twice. Three calls are two for one fingerprint and one for
another. Symmetry is used over XTs in runs without liveness. Overrides need two
slots, so that a slot is kept while its neighbour changes; an account is merged
independently of the others, so one is enough for TLC, and the proof covers any
number of accounts, slots, words and inbox entries. The pipeline needs two XTs
that write one slot, so that a stale copy can do harm; another set-up has a
transaction that is simulated three times, finds its second dependency only when
the first is there and writes one key twice; the others add a transaction that
fails for good, dependencies answered one at a time, a missing sender, a malformed
mailbox address with a read that nothing catches, and no simulator. In these the
second XT has no local transactions and is voted down. `MaxTraceDepth` is the depth of the deepest trace, as the EVM's
own limit is to the code's. Three connections are enough for one to be replaced
while a task still holds the first and another dials the third. Of the two
fingerprints one has local transactions. Two snapshots of
four kinds give every change from good to good, to malformed and back; requests
only read the engine, so one at a time is enough for TLC.

### Fairness

`WF(HandlerStep)`, `WF(SweepStep)`, `WF(TaskStep)` and `WF(ProcessXt)`: a tokio
task that is ready runs and the locks are released. An RPC is assumed to end: the
builder client has a timeout for it (`builder_client.rs:70`), the simulation
client and the peer client only fail when the connection does. `WF(Expire)`: the
timer of `sleep_until` fires. `WF(NotifyWaiters)`: the statement after the unlock
runs. `WF(Deliver)` is what OriginDecides asks about: the network does deliver
(the other properties of that run are safety). `WF(BuilderIncludes)`: the builder
goes on building blocks. In Pipeline the peers send the messages that an XT reads;
the wait may still time out first. In Transport every task is run and an attempt
to connect ends; in Permissions the stream task runs, the policy server accepts
connections and the idle timer fires. Nothing is assumed of the publisher or of
clients.

## Proofs

* **NonceManagerProofs**, for every set of instances, `MaxU64` and `MaxCount`
  that satisfy the assumption of NonceManager. The invariants of the run
  are not inductive together: that a new range at `live_end` leaves no gap needs
  that the last nonce below the end of every live range is held (`EndsHeld`),
  also for a range that is empty because its end saturated; that a consumed
  nonce stays out needs `ConsumedBelowFloor`. `IInv` adds the two. One lemma per
  action shows that it preserves `IInv`; the theorems NonceExclusive, NonceType,
  NonceLaneHasNoGap, NonceNotReissued and NonceFloorRespected follow.
* **StateOverridesProofs**, for any addresses, slots, words and inbox entries:
  `OverlayExact`, until a trace fails the accumulated overrides show exactly the
  state after the transactions, up to inbox entries, and `OverridesType`, no
  account has both `state` and `stateDiff`. The view of merged overrides is the
  composition of their views (`MergeView`), and the overrides of a diff turn the
  state before a transaction into the state after it (`DiffView`). Delivered
  messages change inbox entries only (`DeliveredAgree`, `PutsAgree`), and states
  that agree elsewhere still do under the same overrides (`ViewAgree`) and after
  the same transaction (`RunAgree`). The invariant needs `TypeOK`, because
  merging relies on its shape.
* **TransportProofs**, for any number of tasks, connections and retries:
  `ClientInvariant`, the flag tells whether there is a current connection, and a
  connection that is up is the current one or in the hands of the task that holds
  `connect_lock`; `HealthyStays`, a current connection that works is given up only
  by `close()` or by a sender that could not finish a stream on it. The invariant
  needs who may be dialling (`LockInv`) and what a task knows of its handle
  (`TaskInv`): a connection about to be reported lost never comes up again.
* **PermissionsProofs**, for any wallets, snapshots and requests in parallel:
  `AnswersJustified` and `FlagFollowsStream`. Between the two loads of `fresh()`
  everything may change; the invariant says that a snapshot that is there while
  the flag was seen up has been in force since the request came in.
  `PolicyIsPublished`, the snapshot held is what one published payload is indexed
  to, as a whole, `MalformedNeverEnforced`, it is none with an address that does not
  parse or an unknown group, and `PolicyMovesForward`, it is never replaced by an older one.
  Their invariant is about the frames of a connection: they come in the order of
  their versions, all newer than the snapshot held, because the stream resumes
  after the version it has.
* **StandaloneProofs**, for any number of sidecars, XTs, ids, lost and reordered
  messages, faults and restarts. `CommitAgreement`: the abstract protocol
  AtomicCommit never decides an instance in two ways, because a decision is backed
  by votes and votes are cast once. `AtomicCommitRefined`: standalone mode
  implements AtomicCommit. `StandaloneAgreement` is then `CommitAgreement` through
  the refinement. The last two assume `StableOrigins`: an XT has transactions for
  the chain of the sidecar it is submitted to, and that sidecar does not restart.
  The code needs both. An origin without local transactions votes no while its
  vote is not counted (VetoRespected above), and a restarted origin gives an id
  again (IdNamesOneXt above); peers may restart at any time. The invariant's heart
  is that a sidecar meets an instance once: a forward is sent once and finds
  nothing of its instance (`Arrival`), so no sidecar votes or decides twice, even
  after cleanup or a restart; recorded votes were cast by the one they are recorded
  for (`VotesCast`); and as many votes as chains are the votes of all chains
  (`Counting`, with the cardinality theorems). `SubmittedOnce`, without that
  assumption: a sidecar holds one instance of its own per set of transactions,
  because it has the fingerprint of each of them under the right id (`DedupInv`).
* **CoordinatorProofs**, for any XTs, periods, nonces, faults, peer votes and
  rollbacks. Every action is shown to be of one of four classes by what it touches,
  and every invariant to be kept by each class. The invariant `IInv`
  (`CoordinatorInvariant`) says that an XT is registered once, that nothing was
  done for an XT that is undecided or unknown, and that a command to release an XT
  finds it unreleased and without nonces.
  * `UndecidedNeverStale`, `LocalCommitsUnanimous` and `DecisionsFinal` have no
    further hypothesis. `CommitsOnlyWithPublisher` assumes that peers send no
    votes: with them the property is refuted (CommitOnlyIfPublisherCommits above).
  * `LaneImplementsNonceManager`: the coordinator implements NonceManager's
    specification, so the theorems of NonceManagerProofs hold inside it.
    `LaneInvariant` adds that what is released carries the nonces of its XT.
  * `RollbackReanchors` assumes that no RPC fails and the connection holds: a failed
    abort RPC skips the reset (RollbackReanchorsLane above). It needs that no
    confirmation still under way has nonces above the rewound chain
    (`FloorBelowChain`).
  * `PutInboxUsable` assumes that nothing is rolled back and that no RPC is `late`;
    `lost` RPCs and losses of the connection are allowed. Either would refute it
    (PutInboxNoncesUsable above). It needs that the nonces of a released XT stay
    reserved until the XT is included (`RangesHeld`), and so that an aborted XT is
    not at the builder and never will be (`AbortedDead`).
* **InboundProofs**, for any number of calls, starts and faults, and any mailboxes,
  messages, duplicates and limits of the buffer: `SubmissionTypes`, senders are
  filed under what their call submitted; `IdsAreTrue`, an id returned is that of an
  instance of the caller's transactions that was started for good, and that the
  builder has if it goes there, which rests on what is in the channels being as true
  as what was answered; `WaitersAreAnswered`, only
  a rollback cut short by a failing RPC lets a waiting call's sender go; and
  `NoMessageLost`, every message that arrived is in exactly one place. Submission is
  extended and MailboxWait is an instance, so the last theorem is about
  `MW!MessagesConserved`, the invariant that `MCMailbox` checks.
* **PipelineProofs**, for any XTs, transactions, keys, slots, set-ups and failing
  calls, and whatever a simulation finds: `OwnWritesAreVisible`, `SentOnlyOnce`,
  `OverlayNeverGoesBack` and `StatusNeverFallsBack`. The invariant `PipelineInv`
  has three parts for each XT: its copy of the overrides shows its own last writes
  (`OwnWrites`); the queue has different keys, none handed over before, and what
  was handed over is marked as sent (`Queue`); and the task's result and its copy
  of `fulfilled_deps` are current while the XT is registered, whatever decisions,
  clearing and messages come in between (`Way`). `YesVotesAreEarned` adds that every
  transaction before the current one has succeeded with the messages fulfilled so
  far (`Ballots`), and has two hypotheses about the simulator and the chain:
  `SimulationSound`, what is called successful goes through and no write is
  overlooked, and `DeliveryMonotone`, further messages make no transaction fail or
  write to other keys. The second is needed because a transaction is not simulated
  again when a later one of its XT has got a message. The run `MCPipeline` evaluates
  both for its transactions with the parser of CallTrace (`TracedAssumption`).

Only model-checked:

* Liveness, all of it: fairness and ENABLED are out of TLAPS's reach.
* ParsedAsExecuted, what `ParseCallTrace` computes for every trace. It needs
  induction over trees and CallTrace is recursive; nothing that uses CallTrace can
  be proved about, which is why Pipeline takes the simulator as a parameter.
* PolicyAsPublished, what `FromWire` makes of a payload, which is a fold over its
  entries; that this result is applied as a whole, and none of a payload with a
  malformed entry, is proved.
* MailboxWait's TypeOK, the limits of the buffer: its size is a sum over the keys.

## Not modelled

* The contents of messages and transactions, ABI encoding and decoding, storage
  slots of mailbox entries, signing: data that no property tells apart.
* `mailbox/src/queue.rs`: written by `handle_mailbox_message()` and read by
  nothing.
* `net/transport/src/server.rs`: used by nothing in the workspace.
* The statuses `waiting_circ` and `simulated` of `xt_status.rs`: no state of the
  code yields them, since `simulated_at` is only set together with the vote
  (`simulation.rs:566`).
* The `config_version` of a check-tx answer, which is read after the decision and
  may name a later snapshot; no document ties it to the decision.
* HTTP routing, JSON and protobuf encoding, configuration files, metrics, tracing
  and TLS: no protocol state.
* Timers as times: every timeout is a step that may come at any moment its wait is
  on. Backoff delays are left out.

Coordinator abstracts the inside of `process_xt()` to its outcome and Pipeline
abstracts how decisions come about; the two are not composed, because together
they are out of TLC's reach. What each assumes of the other is a choice over all
outcomes the other one can produce.
