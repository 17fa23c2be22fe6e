# A TLA+ model of BlindPass

BlindPass lets software agents use secrets they never hold. A **controller** (a web service
over SQLite or PostgreSQL) receives secrets as ciphertext, hands each one out once, and signs
one-use **grants** for protected operations. A **broker** on every machine keeps the
credentials, checks the grants and performs the operations; a **node daemon** relays documents
and events between the two. Twelve specifications model the controller's exchanges, its grant
authority, operators, fleet settings and provisioning, the channel to the node, the broker's
grant store, requests and browser sessions, transfers between brokers, and the ownership and
recovery of the controller's database. TLC checks small instances; TLAPS proves the results of
section 4 for every instance.

In what follows `controller/` stands for `crates/blindpass-controller/src/`, `broker/` for
`crates/blindpass-broker/src/` and `core/` for `crates/blindpass-core/src/`.

## 1. The system

### Components

| Component | State | Operations | What makes it correct |
|---|---|---|---|
| Secret requests (`controller/routes/secrets.rs`, `store/mod.rs`) | a row per request: status, owner, ciphertext, deadline | create, metadata, submit, status, retrieve; sweep | one delivery, to the requester, of the ciphertext whose submitter was told it was stored; bounded lifetime; erased in the end |
| Agent exchanges (`routes/exchanges.rs`, `store/exchanges.rs`) | a row per exchange: terms, policy decision, reservation, ciphertext, deadline; token hash | create, reserve ("fulfil"), submit, retrieve, revoke; sweep | as above, plus: nothing after a revocation, and a reservation only under a decision still in force |
| Exchange policy and approvals (`core/policy.rs`, `store/exchanges.rs`, `routes/admin_approvals.rs`, `routes/admin_policy.rs`) | the document; an approval row per reference; Idempotency-Keys | replace, request, decide; expiry | approvals come from assigned operators; a retry decides nothing new |
| Protected operations and grants (`routes/authorization.rs`, `routes/browser_intent.rs`, `store/authorization.rs`, `store/operation_approvals.rs`, `store/grants.rs`) | operations, approval groups, grants, revocation tombstones | intake, grouping, decision, issuance, cancellation, revocation, expiry | a grant stands for one authorisation; the tables tell one story; no operation is stuck; what ran is never reported as not run |
| Workloads and fleet policy (`store/authorization.rs`, `store/workload_authority.rs`, `store/workload_cancellation.rs`) | registrations with ceiling and identity, the policy revision | register, update, revoke, replace | a version names one document; a unit has one registration; withdrawal reaches every operation and grant |
| Nodes and their channel (`store/fleet.rs`, `store/fleet_lifecycle.rs`, `store/node_channel.rs`, `routes/node.rs`, the node daemon) | enrolments, node keys, a session, queued documents with a cursor, an outbox | enrol, rotate, revoke, open, poll, acknowledge, deliver events | one node per name; loss and repetition change nothing; nobody is locked out |
| Operators (`store/operators.rs`, `store/login_limits.rs`, `routes/admin_session.rs`, `routes/admin_operators.rs`) | accounts, sessions in refresh families, login counters and locks | bootstrap, sign in, refresh, change and reset passwords, administer | one bootstrap; a session is worth one sign-in under today's password; guesses are bounded |
| Provisioning (`store/provisioning.rs`, `store/provisioning_links.rs`, `routes/provisioning.rs`, `broker/provisioning.rs`, the node's `provisioning_relay.rs`) | a source binding, offers, links, receipts; the broker's book of offers | bind, offer, link, submit, deliver, admit | one offer per grant; the source is stored once, for its owner |
| Cross-workload fulfillment (`store/fulfillments.rs`, `routes/fulfillments.rs`, `broker/ops/fulfill.rs`) | a record and a payload per fulfillment; the brokers' book of offers, entries and tombstones; the destination | request, decide, offer, seal, deliver, read, revoke, expire | a credential is opened once, never over another; completed means read; the recipient's slot is freed |
| Broker grant store (`broker/grants.rs`) | signed time with its high-water mark, accepted grants, consumption journal, tombstones with outcomes | accept time, accept grant, consume, revoke, prune | a grant is used once, across crashes, failed writes and clock changes; what is reported is true |
| Broker requests, events and control (`broker/lib.rs`, `control.rs`, `operation_request.rs`, `owner_retention.rs`, `original_workload.rs`) | request owners, closures, retry keys, a durable event queue, settings, the persistence fence | request, cancel, withdraw, evict, pull, acknowledge, retry | a cancellation stands; a retry is no second request; the snapshot can be read back |
| Browser sessions (`broker/session_journal.rs`, `browser_coordinator.rs`) | a journal per session, actors, recovery passes, helper, website session, browser | reserve, log in, activate, close, recover | one user per account; what exists outside is journaled first; an account is freed |
| Ownership, handoff, backup and recovery (`controller/recovery_authority.rs`, `handoff.rs`, `restore.rs`, `store/recovery.rs`, `store/recovery/`) | a ledger row with its guard, copies of the database with markers, reports and reviews | serve, export, import, abort, restore, report, waive, review, activate | the state has one history; a restored copy serves only after a whole review |
| Clock fence (`store/mod.rs`, `core/clock.rs`) | a durable fence with its reason, a checkpoint of the clock | check, monitor, fence after a restart, reconcile | no deadline is judged with a clock that cannot be trusted |
| Command line, JavaScript clients, desktop, deployment | no authority of their own | | |

`PROJECT.json` lists every part with its sources and status.

### Interactions

Agents, operators and browsers call the controller's HTTP routes. A handler performs a few
store calls; each store call is one transaction, and anything may happen between two of them.
The client may go away at any step: the handler is dropped or its answer is lost, and the
client may call again. The controller's maintenance loop (`main.rs`) runs every 30 seconds and
ends what is past its deadline. Grants, revocations, policies and registrations are documents
signed by the controller and polled by the node; events (consumed, completed, uncertain,
revocation outcomes) travel back and are acknowledged. In the broker one mutex serialises the
handlers, but every handler performs several file writes, each of which may fail and between
any two of which the process may stop. A controller process serves only while it holds the
guard of an independent authority database, which another process may take over.

### What is hard

* Interleavings of handlers that read, decide and then write: two submissions, two
  retrievals, revocation against retrieval, decision against expiry, issuance against
  withdrawal of the workload, the node or the policy, sign-in against a password reset.
* Answers that are lost after the commit, and retries; documents handed over again.
* Deadlines: rows that are expired but not yet swept, deadlines that are replaced by a
  submission or revocation, a clock that is set back.
* Two tables, or two sides, that describe one thing and are edited by many operations.
* Results that arrive late, twice, or after the controller gave the operation up.
* Crashes and failed writes between the journal, the event queue and the effect.
* Two copies of one database, and a process that does not yet know it has lost ownership.

`PROJECT.json` lists the hazards at the line where each one bites, with the property that
watches it.

## 2. Modules

| Module | Role | Run | Proofs |
|---|---|---|---|
| `SecretRequest` | human-submitted secrets: rows, concurrent handlers, sweep, clock fence | `controller` | `SecretRequestProofs` |
| `ExchangePolicy` | the pure policy evaluation: first matching rule, rings, denial by default | | |
| `Exchange` | agent-to-agent exchanges with policy decisions and approvals; extends `ExchangePolicy` | `exchange` | `ExchangeProofs` |
| `Operations` | the controller's operations, groups, grants and tombstones, composed with workload, policy, node, channel and an abstract broker | `operations` | `OperationsProofs` |
| `GrantContract` | what a broker promises about a grant: *none → held → spent*, acted on once, or *dead* | | |
| `GrantVerifier` | the broker's verifier with its files; implements `GrantContract` | `grant_verifier` | `GrantVerifierProofs` |
| `Fulfillment` | one recipient's fulfillments: controller, issuer broker, recipient broker and the two relays | `fulfillment`, `other_sources` | `CredentialProofs` |
| `NodeChannel` | enrolment, sessions, inbox and outbox, events, key rotation and revocation of a node | `node_channel` | `NodeChannelProofs` |
| `FleetSettings` | registrations and policies: handlers, documents, the broker that applies them, the grants bound to them | `node_channel` | |
| `Operators` | bootstrap, sign-in and its limits, sessions, administration | `operators` | `OperatorsProofs` |
| `Provisioning` | source collection for browser grants: binding, offer, link, submission, delivery, the broker's book | `provisioning` | `CredentialProofs` |
| `BrowserSession` | journal, actors, recovery and the processes outside the broker | `browser_session` | `BrowserSessionProofs` |
| `BrokerRequests` | owners, retry keys, cancellations, closures and the event queue of the broker | `broker_requests` | |
| `Ownership` | the ledger, its guard, copies of the state, handoff, backup and restore | `controller`, `handoff` | |
| `Recovery` | reports, waivers, review and activation of a restored copy; extends `Ownership` | `controller` | |

`MC...` modules hold the constants of the runs. Several specifications have a constant
`Scenarios` (or `Scenes`): a behaviour fixes one of them in `Init`, so that one run asks a
question under several bounds. `MCController` and `MCNodeChannel` put two specifications that share
no state beside each other, one of them an instance over variables of its own: `part` says which of
the two a behaviour is of, and the other stands still. Definitions whose names start with `Faulty` are not part of a
specification. Each repeats the definition that follows it with one plausible bug;
`PROJECT.json` ("mutants") names the property that excludes it.

### How the models correspond to the code

**Handlers.** A variable `conn` or `call` holds, for every request in flight, the step its handler
is at and the local values it has read. An action is one transaction (or one read) together with
all the code up to the next suspension point. `Drop` or `Abandon` ends a handler at any step.

**Time.** The controller's deadlines are kept as the time left (`left`), so that `Tick` makes every
one smaller and the state space stays finite; a live row has `left > 0`, exactly the code's
`expires_at > now`. `GrantVerifier`, where two clocks matter, has an explicit boot clock and the
controller's lag behind it; `Operators`, `Provisioning` and `BrowserSession` have `now`.

**SecretRequest.** `rows` is the table. `SubmitVerify`, `SubmitRead`, `SubmitWrite` and
`SubmitReply` are the submit route (link signature, ownership read, conditional UPDATE,
answer); `RetrieveRead`, `RetrieveConsume` and `RetrieveReply` the retrieve route (status
read, DELETE ... RETURNING, answer). `Sweep` deletes what has been overdue for `Grace`.
`ClockFence`, `RestartFence` and `ReconcileClock` are the effects of a clock fence on this
table. `requester`, `accepted`, `told`, `delivered` and `age` are history.

**Exchange.** `CreateBegin` or `FulfilRead` starts a resolution: `ResolvePolicy` evaluates the
document of the moment, `ResolveApproval` reads the approval of its reference,
`RequestApproval` inserts one; `CreateInsert` or `Reserve` commits. Submission, retrieval and
revocation follow the pattern above. `DecideRead` and `DecideWrite` are an operator's verdict
with an Idempotency-Key. `ReplacePolicy` may happen at any step. `lapsed` is history: for how
long the decision an open exchange rests on has no longer been backed by the document or the
approval.

**Operations.** `CreateRead … CreateCommit` is an operator's intake and `IntentBegin …
IntentSettle` a workload's, `EnsureRead`/`Issue` the issuance that follows, `DecideRead`,
`DecideCommit` and `DecideReplay` the approval of a group. `CancelAwaiting`, `RevokeGrant` and
`WorkloadCancel` are the three ways to withdraw one operation; `RevokeWorkload`,
`UpdateWorkload`, `ReplacePolicy`, `RevokeNode`, `RotateKey` and `FencePurge` withdraw many.
`ExpireFleetState` is the maintenance pass, which the code also runs at the start of several
handlers. `Poll`, `OpenSession`, `ReceiveGrant`, `ReceiveRevocation`, `Announce`, `Consume`,
`Complete`, `Withdraw`, `Forget`, `ApplyResult` and `ApplyOutcome` are the channel and the
broker as the controller sees it.

**GrantVerifier.** Each file is a field of `disk`; a write succeeds, is lost, or fails after
its contents reached the disk. A consumption is split at its writes (`ConsumeStart`: queue the
"uncertain" result; `ConsumeRecord`: journal; `ActOnGrant`: the effect; `Complete`: queue the
result) with `Withdraw` on the error path. `AcceptTimeReply` writes the high-water mark and
compacts both journals. `ApplyRevocation` writes tombstone, outcome and event. `RetryEvents`,
`RetrySettings` and `RetryTombstone` are `retry_pending_persistence`. `Crash` may happen
between any two writes and `Restart` reads the files.

**Fulfillment.** `row`, `payload` and `recorded` are the controller's tables. `Create`, `Decide`,
`RevokeFulfillment` and `SendEvent` are its transactions; `SweepRead` and `SweepClose` are the two
halves of `expire_fulfillments`, between which anything may happen. `inbox` is the ordered inbox
of a node, `relayed` how far into it this relay process has got, and `Poll` the acknowledgement by
the next poll; a `RelayRestart` starts the batch again. `RelayDocument` is one document and what
the broker does with it (mint an offer, seal, open and store, drop); every one of them purges
first, as `purge_expired_credentials` does. After an applied authorization the relay asks for the
event in a second command (`RequestEvent`). `LoaderRead` is the unit's read; `PullEvents` maintains
the book and retries held reports. `ProvisionSealed` is root's own provisioning, at any time. `plan`
is what the scene still allows; `opened`, `read` and `covered` (the fulfillments in force when root
provisioned their destination) are history.

**NodeChannel.** `enrol` and `nodes` are the enrolment and node tables; `version`, `pending` and
`retired` the keys the controller knows; `inbox`, `delivered`, `acked` and `high` the documents and
their cursor. `stage` says where in `run_channel_session` the relay is; `PullEvents`, `SendEvents`,
`VerifyEvent` … `AnswerEvents`, `RelayAck` and `TrimOutbox` are one round of events, in which the
controller handles an event in several transactions and the relay acknowledges to the broker before
it trims its outbox. `Interrupt` is a lost answer anywhere, `RestartRelay` forgets the cursor,
`FenceClock` ends sessions and enrolments.

**FleetSettings.** `CreateRead`/`CreateCommit`, `UpdateRead`/`UpdateCommit`,
`RevokeRead`/`RevokeCommit`, `PolicyRead`/`PolicyCommit` and `GrantRead`/`GrantCommit` are the
handlers: they read rows, sign documents for what they read, and commit rows and documents together.
`ApplySettings` and `ReceiveGrant` are the broker with its files, `Restart` reads them back,
`Acknowledge` and `Break` are the relay. `lost` is history: documents whose write was still owed
when the broker restarted after they had been answered as applied.

**Operators.** `op`, `sess`, the counters and the locks are tables. `Bootstrap`, `SignIn`, `Sessions`
and `Administration` group the handlers; a sign-in is the gate, the read of the hash, the pair
counter, the total counter, the lock, and the session, each a transaction of its own. `history`
counts bootstraps and, per account, the wrong passwords that were answered.

**Provisioning.** `SetSourceBinding`, `CreateLink`, `ReadMetadata` and `SubmitProvisioning` are
operators' requests (authentication, then transaction); `IssueGrant`, `CloseGrant` the grant;
`Relay`, `RecordOffer` the daemon; `Maintain`, `EndLease`, `RestartBroker` the broker's book.
`minted`, `stored` and `authors` are history.

**BrowserSession.** `mem` and `disk` are the journal and its snapshot, `actor` the local state of
`run_actor`; `helper`, `site` and `browser` live outside the broker and survive its crash. `Dispatch`
reserves and starts; `ActorStep` groups the steps of an actor; `RecoverFull`, `RecoverLight` and
`RecoverStep` are the recovery passes, `Maintain`, `TryUnfence` and `RetryBrowserClosures` the duties
of the dispatcher thread between them.

**BrokerRequests.** `mem` and `disk` are the snapshot of owners, closures and queued events;
`Request`, `Withdraw`, `CancelOperation`, `WithdrawAgain` the workload's commands; `Dispatch` …
`Recover` the session as the requests see it; `PruneCrowdedOwners` the reclamation; `ReceiveGrant`,
`ReceiveClosure` the controller's documents. `drawn`, `stopped` and `promised` are history.

**Ownership and Recovery.** `ledger` is the authority's row, `proc` a controller process or
maintenance command with the record it claimed, `root` the copies of the state. `Claim`, `OpenBegin`,
`OpenFinish`, `Admit`, `Commit`, `Land`, `Monitor`, `Disconnect`, `Exit` are a serving process;
`ExportSeal`, `ExportMark`, `ExportReceipt`, `Abort`, `Import` a handoff; `Backup`, `RestoreLoad`,
`PrepareRecovery`, `BindSnapshot`, `InvalidateRecovery`, `PublishRestored` a restore. In `Recovery`
brokers report (`OpenChallenge`, `BrokerPins`, `StagePage`, `FinishReport`, `ApplyReport`), an
operator decides, waives and completes a review in three steps, and the administrator activates.
`commits` is history, as are `stray` (a destination started although its handoff was aborted) and
what a record of `complete` says its completion read.

### Abstractions

* A store function is one atomic step. SQLite gives that; isolation anomalies of PostgreSQL
  (for example in `store/workload_authority.rs:96`) are not modelled.
* Signatures, encryption and tokens are taken to work: a document is a record, a ciphertext is
  identified with its submitter or a value, a token with its holder. Byte limits are left out.
* *Operations*: one node and one workload. The row version and the recipient key are left out of
  `Matches`; the group a request joins is any joinable one instead of the newest; the batch size of
  the expiry pass is not modelled; several reads of one handler are one when the transaction
  validates them again; freshness windows (60 s) only add refusals; one issuer epoch. The broker's
  view of deadlines is the conservative one: it may consume until the deadline and not after.
* *GrantVerifier*: policy and registration share one version (`settings`); one issuer epoch
  and one recipient key; one constant for both retention periods (24 h and 7 d in the code).
  The controller's answers to a time challenge are abstracted to `stamps`, the times that an
  answer under way may bear, cleared when one is accepted or the broker restarts. The steps of
  a consumption after its first read neither clock nor document, so the environment moves
  before or after them. Not taking a retry action is the retry that fails. The capacity limits,
  the overflow event, the recovery cursor, `grant_rejected` audits, the journal header and forward
  jumps of the clock are left out.
* *Fulfillment*: one issuer, one recipient, one destination. The broker's queue and the node's
  outbox are one sequence per side, sent oldest first. Both brokers and the controller see the
  same deadline. Node revocation, key rotation, the issuer epoch, the opt-in flags of the broker,
  its tombstone limit, the `SWEEP_BATCH` of 200 rows a sweep takes at once (the rest wait for the next
  one), and a second sweep at the same time are left out; a failed write of the queue
  counts as a full one.
* *NodeChannel*: one handler of the controller at a time; challenges are not replayed; grant
  tombstones belong to `Operations`; the trusted time of the overflow event and
  `publish_broker_identity` are left out.
* *FleetSettings*: one node; a unit stands for every registered field; the reads of workload and
  policy of one handler are one step.
* *Operators*: the windows of the counters lapse at any time; the gate and the role check of a
  handler are one read each; `disabled_at` is set only by recovery and left out.
* *Provisioning*: one resource and one node; the rotation of the broker's key is seen at its three
  visible moments; the end of a grant is one step; retention pruning, the status route and the
  expiry of stored credentials are left out. Leases are process memory of the broker.
* *BrowserSession*: an account stands for account and unit; one clock; loss of authority is a
  failure of the actor, a regression of time a refusal; preflight and helper start, and connecting
  and preparing, are one step each. The limit of 16 actors and of records, proxy, catalog and panics
  are left out; a stop that was acknowledged is taken as done.
* *BrokerRequests*: one workload; registration, policy and catalog are one version; eviction takes
  any evictable owner; a result and its audit event are one event of weight two; `node_revoked` and
  deferred revocation outcomes are left out.
* *Ownership*, *Recovery*: one handoff identifier; one write is one operation; one page per report;
  a restore has the granularity of PostgreSQL; owner, tenant and issuer are constant. `Stopped`
  (the administrator's attestation that the source is stopped) is an assumption about people.

## 3. What the runs check

Every run finishes with its state space exhausted.

| Run | Question and properties |
|---|---|
| `controller` | Three concurrent handlers of two agents and two submitters on one request: `DeliveredAsPromised`, `LifetimeBounded`, `NoResurrection`, `EventuallyErased`. And a handoff with abort under lost connections, and four recoveries with brokers that report, are waived or consume late: `OneLineage`, `RestoredSafely`, `GuardFreed`. |
| `handoff` | *Expects a violation*: `HoldersApart`, what `handoff.rs` and `docs/deploy/handoff.md` say of two holders, fails when an export is aborted after its import (6.7). |
| `exchange` | Three handlers reserve, submit, retrieve and revoke one exchange; and two operators decide under rules that share a reference while the document is replaced: `DeliveredAsPromised`, `ApprovedByAssigned`, `RetryDecidesNothing`, `ReservedInForce`. |
| `operations` | Two requests in groups decided in two handlers; a native operation under any rule while policy, registration and clock change, and one while the node's key is rotated; a browser request cancelled at any step while its authority is withdrawn: `Authorised`, `TablesAgree`, `NotExecutedIsTrue`, `WorkEnds`. |
| `grant_verifier` | One grant through a failed write, a crash, newer settings and a clock set back: `OneUseContract` (refinement of `GrantContract`), `AuthorityInForce`, `ReportsTrue`. |
| `fulfillment` | A transfer and its replacement under any rule, with one disturbance at any step, root's provisioning among them: `OpenedOnce`, `NeverOverwritten`, `CompletedMeansRead`, `EveryFulfillmentEnds`. |
| `other_sources` | *Expects a violation*: `OtherSourcesKept`, what `docs/product/cross-workload-fulfillment.md` says of credentials from other sources, fails when root provisions a destination that is then replaced (6.4). |
| `node_channel` | Two enrolments for one name; a busy broker with a full queue, a rotation and two disturbances: `EnrolledOnce`, `AckedIsApplied`, `EventsKept`, `KeysAgree`, `ChangesComplete`. And handlers of fleet settings race each other and a node that joins or leaves, while the broker loses writes or restarts: `SettingsSound`, `SettingsDrain`. |
| `operators` | Racing bootstraps, administrators, resets and refreshes, guesses from two addresses: `BootstrappedOnce`, `SessionsSound`, `GuessesBounded`. |
| `provisioning` | One grant under every pair of disturbances, two grants that compete for the book: `StoredAsCollected`, `OneOfferPerGrant`, `InboxDrains`. |
| `browser_session` | One operation under three failures, two on one account, one beside a ready session: `AccountExclusive`, `JournaledFirst`, `AccountFreed`. |
| `broker_requests` | Retries, cancellations and withdrawals against failed and torn writes, a crash, a full queue and eviction: `RequestsStand`, `CancellationDelivered`. |

Eight properties have an exception, written into the formula and reached by the run, for something the
code does against its own comments or documents (section 6): `OneLineage` a destination that was
`stray`; `RestoredSafely` what arrived after the completion had read; `CompletedMeansRead` and
`NeverOverwritten` a destination that root `covered`; `ChangesComplete` an event `InTheWay`;
`SettingsSound` and `SettingsDrain` settings `lost` with an owed write; and `WorkEnds` an operation
`Stranded` by a rotation, with the promise (`OnlyRotationStrands`) that nothing else strands one.
`HoldersApart` and `OtherSourcesKept` are the corresponding claims without the exception.
`AccountFreed` says that a closed session record does not stay unreported, not that it is never
pruned unreported: `prune` looks at its age alone.

### Bounds, and why they are enough

* `controller`, requests: the row of a request is touched by no other request, so one identifier is
  enough; three connections let two handlers race while a third finishes or retries; a lifetime
  of 2 leaves room for a submission on the first and on the last tick; `Grace` 1 separates
  expiry from deletion.
* `exchange`: delivery needs three connections (two rivals and a revocation) and no approvals;
  approval needs two connections, two operators, documents that ask with different approvers, one
  that allows and one that validation refuses, and a `RequestTimeout` of 1, the code's request time
  limit, after which a handler is dropped.
* `operations`: two requests with groups of one or two members open one group or two; native and
  browser requests follow one operation, because apart from groups operations meet only in sets
  that are treated elementwise; two ceilings and two versions make stale drafts and stale policies
  possible. `acts` selects the administrative actions of a scenario; together they take all of them.
* `grant_verifier`: grants share only the clock, the settings and the queue, whose entries are
  kept per grant, so one grant is enough; one failed write and one crash, in any order and place; the
  lifetime 1, retention 1 and three ticks let a record be pruned and the grant be offered again.
  The clock may be set back by at most the retention (`SetBackAssumption`); beyond it see section 6.
* `fulfillment`: two fulfillments, the second of which replaces the credential of the first. Each of
  `Scenes` fixes the policy, the fulfillments requested and the disturbances that may happen;
  `MaxFaults` 1 lets one of them happen, at any step, because two exceed what TLC exhausts. Root's
  provisioning is the disturbance of the scene with a replacement. Lifetimes of 2 for terms and 1
  for an offer let an offer lapse under live terms.
* `node_channel`: a queue of one place overflows with the second event; two documents and a batch of
  two let the cursor stand between documents of a batch; one rotation (`MaxVersion` 2) is enough
  because the next starts from the same state; events may wait in queue and outbox when it starts.
  Two disturbances with a busy broker, one with two enrolments. Settings: two workloads on two units
  can conflict and swap; three requests let two handlers race after a first one; two failed writes
  and one break or restart (`Moving`, `Unwritten`) are what it takes to lose an acknowledged document.
* `operators`: limits of 2 to 3 failures with two requests in flight let the last guesses race the
  lock; three sessions are a family with a replay, or a family beside another; four budgets divide
  requests, sessions, time, passwords and guesses, because all together exceed what TLC exhausts.
  Accounts, addresses, requests and tokens are interchangeable (the run has no liveness property).
* `provisioning`: two grants compete for one place of the book and one Idempotency-Key; one grant
  meets every pair of disturbances; an offer lives 1 and a grant 2, so an offer can lapse within one.
* `browser_session`: all durations 1, grants issued at time 1 and time until 4, after which a record
  has been released and pruned.
* `broker_requests`: a table of one owner makes every retry evict; a queue of two is full with one
  result; two event keys are a request and its retry.
* `controller`, database: two processes race for the guard; two destinations show a second import; revisions,
  starts and writes are bounded per scenario so that each chain can complete once and be repeated. Starting both destinations in turn takes five starts, with the commands that do nothing
  for it left out (`InTurn`); a start after an abort takes one destination and five starts.

Bounded counters end behaviours, hence most runs do without a deadlock check; `exchange` and
`operations` have it.

`OutcomeTrue` (in `ReportsTrue`) has two exceptions that the code makes too: a tombstone that existed
only in memory when the broker stopped (`forgotten`; the broker had said it was not durable), and a
revocation first delivered after the record of the consumption was past its retention.
`LifetimeBounded` uses `RequestTtl + SubmittedTtl` and not their maximum, because a submission
replaces the deadline rather than shortening it.

### Fairness

* `WF(Tick)`: time passes.
* `WF(Sweep)`, `WF(Expire)`: the maintenance loop of `main.rs` runs every 30 seconds for as long as
  the process lives and logs an error rather than stop. No handler and no client is assumed to
  proceed; the sweep is not fair under a clock fence, where the code refuses to sweep, hence "or
  fenced" in `EventuallyErased`.
* `Operations`: polling, receiving and `ApplyOutcome` are fair: a running node polls in a loop and
  delivers. `RevocationsReported` therefore excludes nodes that are no longer active.
  `EveryOperationEnds` is for native operations: a browser operation in `executing` waits for the
  broker's own result without a deadline of the controller.
* `NodeChannel` `WF(Round)`, `Provisioning` `WF(Relay)`, `FleetSettings` `WF(ApplySettings(TRUE))`,
  `WF(ReceiveGrant)`, `WF(Acknowledge)`, `BrokerRequests` `WF(PullEvents)`, `WF(AckEvents)`: systemd
  keeps the relay running and its loop retries for ever; writes fail finitely often.
* `BrowserSession` `WF(RecoverStep)`, `SF(Maintain)`, `SF(TryUnfence)`, `SF(RetryBrowserClosures)`:
  the dispatcher thread runs its loop for as long as the broker lives; its duties come round between
  recovery passes however often those interrupt, hence strong fairness. Nothing is assumed of
  actors, helpers or the website.
* `Recovery` `WF(Monitor)`, `WF(Drop)`: the monitor of a process ticks every second, and the select
  that waits for the fence drops the operation.

## 4. Proofs

Each theorem holds for every value of the constants that satisfies the named assumptions: any
number of rows, agents, handlers, grants, operators, sessions, documents, crashes and failed
writes, and all lifetimes. Every `Scenarios` constant is arbitrary in the proofs; the budgets of
the runs play no part in them.

| Module | Theorem | Statement |
|---|---|---|
| `SecretRequestProofs` | `TypeCorrect` | `Spec => []TypeOK` |
| | `OneUseDelivery` | `Spec => []DeliveredAsPromised` |
| | `BoundedLifetime` | `Spec => []LifetimeBounded` |
| | `NeverRevived` | `Spec => NoResurrection` |
| `ExchangeProofs` | `OneDelivery` | `Spec => []DeliveredAsPromised` |
| | `RetriesAreInert` | `Spec => RetryDecidesNothing` |
| | `ApprovalsAreAssigned` | `Spec => []ApprovedByAssigned` |
| | `ReservationsAreInForce` | `Spec => ReservedInForce` |
| `GrantVerifierProofs` | `ContractKept` | `Spec => OneUseContract` (refinement) |
| | `AuthorityHolds` | `Spec => AuthorityInForce` |
| | `ReportsHold` | `Spec => []ReportsTrue` |
| `OperatorsProofs` | `BootstrapHolds` | `Spec => []BootstrappedOnce` |
| | `GuessesHold` | `Spec => []GuessesBounded` |
| | `SessionsHold` | `Spec => []SessionsSound` |
| `CredentialProofs` | `OneOffer` | `Spec => []OneOfferPerGrant` |
| | `StoredHolds` | `Spec => []StoredAsCollected` |
| | `PayloadsOpenOnce` | `F!Spec => []F!OpenedOnce` (`F` an instance of `Fulfillment`) |
| `NodeChannelProofs` | `EnrolmentsHold` | `Spec => []EnrolledOnce` |
| | `AcksHold` | `Spec => []AckedIsApplied` |
| | `EventsHold` | `Spec => []EventsKept` |
| | `KeysHold` | `Spec => []KeysAgree` |
| `OperationsProofs` | `GrantsAreAuthorised` | `Spec => []Authorised` |
| | `TablesStayInAgreement` | `Spec => []TablesAgree` |
| | `NotExecutedHolds` | `Spec => []NotExecutedIsTrue` |
| `BrowserSessionProofs` | `AccountsAreExclusive` | `Spec => []AccountExclusive` |
| | `JournalPrecedesEffects` | `Spec => []JournaledFirst` |

None of these properties is inductive as it stands. The strengthenings, and why each is needed:

**SecretRequest** (assumptions: lifetimes and grace are positive, the null value is no identifier).
Between the DELETE and the answer the only copy of the ciphertext is held by a connection, and
nothing in the property excludes a second holder. `IInv` says where the copy is at every moment:
`RowsAgree` (the owner is the requester, a pending row has no accepted submitter, a submitted one
carries the accepted ciphertext), `CallsAgree` (a handler that has stored or consumed holds what its
commit recorded, and while one holds a consumed ciphertext the row is absent), `OneHolder`,
`DeliveredAgree` (after the delivery the row is absent for ever), `ToldAgree` (only the accepted
submitter was told 201). `BoundedLifetime` rests on `AgesAgree`: age and time left of a pending row
add up to `RequestTtl`, of a submitted one to less than the sum of both lifetimes.

**Exchange** (assumptions: positive lifetimes; `TimeoutAssumption`, the request time limit does not
exceed the sweep's grace, 10 s against 60 s; names are distinct from the null value; scenarios name
existing things). `ExchangeProofs.IInv` is the invariant above with the reservation and the
revocation added: a handler that was told "revoked" leaves a row that can never be consumed. The
time limit matters: without it a handler could read a row, see it expire, be swept and be created
anew under the same name. For the approvals the module adds `KeyInv` (an Idempotency-Key is remembered
until its time is over) and `AInv`: everything a handler carries through a resolution (`ResolveSound`)
or a decision (`DecideSound`) was true of the tables when it was read and is at most as old as the
handler; an approved row was approved by an operator its rule assigns (`ApprovalSound`); an open
exchange has a backed decision or a `lapsed` clock that has been counting since it lost its backing
(`OpenedSound`, `LapseSound`). `EvaluateYields` and `FirstExists` are the facts about the policy
evaluation that these need: the decision comes from the first matching rule of the document.

**GrantVerifier** (assumptions: positive durations, `Tolerance <= Retention`, and
`SetBackAssumption`, the controller's clock is never set back by more than the retention).
`TimeInv` relates the broker's estimate, its high-water marks in memory and on disk, the answers
under way and the controller's clock: the estimate is never behind the controller by more than the
lag, so what the broker takes for unexpired is. `GrantInv` says of every grant why it cannot come
back: a spent grant is in the journal on disk until it is so old that `accept_grant` refuses it
(`SpentKept`), a revoked one has its tombstone equally long or the broker is fenced (`RevokedKept`),
and a job in progress has its queue entry and its journal record in the order of the writes
(`JobSound`). The refinement maps each step to a step or stutter of `GrantContract` (`Refines`, one
lemma per kind of step). `ReportInv` adds where a result or an outcome is between journal, queue, disk
and controller (`ResultSound`, `OutcomeSound`).

**Operators** (assumptions: limits and lifetimes are positive, session identifiers are numbers, and
finitely many requests are in flight). `LimitInv`: while an account is not locked, the wrong passwords
answered are at most its counter, which is below the limit; once it is locked, answers so far plus
the requests that had passed the gate stay within the bound. `SessInv`: the root row of a refresh
family bounds all of it, and a family has one row that is not revoked (`FamilyInv`); a live session
carries the account's current hash (`CurrentInv`); and, what makes this inductive, the hash a handler
carries is never newer than the account's, and what it learned with it still holds while they are
equal (`CallInv`). Finiteness of `Calls` is needed to count them (`FewerPast`).

**Provisioning** (assumption: lifetimes are naturals). `BrokerInv`: an offer in the history has its
entry in the book until the lease or the grant is over, and that is final (`MintInv`); a stored
source has an entry marked as attempted until then (`StoreInv`); so neither can happen twice, also
when the book is full or purged, the broker restarts or a delivery is repeated. `OwnerInv`: the rows
of offers and receipts are written once, so that every delivery in the inbox and every stored source
still agrees with the receipt of its owner (`InboxInv`, `StoredInv`) although bindings change.

**Fulfillment** (no assumptions). Nothing in the recipient's memory says that a payload was opened: a
restart forgets the book and the tombstones, after which the broker mints again for the same
fulfillment and a restarted relay hands it every document of the inbox once more. What rules out a second
opening is the number of the offer. `FInv`: each offer of a fulfillment has a number of its own, at most
`minted`; the row records one offer and never another, and every delivery in the inbox carries that one
(`Carries`); and once the payload was opened no entry is offered under that number (`Agree`), so that the
same delivery meets either no entry or one with a later offer. A row that is pruned has no time left, so
its deliveries are refused. `CredentialProofs` extends `Provisioning` and states this about
`F == INSTANCE Fulfillment` over constants and variables of its own.

**NodeChannel** (assumptions: the hosts differ, the limits are positive, requests are told apart from
audits, scenes are well formed). `IInv` joins four parts. `EnrolInv`: an approved request's host is no
longer without a node, so it cannot be approved again. `DocInv`: what the relay holds in its hand
follows on what the broker applied (`HandSound`, from the order `poll_node_inbox` selects in,
`OutstandingSound`), the relay's cursor was applied, and a revocation document is the last of the
inbox, so that a revocation report in transit means every document was applied. `KeyInv`: the broker is
at the version in force or the pending one, there are as many rotation documents as versions, and no
rotation is reported beyond the broker's version (`InTransit` is every key in the queue, the outbox or
the batch); hence a completion only retires a key the broker has left. `EventInv`: keys answered were
recorded or discarded. `KeepingYields` is what the proofs need to know about filtering a sequence:
the members and their order. It is shown for every sequence by a least counterexample.

**Operations** (assumptions: lifetimes are positive, the null value and the workload are no operators,
a rule that asks for an approval names approvers, fleets are well formed). `IInv` adds to
`TablesAgree` what the next issue or decision relies on. `GroupsSound`: a group is named after the
operation that opened it and no operation points to a group that was never opened, so a new group
cannot inherit members or consents; members are finitely many, which the limit on a group needs.
`DecisionsSound`: everything that may still be granted was allowed or `Consented`, from the moment of
the decision, not of the grant. `GrantsSound`: an operation has a grant exactly when it has left the
states before one, it was counted once, under the operation's version, and before that nothing about
it is queued, held or reported; while it is only `issued` its document has not been sent.
`FailuresSound`: what failed has an expired grant that the broker did not use, hence cannot use.
The steps that issue and approve nothing share one argument (`TablesStep` over `Moved`, the ways one
row may change), those that withdraw authority from every operation at once another (`EndingKeeps`);
`GrantKeeps`, `CreateKeeps`, `ApprovedKeeps` and `TickKeeps` stand alone.

**BrowserSession** (assumptions: positive durations; a grant for a browser session, 120 s at most,
lives no longer than the record of its operation is kept, 24 h; the sessions that exist at the start
have accounts of their own). `IInv` speaks of one operation at a time: its record in memory and on
disk, its actor and the three things outside. `RecordOk` is the shape `load` demands, for both copies.
`Covers`: a record that is not unfinished stands for nothing outside, and whatever an
unfinished one names started inside its login window; with `WorldOk` (units and sessions end by
themselves) this is why `release_expired` may close a record that nobody revoked: the release comes
after window, helper and session have all run out. It must hold of the snapshot too, because a failed
write leaves either copy, and a restart takes the older one up. `ActorOk`: what an actor has learned of
stops and revocations is still true when it reconciles, and the record of a working actor is durable or
was released after the window. `Recovering`: what the dispatcher counts as terminated has no actor and
no unit, and will not have one again; that needs `Unspent`, a grant that may still be dispatched is not
older than its record, and the assumption on the life of grants: otherwise a record could be pruned and
its operation reserved anew while a pass still trusts the earlier stop. The attempt also corrected the
model: it let a revocation by an actor that had outlived its record's retention write a record for an
operation that has none, which `begin_revoke` and `reconcile` refuse.

*Only model-checked.* Every liveness property (`EventuallyErased`, `WorkEnds`,
`EveryFulfillmentEnds`, `ChangesComplete`, `InboxDrains`, `SettingsDrain`, `AccountFreed`,
`CancellationDelivered`, `GuardFreed`): liveness under fairness and ENABLED are outside the prover's
reach, as are induction over data and `RECURSIVE` operators, which no module uses. Of the safety
properties:

* `SettingsSound` (`FleetSettings`), `OneLineage` and `RestoredSafely` (`Ownership`, `Recovery`) range over
  chains of documents and writes, and of copies, claims and activations; with the exceptions above they
  may hold for every value of the constants, but their inductive invariants have not been found.
* `RequestsStand` (`BrokerRequests`) is about weights summed over the sets of owners and queued events; the
  sums are folds, and facts about them are induction over data.
* `CompletedMeansRead` and `NeverOverwritten` (`Fulfillment`) rest on the order in which documents of
  different fulfillments reach one broker.

## 5. What is left

How `check_clock` measures a regression (so far a fence happens at any time), the capacity limits of
the broker's grant store, upgrade and seed of the controller's database, and the journalled migration
of the OpenClaw plugin's store.

Not to be modelled, and why: canonical encoding, signatures and HPKE (pure cryptography, assumed
to work); TLS, proxying, sockets, `/proc` and systemd evidence (operating-system I/O whose result
the models take as accept or refuse); command line, JavaScript clients, desktop widgets, packaging
(no authority of their own; their calls arrive in any order anyway); the audit log (written inside
the modelled transactions, read by none of them).

## 6. Disagreements between code and comments

Met while modelling. The models behave as the code does in all of them but 2, which an assumption
excludes. Items 4 and 7 have runs that expect the violation (`other_sources`, `handoff`); 1, 3, 4, 6
and 8 are exceptions of a property, which its run reaches. `PROJECT.json` lists these as findings.

1. `stage_node_key_rotation` (`store/fleet.rs:1252`, `:1454`) sets grants past their deadline to
   `expired` but leaves their operations `granted`; the maintenance pass finds operations through
   grants that are still outstanding, so these are never ended. A comment at
   `store/operation_approvals.rs:914` says the pass moves "expired approval groups, ungranted
   operations and grants to their terminal states". (`Stranded` in `WorkEnds`.)
2. `accept_time_reply` (`broker/grants.rs:267`) takes over the new high-water mark in memory only
   after both compactions succeeded. When a compaction fails after its rename, the consumption
   record is gone while the rollback check still uses the old mark; a controller clock that is then
   set back by more than the retention makes a consumed grant acceptable again. It takes a failed
   directory sync and a clock error of more than a day together. (`MaxLag > Retention`.)
3. A policy or registration whose write failed is refused as not durable, but answered as applied
   when it is delivered again while the write is still owed (`broker/control.rs:466` against
   `broker/lib.rs:2616`); a restart brings the previous version back. If it was the first of its workload, a
   grant bound to it is refused for want of a registration and blocks the inbox, against
   `broker/control.rs:583`. (`lost` in `SettingsSound`, `Stranded` in `SettingsDrain`.)
4. `provision_sealed` (`broker/lib.rs:509`) replaces the value of a destination and leaves the
   fulfillment book alone. A fulfillment that replaces the earlier one then overwrites root's
   credential, although `docs/product/cross-workload-fulfillment.md:145` says "a live credential
   from any other source is never overwritten". (Run `other_sources`, `covered` in
   `NeverOverwritten`.) The unit then reads root's value while the fulfillment is reported completed,
   against line 34 of the same document. (`covered` in `CompletedMeansRead`.) And a fulfillment whose
   prior has been pruned makes a live destination impossible to replace (`prior_invalid`).
5. `revoke_node` (`store/fleet.rs:841`) records as `failed` an operation whose delivered grant is
   past its deadline, also when the broker consumed it; `store/operation_approvals.rs:734` says of
   the expiry pass "one that may have run is uncertain". (`NotExecutedIsTrue` is about active nodes.)
6. An event that waits in the relay's outbox, signed with the old key, during a rotation is signed
   again by the broker with the new one and refused as a key reused (`outbox.rs:134-162`); an
   `operation_request` queued before the acknowledgement of a rotation is refused as invalid. Either
   stalls the rotation, against `routes/node.rs:801-802`. (`InTheWay` in `ChangesComplete`.)
7. An aborted handoff: a destination imported before the abort may be started after it, and then two
   copies are served, although `docs/deploy/handoff.md:126-127` and `handoff.rs:10-13` say the source
   alone goes on. (Run `handoff`, `stray` in `OneLineage`.)
8. A report or waiver that is applied while a review is being completed may leave an undecided item
   behind it, against `store/recovery/review.rs:233-235` and
   `docs/deploy/recovery-activation.md:36,62,89`. (`RestoredSafely` is about what the completion read.)
9. `broker/ops/fulfill.rs:103` says held reports are "retried, never dropped"; `retire_fulfillment`
   clears `unreported`. And `SweepClose` acts on a verdict that was read before: it may set
   `uncertain` after the stored event has arrived.
10. Smaller ones: the comment "an account-wide lock cannot be present on success" of the login
    handler does not hold for a request that passed the gate before the lock;
    `record_node_audit_event` (`store/grants.rs:633`) refuses two reasons the broker emits
    (`broker/lib.rs:2187`); `grant_matches_context` does not compare the registration version; a node
    activated between `active_node_ids` and the policy's commit keeps the old policy until the next
    edit; regressions of the controller's clock within the tolerance lower its anchor.

## Running

    tlc -config GrantVerifier.cfg GrantVerifier
    tlc -config Controller.cfg MCController      (Handoff.cfg: expects a violation)
    tlc -config Fulfillment.cfg MCFulfillment    (OtherSources.cfg: expects a violation)
    tlc -config Exchange.cfg MCExchange          (likewise Operations, NodeChannel, Operators,
                                                  Provisioning, BrowserSession, BrokerRequests)
    tlapm SecretRequestProofs.tla                (likewise the other ...Proofs modules)
