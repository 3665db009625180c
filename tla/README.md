# TLA+ models of vero-audit-guard

This directory holds a verification project for the `vero-audit-guard`
repository: TLA+ modules that model its stateful parts, TLC configurations that
check them on small instances, and TLAPS proofs of the safety properties that
matter most. Paths below are relative to the repository root.

`PROJECT.json` is the machine-readable index: the components, the runs, the
source lines every definition stands for (`map`), the hazards of the code with
the properties that cover them, and the mutants, which are variations of single
definitions ("slips") that each property is known to detect.

## 1. Inventory

The repository is a set of tools around the audit of the Vero protocol: a Rust
and TypeScript package (`src/audit-guard`), a blockchain log detector
(`anomaly-detector`), an RPC relay (`atomic-rpc-relayer-bridge`), a report
verifier (`verifiable-audit-trail`) and source scanners (`scanner-engine`).
They share few run-time interfaces: the policy engine drives the protocol state
machine; the drift consumer drains the telemetry queue; the anomaly detector
uses the node health checker, the failover monitor, the alert rules and the
threat feed; the log analyzer feeds the rate limit monitor, which uses the IP
tracker; the notifiers are called by everyone through HTTP.

| Component | State | Operations | What is hard | What makes it correct |
|---|---|---|---|---|
| Treasury time lock (`src/audit-guard/src/lib.rs`) | table of outflow requests with status and times | schedule, release, cancel, sweep | callers bring their own clocks; statuses advance lazily; the expiry time wraps; a pending limit | nothing leaves outside its window; nothing settles twice; the limit holds |
| Protocol state machine (`protocol-state-machine.ts`) | phase, active scan, capped transition history, observers | lifecycle events, RESET, shutdown | late events of an earlier scan; skewed timestamps; eviction | history is unbroken; a session belongs to one scan |
| Policy engine (`policy-engine.ts`) | one machine shared by all evaluations | evaluate | evaluations interleave at awaits and swallow each other's events | sessions end; a crash never yields COMPLIANT |
| Atomic bridge (`atomic-rpc-relayer-bridge/src/index.ts`) | audit log; per relay: attempts, votes | relay: failover, retry, quorum verification | parallel calls, faulty endpoints, retry of what was submitted | a faulty minority verifies nothing false; a submission is not replayed |
| Telemetry queue (`telemetry_queue.rs`, `drift_consumer.rs`) | channel, flags, the receiver behind a mutex | enqueue, graceful_shutdown | check-then-send race; concurrent shutdowns; a sink that fails or hangs | nothing accepted is lost; order; a drained backlog |
| Emergency exit (`core/emergency-exit.ts`) | halted flag, version, used payloads, receipts, lock | halt, withdraw, recover, rehydrate | an awaited hook holds the lock; restarts between steps | an alternating receipt chain; withdrawals only while halted |
| Nonce database (`anomaly-detector/src/index.ts`) | nonces in memory, `nonce-db.json`, lock directory | load, analyse, save | processes race and crash; non-atomic replace on some platforms | stored nonces never go back |
| Alert rules, node health, polling loop, failover monitor (`anomaly-detector`) | current node, outage start, metrics | poll, health check, failover | overlapping interval callbacks; callback order | one failover per outage; latency measured from the first failure |
| Ingestion guard (`telemetry-ingestion-guard.ts`) | token bucket, bounded queue, counters | admit, drain | refill rounding, drop-oldest at the limit | bounds; counters add up |
| Threat feed (`threat-feed-fetcher.ts`) | cached indicators | update, match | overlapping updates; partial failure | stale data never replaces newer data |
| Nonce watcher (`watcher/nonce-anomaly-watcher.ts`) | nonce per address | sync, register | state object kept across awaits | counters not lost |
| Rate limit monitor, IP tracker, log analyzer | windows per address in insertion-ordered maps, bans | record, sweep, ban | eviction at the limit; order of the map | a window never undercounts; bans hold |
| Alert delivery (dispatcher, dashboard client, webhooks, roster, IRPS) | queues, counters, rotation | dispatch, flush, retry, shutdown | shutdown mid-batch; retries after delivery | no alert lost silently |
| Batch processor, gas profiler | worker pool, result array | run batch | workers share an index | each call once |
| Audit trail (`verifiable-audit-trail`), report store (versions, archive, backup) | files, counters | verify, archive, version | non-atomic file operations | a verified report is the hashed one |
| Policy bundles, severity tiering, RBAC, gate, state validators, write path, hot reload | configuration, watched files | verify, rank, decide, reload | two implementations of one rule; reload while in use | agreement with a reference definition |
| Scanners, diff engine, reports, CLI, UI, scripts, report versions | none or counters | | | text processing: outside TLC's reach |

`PROJECT.json` lists every source file under its component, and every hazard at
its line.

## 2. Modules

In parentheses is the module with the proofs, which is the module's own where
`+Proofs` stands.

| Module | Models | Notes |
|---|---|---|
| `TreasuryTimeLock` (+`Proofs`) | `lib.rs`, treasury part | |
| `OutflowContract` | what the time lock promises a caller | abstract; `TreasuryTimeLock` refines it |
| `ProtocolStateMachine` (`AuditProofs`) | `protocol-state-machine.ts` | |
| `PolicyEvaluation` (`AuditProofs`) | `policy-engine.ts`, `evaluate` | EXTENDS `ProtocolStateMachine`: the composition |
| `AtomicBridge` (+`Proofs`) | `atomic-rpc-relayer-bridge/src/index.ts` | |
| `TelemetryQueue` (+`Proofs`) | `telemetry_queue.rs`, `drift_consumer.rs` | |
| `EmergencyExit` (`AlertProofs`) | `core/emergency-exit.ts` | |
| `NonceStore` (`DetectorProofs`) | nonce database of `anomaly-detector/src/index.ts` | |
| `AnomalyDetector` (`DetectorProofs`) | polling loop, node health, failover monitor, threat feed of `anomaly-detector` | |
| `IngestionGuard` (`MonitorProofs`) | `telemetry-ingestion-guard.ts` | |
| `TrafficWatch` (`RuleProofs`) | `rate-limit-monitor.ts`, `ip-tracker.ts` | the two limiters share their operators |
| `NonceWatcher` (`MonitorProofs`) | `watcher/nonce-anomaly-watcher.ts` | |
| `BatchProcessor` (`RuleProofs`) | `batch-contract-call-processor.ts`, `gas-profiler.ts` | |
| `SignerNotification` (`AlertProofs`) | `multisig-webhook-notifier.ts`, `oncall-roster.ts`, `irps.ts` | |
| `AlertDispatcher` (`AlertProofs`) | `anomaly-alert-dispatcher.ts`, `dashboard-client.ts` | |
| `WebhookAlert` (`AlertProofs`) | `webhook.ts` | |
| `ReportAnchor` (`AuditProofs`) | `verifiable-audit-trail` | the Stellar ledger is external |
| `ReportStore` (`AuditProofs`) | `archiver.ts`, `backup.ts` | |
| `RoleMapper` (`AuditProofs`) | `rbac-mapper.ts` | |
| `LogSpikes` (`RuleProofs`) | `log-analyzer.ts` | |
| `SeverityTiering` (`RuleProofs`) | `severity-tiering.ts` | |
| `PolicyBundle` (`RuleProofs`) | `policy-bundle-verifier.ts` | |
| `Selection` | `sort()` and `filter()` of the five modules above that `RuleProofs` is about | no state |

The `MC` modules hold the constants of the runs. `MCPolicy`, `MCDetector`,
`MCMonitors`, `MCAlerts`, `MCEvidence` and `MCRules` put several modules into one
run. Where these have no variable in common, a selector chosen in `Init`
(`half`, `focus`, `channel`, `kept`, `rule`) says which of them moves, so that
the run adds their state spaces instead of multiplying them; it is not a claim
that they run one at a time in the program. In `MCPolicy` the selector chooses who
drives the one machine, the engine or an arbitrary caller.

A definition whose comment begins with "Slip:" is a mutated copy of the definition
that follows it and takes no part in the specification.

### Correspondence with the code

**TreasuryTimeLock.** `requests` is the manager's map; each record keeps the
fields `verify_state_integrity` relates (status, scheduled, unlock, settlement
times). One action per public method, each with a clock value the caller chooses
freely, since the code takes `now` as an argument and never compares it with an
earlier one. The lazy transition Pending -> Executable -> Expired is applied
inside release and cancel as in the code, before their guards. Additions that the
code does on `u64` are taken modulo `WordSize`. Identifiers and justification
texts are opaque. The refinement mapping (`Phases`) forgets times and statuses: a
request is absent, open, paid or void, and `told` counts how often a caller was
told that it was settled.

**ProtocolStateMachine.** The checks of `apply()` in their order, the transition
table, the scan-id check, the capped history, RESET and shutdown. An event carries
whether its timestamp is outside the accepted window. Observers do not call back;
note that `_applyReset` clears `activeScanId` after the observers ran, so an
observer that started a scan from that callback would lose its id.

**PolicyEvaluation.** An evaluation is a process with a program counter; it
advances one `await` at a time over the shared machine. Events the machine
ignores are ignored here too, because the operators are those of the machine.

**AtomicBridge.** One relay in detail: the primary attempt with failover and
retry, then the parallel verification calls, whose answers arrive in any order,
then the comparison. An endpoint either answers truthfully, fails, or, when
faulty, answers anything. Duplicate entries in the configuration are kept, since
failover does not deduplicate them; verification does. JSON canonicalisation is
abstracted to equality of the compared projection, plus values for which it throws.

**TelemetryQueue.** `enqueue` is two steps, the flag test and the send, as the
code holds no lock between them. `graceful_shutdown` acquires the receiver's
mutex, drains, awaits the sink for each event and records the outcome; any
number of shutdown calls may overlap. The drift sink is what it may answer for
each kind of payload.

**EmergencyExit.** A transition sets the lock, changes the state, persists,
and awaits the hook; the lock is released when the hook settles, whichever way.
A restart builds a new engine from the persisted snapshot or from nothing.
Signatures are valid or not.

**NonceStore.** Every process has its own map and a program counter through
`saveNonces`: take the lock directory, read, merge, write a temporary file,
rename, unlock. Every step that can throw may throw; a crash may occur at every
step and leaves the lock behind. `renameOverFails` says whether the platform is
one where the destination is unlinked first; both kinds are initial states.
`DiskMonotone` speaks of both: there the file may be missing, but only the holder of
the lock takes it away, and only with all of it in its temporary file.

**AnomalyDetector.** A poll is a process that waits at each feed, then at each
node, then for the metrics; `Polls` of them may be under way, because the interval
does not wait. `checkHealth` at start-up is the poll `Boot`. Failing requests and
nodes that come and go are choices of the environment. The recording of the
statuses, one microtask after the last probe, belongs to that probe's step.

**IngestionGuard.** `ingest` is three actions by outcome: malformed, rate limited
(the bucket is refilled all the same), accepted. Tokens are integers in units of
`1 / Unit`, which makes the fractional refill exact. `Clock` moves `Date.now()`
in either direction; the history variable `elapsed` adds up forward movement
only, and `mark` lets an interval begin at any moment. `drain` takes any count.
`Reset` is `_reset()` or a restart, which forgets everything held in memory.
`maxQueueDepth` may be 0, since the constructor accepts it; `DroppedBy` then
counts a drop that did not happen, as the code does.

**TrafficWatch.** A JavaScript `Map` is the sequence of its entries in insertion
order, which the sweeps and the caps depend on. `limiter` says which class the
behaviour is about; the actions of both are built from the same operators where
the code of both is the same. `allowed` and `banned` are histories. Sweep, filter
and cap keep some of the entries in their order, which is `Kept` of `Selection`.

**NonceWatcher.** The state objects live in a heap and the `Map` holds their
numbers, since what can go wrong is that a synchronisation updates an object that
is no longer in the `Map`. The history `missed` counts those updates, so that
`DriftAccounted` is an equation and nothing else can be missing from a count. The
iteration over the `Map` is live, as in JavaScript.

**BatchProcessor.** A worker runs from one await to the next: it stores its
result, takes the shared index and profiles the entry. The gas fees are the
source's constants, with entries at both sides of the limits.

**SignerNotification.** A call waits at all endpoints, then at every page.
Notifier and `irps.ts` have a roster each; both read the rotation from one file at
construction and overwrite it at every rotation. A write may leave a torn file.

**AlertDispatcher, WebhookAlert.** Batches wait at each send, and `Shutdown` may
come between any two. `arrived` and `acked` are what the other end knows and the
sender may not.

**ReportAnchor.** The ledger is a sequence of transactions; a sequence number that
somebody used meanwhile makes the submission fail. The trusted account is also used
for other things: `TrustedTxs` has hash, legacy text, malformed, other and missing
memos, and `OtherTransaction` adds a payment without one at any time. `verifyReport`
hashes the file, looks up the transaction and hashes again; its checks come in the
order of the code, `MemoReason` being those of the memo's type and form. A memo is
what it decodes to, or `Malformed`. Others rewrite reports at any time, and a process
fails wherever the code throws.

**ReportStore.** One log under a fixed name, as the set of its lines, with
archiver, backup and restore as processes that may stop after every step. The
histories say for each line that is gone which way it went: `overtaken` (appended
after the upload read the log), `replaced` (in an object that another one replaced),
`discarded` (newer than the backup that was restored) or `torn` (left in the backup
by a restore that died).

**RoleMapper.** The two depth-first searches of the audit as a stack machine: the
stack holds the calls under way, each with the parent it looks at next and what
it has collected, and a step looks at one parent or returns from one call. The
cache is the source's, including what it stores for a search that a circle or the depth
limit cut short; the second search, for a chain of roles, has no cache
and no limit, as in the code.

**LogSpikes.** The entries are read in one step, sorted by `Sorted` of `Selection`;
each step then is one round of the loop over the windows, which reports or passes
on and chooses where the next window starts.

**SeverityTiering.** Tiers are their weights. Which list of words the event's text
matches is an input (`marked`); repetition, burst history and targets are computed.

**PolicyBundle.** `verify` lists the files, reads them one by one and then reads
manifest and signature, while others write any of them. A content stands for its
digest; the manifest keeps its order and may name a path twice.

## 3. Runs

Passing runs:

| Run | Instance | Shows | Properties |
|---|---|---|---|
| `treasury` | 2 requests, word size 7, 1 pending slot, symmetry | nothing is released outside its window, the limit holds, the integrity sweep can complain only of staleness, and the table implements `OutflowContract` | `ReleasedOnlyInWindow`, `WithinPendingLimit`, `NeverCorrupt`, `MeetsContract` |
| `policy` | 3 evaluations, 2 scan ids, history depth 3, 6 transitions | the capped history is an unbroken tail in which a session belongs to one scan; what nobody overlaps is recorded, crashes fail closed, and sessions end | `HistoryFaithful`, `SoloIsRecorded`, `FailsClosed`, `SessionsEnd` |
| `bridge` | 3 kinds of request, 3 endpoints, one faulty and configured twice | voting is sound, submissions are not replayed, traffic is bounded, every relay returns and is in the log | `VotesSound`, `AtMostOneSubmission`, `TrafficBounded`, `EveryRelayReturns` |
| `queue` | 3 producers, 2 shutdowns | accepted events are delivered once and in order, a successful shutdown drained the backlog, every shutdown returns | `ExactlyOnceInOrder`, `BacklogDrained`, `ShutdownReturns` |
| `emergency` | 3 authorisations, 3 receipts, times 0..2 | transitions form a chain and are announced serially, withdrawals are guarded, the lock comes free | `TransitionsSerial`, `WithdrawnWhileHalted`, `LockIsReleased` |
| `detector` | 2 processes, nonces 0..2, 1 crash, both kinds of rename; 2 nodes, 2 feeds, 2 overlapping polls | saved nonces survive (where rename replaces) and never go back (elsewhere, but for the unlink of the lock holder), every save ends; failovers form a chain, a listed address stays reported, the checker settles on a live node | `AckedSurvives`, `DiskMonotone`, `EverySaveEnds`, `FailoverChain`, `ListedStaysReported`, `SettlesOnLiveNode` |
| `monitors` | bucket of 2 and queue of 2; 3 clients in a map of 2, both limiters; batches of up to 6 over 2 workers; 2 overlapping synchronisations of 2 accounts | admissions and allowed requests are bounded in every interval, only the oldest are dropped, bans hold, every drift alert is accounted for, batches complete | `AdmissionBounded`, `QueueFaithful`, `AllowedBounded`, `BansHold`, `DriftAccounted`, `BatchCompletes` |
| `alerts` | 1 notification and 1 escalation over 2 rosters; 2 batches of 2; 2 webhook calls | a failed delivery is paged or logged, counters agree with results, nothing is reported delivered that was not, everything settles | `NoSilentFailure`, `CountersAddUp`, `ReportedAsSent`, `AlertsSettle` |
| `evidence` | 1 report with 3 contents, 2 anchorers, 1 verifier, a ledger of 2, symmetry in anchorers and in the contents with one prefix; a log of 3 lines | verified means anchored, by a memo of the right type in the transaction that was named; a line is lost only to an early upload, a replaced object or a restore | `TrailSound`, `LinesAccounted` |
| `rules` | every graph of 4 roles with up to 4 inheritances, depth limit 1; batches of up to 5 log entries at 5 moments; 4 events; 2 policies and 2 keys with 2 writes | a role of a user has a finding exactly if it has an administrator's power or inherits it, no spike is passed over, bursts raise the tier, a verified bundle is the signed one | `FindingsAreExact`, `SpikesCovered`, `BurstsRaise`, `VerifiedIsSigned` |

Runs that show a disagreement between the code and what its own text says end in
a violation; the quoted lines are in `PROJECT.json` under `findings`:

| Run | Violated | Trace in a sentence |
|---|---|---|
| `queue_stranded` | `NothingStranded` | an enqueue that tested the flag early sends after the drain and is never delivered |
| `role_closure` | `EffectiveIsFull` | of 3 roles, far from the depth limit, 1 inherits 2, 2 inherits 3 and 3 inherits 1, and 2 is dangerous: the search from 1 reaches 3, which finds 1 under way and takes only what 1 owns, so 3 is cached without what it inherits from 2 |

The largest run has two million distinct states; each ends within
four minutes on two cores.

### Bounds

The bounds are those of the interesting cases. Two treasury requests suffice for
competition for one slot, and a word size of 7 lets the expiry wrap while
unwrapped windows also exist. Two scan ids distinguish "mine" from "another's";
three evaluations let two foreign ones interfere with a third. Three endpoints
are the smallest set in which one faulty endpoint is a minority. Three events and
two shutdown calls give an order to confuse, a backlog with an element in the
sink, and a second drainer. Two processes race for the lock and one crash leaves
it behind. Two polls overlap, and two nodes let both decide about the current
one; a list of two failovers evicts. Three clients for a map of two evict, and
two of them reorder it; the ban outlasts the window. Two workers share more
tasks than there are workers. Three objects in the heap allow for a replacement
under a synchronisation. One notification and one escalation are enough for the
two rosters to overwrite each other's file. Two anchorers compete for one
sequence number, also with another use of the account, and of three contents two
share a legacy prefix. Three lines are
one before, one during and one after an upload. Four roles hold a circle with an
entrance and an exit, and the depth limit of 1 makes the cut-off happen; five
moments are enough for two windows that overlap and a third apart from them.
Histories and counters are cut off by named constants (`MaxTransitions`,
`MaxReceipts`, `MaxVersion`, `MaxTime`, `MaxNonce`, `MaxDropped`, `MaxAlerts`,
`MaxObjects`, `MaxDays`, `MaxRotations`, `MaxLedger`, `MaxLines`, `MaxWrites` and
the like) that appear in guards.

### Fairness

* `policy`: some running evaluation takes its next step, because the event loop
  runs settled promise callbacks; that evaluations are requested is not assumed.
* `bridge`: every outstanding call settles, because the client sets a
  timeout.
* `queue`: the executor polls tasks that can run, and the sink returns, which the
  code cannot enforce (see observations).
* `emergency`: the hook's promise settles. The code has no timeout on it.
* `detector`: a save that can take a step takes one, and the wait for the lock has
  a timeout in the code. The interval keeps firing and every request of a poll
  is answered or fails, because the clients set timeouts.
* `monitors`: the batch pool's callbacks are run.
* `alerts`: deliveries carry a timeout; the page's `fetch` has none of its own,
  so that it fails by itself is an assumption about the runtime; file operations
  end. That an endpoint answers is not assumed.

The other properties are safety properties and assume nothing. Deadlock checking
is off where the system really comes to rest, that is, after all evaluations,
events or bounded steps are finished.

## 4. Proofs

The proofs hold for every value of the constants that satisfies the named
assumptions of the modules.

* **TreasuryTimeLockProofs.** The inductive invariant adds to the type invariant
  the agreement of status and settlement fields and, for every released request,
  the window at the time of its release. It is needed because a release is
  judged by a clock that is forgotten afterwards. From it: `TypeCorrect`,
  `TimeLockHolds`, `SettlesOnce`, `PendingBounded` (with a cardinality argument),
  `SweepReportsOnlyStaleness`, `SettlementIsFinal`. `ImplementsContract` is the
  refinement: under the invariant every action is a step of `OutflowContract` or
  leaves phases and announcements alone; that an acceptance keeps to the contract's
  limit is the cardinality argument again.
* **AtomicBridgeProofs.** The module assumes that a strict majority of the
  endpoints a request is verified with is honest. The invariant relates votes and
  answers to what honest endpoints say, and each phase to the number of
  submissions. From it: `TypeCorrect`, `VotingSound` (from `VerificationSound` and
  `HonestNotVotedDown`), `AtMostOnce`. `TrafficIsBounded` numbers the attempts
  of a relay through all its endpoints (`Round`): a step that sends raises the
  round, and a round costs at most one request to every distinct endpoint.
  `LogIsExact` is the safety half of `EveryRelayReturns`: a step of a relay goes on
  and leaves the log alone, or returns and appends what it returns (`Works`), and
  a relay that has returned takes no further step, so that the log and the returned
  relays stay in one-to-one correspondence but for what was cleared.
* **TelemetryQueueProofs.** The invariant states that the receiver, the program
  counters and the drain order agree, and that channel, sink and outcome sets
  partition the sent events in sequence. From it: `TypeCorrect`, `DeliveryExact`
  (from `MutualExclusion`, `NoneLost`, `FirstInFirstOut`),
  `SuccessfulDrainIsComplete`.
* **MonitorProofs**, ingestion guard. `AdmissionBounded` is not inductive: it
  forgets the tokens already saved up. `Budget` adds what the bucket could pay
  out at this moment (`Refilled`) to what the interval has admitted; refilling
  leaves the sum alone, an accepted event moves one token from one summand to the
  other, and the clock raises both sides by at most the rate. `QueueInv` bounds
  the queue's length by the number of accepted events and identifies its
  contents. From these: `TypeCorrect`, `RateLimitHolds`, `QueueKeepsFaith` (from
  `NothingUncounted` and `DropsOldest`).
* **MonitorProofs**, nonce watcher. `DriftAccounted` is not inductive: it says
  nothing of an account without an object, which a registration then gives one.
  `Mapped` adds that such an account has no alerts, and `HoldsObject` that a
  synchronisation holds the object of a registered account, in the `Map` or
  replaced. From them: `DriftIsAccounted`.
* **DetectorProofs**, nonce database. On platforms of both kinds: `SaveInv` says that
  whoever is past the lock is the one the lock directory names, also after crashes
  and when the directory could not be removed, and that what was written is on
  disk until its writer has returned. From it: `TypeCorrect`, `OneSaveAtATime`, and,
  with `MergedIsAbove` (the holder's merged copy dominates the disk), `NeverClobbered`.
  Where `rename` replaces its target (`~renameOverFails`, which no step changes),
  the invariant adds that what was acknowledged is below the disk. From it:
  `SavedForGood`, `ReuseStaysVisible`.
* **DetectorProofs**, polling loop. `FailoversChain`: the last kept event leads to
  the current node, and before the first failover that is the first node; eviction
  takes from the front. A failover goes to the first node of the poll's table that
  is up, whose existence is a least-element argument (`LeastIndex`).
  `ListedStays`: any update that has heard from a feed has everything that all
  feeds list, so that it may replace the cache at any time, also late.
  `FailoversAreJustified` is an action property: polls share one table of nodes, and
  a step leaves the current node only if the table, with this probe entered in
  it, lists that node as down and the next as healthy. A node that is up and
  listed as such is therefore kept, which is the half of `SettlesOnLiveNode`
  that needs no fairness.
* **AuditProofs**, state machine and policy engine. Machine states are handled as
  values, so that one lemma per event serves both the callers of the machine and
  the evaluations. `InSession` says what `HistoryFaithful` needs of the present: no
  scan is active outside a session, and inside one the newest record has the active
  scan's id. `SoloOwns` is the ownership argument: a running evaluation whose scan
  was accepted and that nobody overlapped is the only one under way, and the open
  session is its own. From these: `MachineHistory` (and `PolicyHistory`, the same
  of the composition), `PolicyFailsClosed`,
  `PolicySoloRecorded`, the last for a history of at least two records, because a
  shorter one evicts the record it speaks of.
  `NoSessionLeftOpen` is the safety half of `SessionsEnd`: the RESET that ends
  `evaluate()` is never refused (`TailEnds`), so that only an evaluation under way, or
  one that died before its end, can be behind an open session.
* **AuditProofs**, role mapping. Reachability is a fact about sets here (`Ancestors`
  is the least set of roles closed under inheritance), and the searches are related to
  it step by step. While permissions are resolved (`ResolveInv`), every cached set lies
  between what the role owns and what it reaches, and so does what each call on the stack has
  collected; equality would be false, which is what the finding on
  `EffectiveIsFull` shows. While roles are judged (`JudgeInv`), the roles a search has
  left behind are `Cleared`: no parent of theirs is an administrator role, and each is
  cleared or still on the stack; a parent a call has looked at is so too (`RuledOut`).
  When a search ends empty the stack is empty, so the cleared roles are closed under
  inheritance and the role has no administrator above it; when it finds one, the stack
  is the chain to it. The cache errs only by omission, and a permission it omits is owned by a role
  above, which the second search visits: hence `EscalationsAreFound` is exact
  although the cache is not. From these: `EffectiveIsOwned`, `EscalationsAreFound`,
  `SafeAuditsAreRight`. `SearchesAreBounded`: no role is on the stack twice, so by a
  cardinality argument it holds no more calls than there are roles, and the first search
  keeps to `MaxDepth`; together with the finite number of parents this is why the audit ends.
* **AuditProofs**, report store and trail. `StoreInv`: what is about to be unlinked
  is in the bucket as it was read. `TrailInv`: a verifier compares with a
  transaction that is on the ledger, which only grows (`TrailGrows`), and has ended
  when it has a verdict; `ReasonAccepts` says what the checks of the transaction and
  its memo let through. From these: `StoreAccountsForLines`, `TrailIsSound`.
* **AlertProofs**, delivery. `WebhookReports`: an endpoint's answer is what the call
  is about to log or has returned. `DispatcherCounts`: a batch has one result for
  each alert it is done with, so that a step adds at most one result to one of the
  counted sets. `SignersHear`: the pages of a call are the first contacts of one
  rotation, the one it looked up (`OneRotation`), and a failed endpoint is
  remembered until it is followed up (`FailureFollowed`).
* **AlertProofs**, emergency exit. The invariant ties the version to the length of
  the receipt chain and the lock to an outstanding announcement. From it:
  `ExitTypeCorrect`, `TransitionsInSeries` (from `ChainHolds` and
  `AnnouncementsSerial`), `WithdrawalsGuarded`. `NoLockLeftBehind` is the converse, the
  safety half of `LockIsReleased`: a locked engine has a hook under way, so its
  settling is all that the fairness has to supply.
* **RuleProofs.** First, about `Selection`: `Sorted` lists every element of a
  finite set once and in order, and `Kept` keeps the elements at the given positions in
  their order. Then:
  * `BatchIsExact` (the safety half of `BatchCompletes`): every task taken is held by
    one worker or has its result, the tasks profiled are those taken, and while
    tasks are left a worker is at work. A batch with no workers under way is
    therefore done.
  * `BundleIsSigned`: sorting is stable, so that the map built from the canonical
    form is that of the manifest, although a path may occur twice; hence a payload
    that compares equal has the same map.
  * `BurstsAreRaised`: every past event in the window has a place of its own in the
    trimmed history (`Covers`). Its hypothesis is
    `HighToCritical <= MediumToHigh <= LowToMedium`; the defaults
    (`severity-tiering.ts:107-109`) are equal. With thresholds that rise the
    property is false (see section 5).
  * `AllowedIsBounded`: the counterpart of `Covers` for the limiters. `Embeds` gives
    each allowed request of the window a place of its own among the times kept for
    the client; a sweep drops a client only when its newest time is stale, and
    then it has no allowed request in the window. That the entries of the `Map` are
    in the order of their newest times, on which the code's comment relies, is not
    needed.
  * `BansAreHeld`: a client whose ban is not over is in the list, with the term in
    the history; a list within its cap is not cut by `enforceCaps`.
  * `SpikesAreCovered`: the sorted errors are a line of indices with times that do not fall.
    The invariant of the scan says that the spikes reported so far lie before the next
    window's start, that each counts all errors of its window, and that
    every position passed over is covered by a spike or starts a window that holds too few.

Only model-checked are the liveness properties, because TLAPS does not reason about
`ENABLED` here: `SessionsEnd`, `EveryRelayReturns`, `ShutdownReturns`,
`LockIsReleased`, `EverySaveEnds`, `SettlesOnLiveNode`, `BatchCompletes`,
`AlertsSettle`. Of five of them the part that needs no fairness is proved:
`NoSessionLeftOpen`, `LogIsExact`, `NoLockLeftBehind`, `FailoversAreJustified`,
`BatchIsExact`. `EffectiveIsFull` and `NothingStranded` are false of the code
(section 3).

The installed provers cannot use the library's induction theorems, whose
parameter is an operator, and know nothing of `SelectSeq`, `FlattenSeq`, `SortSeq`
and folds. Two ways around this are used. Where an argument needs a first element,
it takes the least member of a set of indices. And the modules that filter and sort use
`Selection`, which places an element by the number of elements before it; that
`Sorted` is a permutation in order is then a fact about cardinalities. A recursive
search is a stack machine whose invariant speaks of the calls under way, so that
no module declares a recursive operator.

## 5. Observations

Met while modelling and left as the code has them; the models reproduce those
that concern modelled state. Where a comment says otherwise it is quoted by its
line; the two disagreements with a run of their own are in section 3.

* Telemetry queue: a sink that never returns keeps `graceful_shutdown` from
  returning, because the timeout cannot interrupt a synchronous call, although
  `telemetry_queue.rs:7-9` speaks of the timeout preventing that.
* Emergency exit: the comment at `core/emergency-exit.ts:481` says that a recovered
  engine stays read-only until its state is replaced, but `triggerEmergencyExit`
  refuses only a halted engine.
* Nonce database: a lock directory that a dead process left behind is never removed,
  although the comment at `anomaly-detector/src/index.ts:235` says that the next
  writer may recover. Alerts computed before `saveNonces()` throws are not emitted.
* Polling: a feed that fails while another answers loses its addresses; the
  answer of an older update may replace a newer one; the failover latency is
  measured before the failure is recorded, so it is usually 0.
* Limiters: the comment at `rate-limit-monitor.ts:60` relies on the order of the
  map, which `getRequestCount` changes without a new timestamp. Dead entries then
  stay longer; the limits hold all the same.
* Nonce watcher: a second `start()` loses the handle of the first interval; an update
  is lost when a registration replaces the object during a synchronisation.
* Paging: roster instances read the shared rotation only at construction and overwrite
  each other's; a page log that cannot be written ends the paging of the contacts
  that are left. The notifier sends every severity, although
  `multisig-webhook-notifier.ts:142` says HIGH and CRITICAL only.
* Webhook and dispatcher: when the log cannot be written, a delivered alert is
  reported as NETWORK_ERROR; a null alert is in neither counter.
* Archive and backup: the archive key is the base name, so a log created anew
  replaces its earlier archive; `--dry-run` still copies locally (`backup.ts:74`);
  a backup after a restore that died removes the only copy. Report versions may
  repeat (`report-version.ts:19`), since the counter is read and written without a
  lock.
* Roles: a role that matches the administrator pattern only by its id yields no
  finding by that vector; `flagAdminUsers` is never read; roles in a circle do not
  appear in the hierarchy.
* Tiers: the branches on `repeatCount` can lower a HIGH event when the thresholds
  rise from tier to tier; an event out of order makes the engine forget a burst.
* Bundles: OPA evaluates before the verification, so that a bundle changed and
  restored in between passes; `bundle_digest` and sizes of the manifest are not
  compared; a file that disappears while it is read is reported as a malformed
  manifest.
* Outside the models: a NaN balance compares as in sync in
  `relayer-state-validator.ts`; the diff engine identifies findings with equal
  file, line and rule; `cli.ts security-gate` turns a severity name into a NaN
  threshold that blocks everything, unlike `security-gate-cli.ts`.

## 6. Not modelled

See the `not_modelled` components in `PROJECT.json`. Scanners match regular
expressions over source text, reports and the CLI format text, the UI presents,
the client in `lib.rs` makes single HTTP calls; the write path, hot reload and the
state validators judge one value, or swap one reference under a lock; the Rust
twins of the tiering and the bundle verifier are functions of one value. They keep
no state that interleaves, so a model would restate them line by line.

Of the modelled components the following is left out: the rule evaluators of the
policy engine (patterns in the text of a pull request; with them the temporary file
that OPA reads, a hazard without a property), the single comparisons of the alert
rules, the success-rate window of the failover monitor, remote copies by `rsync`,
and the presentation of the role hierarchy.

## 7. Plan

The extension of the model is complete as far as the code interleaves or keeps
state, and every safety invariant that a passing run checks is proved. What is
left:

1. The variants behind the liveness properties, that is, the quantities that
   the fair steps decrease; `SearchesAreBounded` and `TrafficIsBounded` are such
   bounds for the role mapper and the bridge.
2. Nonce database where `rename` does not replace: `DiskMonotone` says who may take the
   file away; which saves are lost for good when that writer dies or fails there, as a
   statement about the saves.
3. Action properties: which steps may lower a counter or shorten a history, for the
   dispatcher, the watcher and the ledger.
