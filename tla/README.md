# Ingate, specified and checked

TLA+ models of the parts of Ingate whose correctness depends on orders of steps
that tests hardly reach, TLC runs over small instances of them, and TLAPS proofs
about all instances. All definitions are read from the Go source under `src/`;
`PROJECT.json` maps each one to the lines it stands for.

## 1. The system

Ingate is an Envoy based API and AI gateway. Four chains of processes:

| Chain | Path |
| --- | --- |
| control | Console → Admin API → API Server (etcd) → Controller → xDS → Envoy |
| traffic | client → Envoy → Authz (rate limit) and AI ExtProc (token quota, protocol conversion) → upstream |
| observability | Envoy access logs → `ingate-als` → Kafka → Analytics → ClickHouse |
| assistant | Console → Assistant (MySQL, Redis, a language model) |

| Component | State it keeps | Operations | Talks to | What makes it hard | What makes it correct |
| --- | --- | --- | --- | --- | --- |
| ALS recorder (`als/biz`) | failure barrier, in-flight counters, pause flag, under one lock | `Write` (many at once), `PrepareReplay`, `ReplayBatch`, resume | Kafka, disk queue, topic contract | nothing is locked across I/O; partial publication; crash | accepted is durable; new records never pass old ones; the barrier comes down |
| ALS disk queue | WAL, published count | `Write`, `Read`, `Commit`, `Pending` | file system | sync errors, crash between append and count | count = log; only delivered entries leave |
| ALS replayer, topic monitor | loop position; cached verdict | loop; refresh | recorder | failures in any step; stale verdict | drains at last; a permanent error pauses it |
| Controller delivery (`controller/biz/delivery`) | candidate, active, per-stream progress and accepted versions | `Submit`, `CancelCandidate`, xDS events, ACK timeout | xDS publisher and callbacks | stale ACK/NACK/timeouts, failing rollback | active is accepted; the cache follows |
| Controller xDS callbacks | stream ↔ node registry, nonces | `OnStreamOpen/Request/Response/Closed` | go-control-plane, delivery | concurrent streams, reconnects | one stream per node; each answer is matched |
| Controller reconcile loop | two work queue keys | reconcile desired config / status | delivery, status writer, wasm store | retries against moved state | the newest resources are delivered at last |
| Controller wasm store | files, pointers, protection map | `Resolve`, `Retain` | HTTP, OCI | eviction at the limit | no module in use is evicted |
| Analytics consumer | offsets | poll, save, commit | Kafka, ClickHouse | redelivery | every record stored; once, within the deduplication window |
| Assistant execution | execution and step rows, lease | create, claim, renew, cancel, finish, expire | MySQL, Redis, model | racing ends, several workers | one worker, one terminal state, steps agree |
| AI ExtProc token quota | Redis counters | begin, charge | Redis | check then act | charged once; overshoot bounded by what is in flight |
| Authz rate limit | Redis counters | admit | Redis | ordered partial effects | no rule admits above its limit |
| Admin API plugin catalog | per-source state | sync, remove | HTTP, API Server | edits while fetching | no result of an old definition is stored |
| Authz caches, compiler, API Server registry, queries, UI, plugins | pure or library state | – | – | – | not modelled, section 7 |

Modelled: the recorder with all it stands on, delivery with its xDS side, the reconcile
loop with the wasm store and the status writer, the analytics consumer, executions
with their event stream, the AI ExtProc (quota, attempts, policy cache) and the plugin
catalog. `PROJECT.json` says of each component how far, and lists the hazards of the
code at their lines with the properties that are about them.

How the modelled parts meet: `Recorder` puts records in Kafka at least once, in any order and
number of copies, which is what `RequestConsumer` takes from its topic. `Reconcile` submits
to Delivery and sees a candidate accepted or withdrawn at any moment; `Delivery` takes any
sequence of submissions. What each takes the other to be is one abstract module, `Rollout`,
and both are proved to keep it (section 6).
`PluginCatalog` offers what a user installs, and installed plugins are `Reconcile`'s input.

## 2. Modules

| Module | What it is | Theorems |
| --- | --- | --- |
| `Recorder` | the ALS pipeline: recorder, disk queue, replayer, topic verdict, crash | `RecorderProofs` |
| `AtLeastOnce` | the abstract buffer `Recorder` implements | |
| `Delivery` | delivery loop, xDS callbacks, snapshot cache, Envoys | `DeliveryProofs` |
| `Rollout` | the abstract contract between the loop and Delivery, implemented by `Delivery` and by `Reconcile` | |
| `Reconcile` | work queue, reconcile functions, wasm store, status writer | `ReconcileProofs` |
| `RequestConsumer` | replicas of Analytics between Kafka and ClickHouse | `RequestConsumerProofs` |
| `Execution` | executions of the assistant, workers, lease, expiry scan, event stream | `ExecutionProofs` |
| `OneShotJob` | the abstract job `Execution` implements | |
| `Exchange` | model calls, attempts, quota counters, policy cache | `ExchangeProofs` |
| `PluginCatalog` | one custom plugin source between users, refresher and remote site | `PluginCatalogProofs` |
| `SumLemmas` | sums over finite sets, for the proofs of `Exchange`, `Reconcile` and `RequestConsumer` | itself |

`MCX` is `X` on a small instance, for each of the seven.

Definitions whose comment starts with "Mutant" are not part of the system: each is a
plausible mistake in the definition after it, and shows that a property would notice.

### Recorder

A batch is one call of `Recorder.Write` on its own goroutine. `pc[b]` walks the code:

    idle → reserve → publish → complete → accepted
                   ↘          ↘ fail ↘
                    append → finishOK / finishRefused / finishError → accepted / rejected

`Begin` reads the topic verdict and the `Reserve*` actions take the lock, as in
`r.state.reserveWriteTarget(r.topic.Status().Compliant)`: the verdict may be stale.
Every critical section of `recorderState` and of `Queue` is one action. `rpc` walks the
replayer: `prepare` (topic), `pending` (count), `batch` (topic again), `read`,
`publish`, `commit`, `settled` (reads the topic), `resume` (decides under the
lock), or `stopped` after a permanent error. The count `pending` and the log are
separate, because the code publishes the count separately and `Pending()` is read
without the queue lock.

`Crash` kills the process at any step. Calls in flight are `lost` (Envoy does not
resend), the log and Kafka stay, the count is scanned again, and a backlog starts
the new process behind the barrier.

Abstractions. Entries are counted, not records and bytes; all batches have
`RecordsPerBatch` records and `Read` is limited in entries. Capacity and encoding are the
choice between `AppendOK`, `AppendRefused` and `AppendError`. Of the steps that only set
the health flags (`replaySucceeded`, `queueSucceeded`) each is joined with the I/O it
follows. `startSpooling` is joined with the topic read before it. Metrics, logs,
traces, back-off times, `Status` and `Stop` are left out. Only the process crashes,
not the machine: a torn tail makes `openQueueWithProbe` refuse to start.
`SyncErrorKeepsEntry` is a constant because it is a fact about the WAL library
(`wal.Write` appends, then syncs): FALSE is what the code assumes, TRUE what
`docs/.../als/wal.md:164` quotes of the library.

### Delivery

The loop executes one command at a time; each handler is one action: `SubmitActive`,
`SubmitCandidate`, `SubmitUnpublished` and `SubmitNew` (the branches of `handleSubmit`),
`CancelCandidate`, `ACKTimeout`, and `StreamOpened`, `StreamClosed`, `ResponseSent`,
`AcceptedVersionObserved`, `ACK`, `NACK` (`handleXDSEvent`). What the handlers share is
shared here: `Settle` is `activateAcceptedCandidate`, `RestoreFallback` is
`restoreFallback`, `PublishOK` and `PublishCut` are `Publisher.Publish`. A timer that
fires leaves a command in the channel (`timeouts`), which may be executed after the candidate it was
for is gone.

A stream goroutine runs one callback at a time and waits for the loop. `pend[s]` is the
event it handed over, and any other command may run before it is handled; when the
stream's context ends first the event is lost (`EventLost`), except the closing one.
`link[s][t]` is the exchange of one stream and type: no watch, an open watch, a response
queued, a response sent. `link.at = "sent"` is also the nonce the callbacks remember.

External, modelled as Ingate uses it: go-control-plane's cache replaces the snapshot
first and answers watches then, so a publication whose context ends is visible
and half answered (`PublishCut`); its server opens the watch of a request after
`OnStreamRequest` returned; an Envoy applies or refuses a response, may send
requests of its own, disconnects at any time and connects on a new stream.

Abstractions. A version is its content, so `ErrVersionConflict` cannot occur. Resource
generations, policy targets, `Status` and `Changes` are left out. A compile result with errors
changes nothing and has no action. Which Envoy refuses what is fixed by `Rejects`.
`CreateWatch` is done together with the handling of the event it waits for. `Stop` is not
modelled; a restart is.

### Reconcile

One worker. `pc` is where it is in `reconcileDesiredConfig`: `BeginDesired` (list, read the
active configuration, `Retain`), one `Resolve(p)` for each plugin, `Deliver` (compile and
submit, or cancel), `ReadStatus`, `WriteStatus`; and the two steps of
`reconcileProgrammedStatus`. Resources are edited, and Delivery accepts or withdraws,
between any two of them. `signals` are the notification channels of capacity
one, `queue` and `delayed` the work queue of client-go with its back-off. The store has
`files` (modules by digest), `pointers` (source → digest), `resolved` (the in-memory
protection) and `older`, the order of use that eviction follows. `Restart` keeps files
and pointers and loses the rest.

Abstractions. Delivery appears by its answers; xDS is in `Delivery`. The compiler
appears by which modules a configuration loads and whether it has errors. A module is its
digest, a source its URL and expected digest; validation and HTTP are outcomes of a pull.
One route stands for the resources without modules. Certificates, backends and policies' own
status are left out.

### RequestConsumer

`pc[c]` is `poll`, `save`, `commit` or `down`. `PollRecords` takes up to `BatchMax`
records, `StartInsert`/`InsertOK` are the goroutines of `SaveRequestBatch` (model call first,
then request), `Abandon` is a failed or timed out one whose insert may still `Land`. A
failed save or commit ends the process. Kafka (assignment, refusal of a
commit by a member put out of the group) and ClickHouse (deduplication by token over the last
`Window` blocks of a table, which feeds the materialised views) are external,
modelled as used.

### Execution

`state`, `owner`, `lease`, `cancelling`, `model`, `step` are columns. A worker has an
executor (`pc`) and a lease watcher (`watch`) sharing a context that keeps its first cause;
a graph of the agent may outlive `Agent.Execute` (`graphs`). Each transaction is an action,
with its error and its lost reply as separate outcomes. `FailExpiredExecutions` is the
scan: its three statements read a clock each, so any of the leases may expire after the
statement on steps and before the one on executions (`late`). `SlowRenewal` lets
a lease expire under a worker that still renews. `unread` and `sub` are one browser's event
stream: events may be lost, the row is asked when nothing arrives.

### Exchange

A request goes `new → body → checking → routed → responding → closed`; `Check` reads all
buckets of the caller at once (MGET), `Settle` charges all of them in one script.
Attempts are streams with handlers of their own, `handling` are those not handled yet. The
cache is `compiled` (policies in force) and `byCaller` (their index), updated by
`SyncPolicy`. Envoy may give up an attempt while its stream is still being handled and start the
next one (the per-try timeouts of route_actions.go:173 are far below the 10 s of the ExtProc
call, ai_extproc.go:25), so handlers of one request overlap and end in any order.
Policies change who they apply to; their limits are fixed. External: Envoy's retries and Redis.

### PluginCatalog

Every call is a job with a program counter: a request that writes the resource, then
`InvalidateLoad`, `InvalidateStore`, then synchronises; one that deletes, then
`Forget`; the refresher, which lists, synchronises and removes. One synchronisation is
`Define → Acquire → Check → Load → Fetch → Verify → StoreResult`, each a separate read or
write of the API server, the catalog or the remote site. `Acquire` takes the lock of the
source; the updates of `InvalidateSource` and `ForgetSource` do not. A manifest is its URL
and version, an etag the version alone, so that an etag of another URL would be believed. A
reply of the API server may be lost after the write: the request then never tells the catalog.

## 3. Properties

Recorder:
`CountersMatchCalls` the in-flight counters count the calls in flight.
`DirectOnlyWhenDrained` no direct write is admitted while something is in, or on the
way into, the log. `NoBypass` when direct writes are admitted everything accepted is
in Kafka. `AcceptedDurable` an accepted batch is in Kafka or in the log. `CommitFits`
what was published can be committed. `DropOnlyDelivered` only delivered entries leave
the log. `PausedUntilRestart` a permanent error keeps the barrier up.
`ImplementsPromise` refinement of `AtLeastOnce`. `AcceptedReachesKafka` and
`BarrierComesDown` liveness.

Delivery:
`ServesWhatItTracks` the cache holds the candidate, else the active version, else the
baseline. `ActivationEarned` every counted Envoy really accepted what becomes active.
`WithdrawnForCause` only the controller, a refusing Envoy or the candidate's own timer
ends a candidate. `KeepsContract` refinement of `Rollout`: what became of an offer, as the loop
is told it, agrees with what is served; a withdrawn offer leaves the active version served.
`RollbackRestoresActive`, that this is the version activated last, is proved and has no run.
`OneStreamPerNode` an Envoy is served on the one stream it is registered on, also when it
connects again before the end of its old stream is noticed. `EnvoysConverge` connected Envoys
end up with what is served. `ActiveOnceAllAccepted`
and `CandidateEnds` are what the documentation says and the code does not do.

Reconcile:
`ResolvedOnDisk` no eviction takes a module the store was told to keep. `CacheFits` the
size limit holds. `DeclaredLoadable` what Envoy was given has its modules as long as the
plugins are not edited. `DeclaredDelivered` what is declared is accepted or refused
by Envoy in the end. `StatusFollows` the status comes to say so. `ActiveLoadable` is
what comments promise and the code does not keep (finding 4).

RequestConsumer:
`CommittedIsStored` a committed offset stands over stored records. `NoBareRequest` no request
row without its model call. `OnePollAhead` what ClickHouse has, or may still get late, is at
most a poll beyond the committed offset, so a poll at most is repeated. `OffsetsOnlyGrow`
no commit moves a partition back. `EveryMessagePassed` no message blocks its partition.

Execution:
`OneWorkerEver` no second worker runs an execution. `RowsConsistent` columns agree with the
state. `OnlyScanLeavesSteps` who ends an execution ends its steps, and no step starts in an
ended one, with one exception: the expiry scan. `ToldTheTruth`
browsers hear the end that is stored. `ImplementsJob` refinement of `OneShotJob`.
`EveryExecutionEnds` and `SubscriberServed` liveness.

Exchange:
`LedgerBalanced` the counters are the sum of what was charged, to the buckets that were
checked. `OvershootBounded` a limit is exceeded by the calls open together at most.
`IndexMatchesPolicies` and `PoliciesArrive` the index by caller, now and in the end.

PluginCatalog:
`NoStaleOffer` what an edit or deletion withdrew is not offered again. `NewestOffer` what
is offered is the newest seen of its own URL. `CatalogConverges` in the end catalog and
resource agree, also when the catalog was never told of a deletion.

Three modules state a property that no run checks, because it does not hold:
`NoStepOutlivesExecution`, `SelectedIsServing` and `CountedOnce` (section 5).

Type invariants are proved for every module (`TypeCorrect`), and the runs do not repeat them.

## 4. Runs

Run `x_y` is configured by `X_y.cfg`.

| Run | Instance | Shows |
| --- | --- | --- |
| `recorder_safety` | 2 batches of 2 records, 2 entries per replay, 1 crash, fair | all properties of the recorder, refinement and liveness included |
| `recorder_syncerror` | 3 batches of 1 record, `SyncErrorKeepsEntry` | `NoBypass` fails (finding 1) |
| `delivery_safety` | 2 Envoys, 1 type, 2 commands, 1 failing publication | cache, refinement of `Rollout`, activations and withdrawals (1.3 million states) |
| `delivery_liveness` | 1 Envoy with 2 streams that refuses a version, 2 commands, 1 restart, fair | one stream per Envoy and convergence across reconnects |
| `delivery_uncounted` | 2 Envoys, 2 commands | `ActiveOnceAllAccepted` fails (finding 2) |
| `delivery_revert` | 1 Envoy, 3 commands, fair | `CandidateEnds` fails (finding 3) |
| `reconcile_safety` | 2 plugins, modules of size 1 and 2, room for 2, 1 edit, 1 fault, fair | all but `ActiveLoadable` (0.4 million states) |
| `reconcile_active` | the same | `ActiveLoadable` fails (finding 4) |
| `requestconsumer_safety` | 2 replicas, 1 partition, 3 records, one of them invalid, 3 messages, batches of 2, window 1, 2 faults, fair | all (0.7 million states) |
| `execution_safety` | 1 execution with 2 calls, a mortal and an immortal worker, a browser, fair | all |
| `exchange_safety` | 3 requests, 2 open, 2 attempts, 1 policy, 2 callers, 1 edit, 1 new period | all (0.9 million states) |
| `plugincatalog_safety` | 2 requests, 2 URLs, 2 calls, 2 versions, 1 fault, a source that exists or not, fair | all (1.3 million states) |

Bounds, by module.

- Recorder: with two batches one fails at Kafka or is on its way into the log while the other
  arrives or the replayer decides; two records make a publication partial; a crash
  reaches each phase.
- Delivery: two Envoys let one accept before the other; the failing publication can be the
  candidate's or the fallback's. Two commands do not contain v1, v2, v1, the shortest
  way to a stale answer for a version that is the candidate again: that one is the run
  `delivery_revert`, and the theorems `ActivationsEarned` and `WithdrawalsCaused` hold for any
  number of commands.
- Reconcile: the second module does not fit beside the first, so each upgrade has to evict;
  plugin 1 is needed by a policy and plugin 2 only installed, one source has the
  policy Always, and revision 2 of the route does not compile. One edit and one fault fall between
  any two steps of a pass.
- RequestConsumer: two faults take a partition to another replica while an insert is abandoned,
  or make a second failure of a poll that is repeated; three messages and polls of two leave one
  that must not be read before the commit, and a window of 1 lets a repeated poll be stored again.
- Execution: a slot that crashes at any point and one that stays up; a step needs two
  calls to overlap.
- Exchange: two open requests both pass the check before either is charged; a third one meets
  the bucket after. A usage of 2 is above the largest count that is settled. Two attempts are the
  least whose handlers overlap; with `MaxLate` = 0 a request opens only when no
  closed one is still being handled, which keeps the run small and has no part in the proofs.
- PluginCatalog: two calls are the least for an edit during a synchronisation that another one started,
  or a deletion after an edit; the refresher is a third job. Two URLs for a move, two
  versions for an out of order result, one fault for a lost reply or a failed read.

`CHECK_DEADLOCK FALSE` in all runs but the recorder's: when the bounded inputs are
used up nothing is left to do. The recorder's monitor never stops.

Fairness. Recorder: each call of `Write` goes on, since `Publish` ends with its delivery
timeout and `Finish` follows; the replayer is one goroutine on a timer; a read, a
publication and a commit that are tried for ever succeed at last, and the topic
becomes compliant for good. New calls are not forced to arrive, and a pause in them is
what lets the barrier come down: with arrivals for ever `queueWrites` need not be 0
when the replayer looks. Delivery: the loop handles what waits, an armed timer fires,
closing is reported, the server sends what is queued, an Envoy answers and asks for each
type (strong fairness, since its own requests disable these for a moment). No stream
must stay open, and no command must be given. Reconcile: the worker, the watchers and due
retries run, and Delivery decides about a candidate (an ACK, a NACK or its timer). Faults
are bounded, so a pull that is retried succeeds. RequestConsumer: a
free partition is assigned, a replica is restarted, and a replica that can go on does.
Execution: a slot that stays up polls and goes on, an unattended lease runs out, the
scan runs on its ticker, a connected subscriber reads. Exchange: only that the informer
delivers. PluginCatalog: a goroutine that can go on does, and the ticker of `run` fires
again and again; no weak fairness is needed of the single attempts to get the lock, because
every holder lets it go.

## 5. Findings

1. `Queue.Write` (queue.go:119) returns a failing sync without looking whether the
   entry is in the log. The count is one short from then on, reaches zero early,
   and direct writes resume over an accepted batch, which `concurrency.md:86,114` rules out. Nothing
   is lost (`AcceptedDurability` is proved for this case too), only the order.
2. An Envoy that connected after the last activation is not counted by
   `activateAcceptedCandidate` (acknowledgements.go:119) until its first
   response of the new candidate was reported; another Envoy's acceptance may activate
   before, and a later NACK is ignored. `architecture.md:24` says all connected Envoys.
3. v1, v2, v1 submitted while the first ACK of v1 is on the way: the ACK is ignored
   (acknowledgements.go:88), no response is due, no timer starts, and the
   candidate stays one. `architecture.md:24`, `types.go:14`.
4. A plugin is edited while the candidate with its last generation waits for ACKs.
   `reconcileDesiredConfig` (controller.go:209) keeps the modules of the declared and of the
   active configuration, not the candidate's; the pull of the new module evicts the old
   file, and the ACKs then activate a configuration without it. `controller.go:328` and
   `store.go:166` say that old and new modules coexist until the ACK or NACK.

Three more places where the code does not do what a text beside it says. Each is a behaviour of the
module as the runs check it and is stated as a definition of the module. With that definition as the only
`INVARIANT` of the cfg TLC finds it violated:

- `NoStepOutlivesExecution`: `assistant.md:412` says that no step is left running when a lease
  expires. `FailExpiredExecutions` (execution_lease.go:108-121) ends steps first and
  executions then, each statement by its own `CURRENT_TIMESTAMP(6)`: a lease that expires between the two
  leaves a failed execution with a running step, for good, since no later scan selects it
  (`Execution_safety.cfg`, 7 states). It is the only way to get there: `OnlyScanLeavesSteps`.
- `SelectedIsServing`: `exchange.go:36` and `downstream_response.go:58` speak of the service Envoy
  selected. `startUpstreamAttempt` (exchange.go:117) stores the service of the last handler that
  came to it, which may be that of an attempt Envoy gave up at its per-try timeout
  (`Exchange_safety.cfg`, 8 states): the response is then read as one of another
  service. The tokens are charged to the caller's buckets all the same: `LedgerBalanced`.
- `CountedOnce`: migration `00001_request_analytics.sql:36` says that the deduplication log covers recent
  redelivery. It does while the log is long enough for what comes between two copies of a
  record (`RequestConsumer_safety.cfg`, whose window is 1, 15 states). One replica with one
  partition, each record published once and no late insert may put `BatchMax - 1` other records between the
  two, so that TLC finds a record counted twice with 5 records, polls of 2 and a window of 2,
  and none with 3; with several partitions, or inserts that land any time later, no
  window is enough. The table has 100000 blocks and the configurations shipped polls of 5000, but
  validate.go sets no upper bound. What the consumer does for its part, to be a
  poll ahead at most, is `OnePollAhead`. `concepts/architecture.md:55` speaks of a token per batch; it is one per record.

Observations where the document can be read otherwise:

- An execution whose cancellation was accepted may end as failed (its worker
  died); the guide, `index.md:103`, speaks of cancelled only.
- `token-quota.md:31` says that the last concurrent request may exceed the limit slightly. All
  calls open together may, each by its whole usage; `OvershootBounded` is what holds, for limits
  that stay. A limit lowered under open calls would be exceeded by what was used before, too.

Not a finding: after a controller restart the active version is unknown and a rejected
first candidate falls back to the empty baseline. `architecture.md:27` says that nothing
is kept; `RollbackRestoresActive` is about one life of the controller, `KeepsContract` about
all of them.

## 6. Proofs

`RecorderProofs`, for any finite set of batches, any sizes and any number of crashes:

- `CountersInv` (types, held entries are the head of the log, counters) is inductive;
  the counter steps rest on lemmas about how the set of calls in a phase changes when
  one call moves. From it `TypeCorrect`, `CountersCorrect`.
- `DurableInv` (a completed publication is in Kafka, an appended batch stays in the log
  until it is, a batch about to be committed is in Kafka) gives `AcceptedDurability`
  and `DropsOnlyDelivered`. No assumption about the sync.
- `BarrierInv` (the count is the length of the log, direct writes only over a drained
  one) gives `DirectWritesDrained`, `NewRecordsNeverBypass`, `CommitAlwaysFits`,
  under `~SyncErrorKeepsEntry`. The count is what recovery looks at, so without
  "count = log" the barrier's invariant is not inductive; run
  `recorder_syncerror` shows that the assumption is needed.
- `PausedInv` (a pause means a raised barrier and a stopped loop) gives `PausedStays`.
- `PromiseKept`, the refinement of `AtLeastOnce`, uses all of them: an append needs the
  barrier to be up, a call returns nil for what is in Kafka or in the log (`DurableInv`), a
  commit releases delivered batches, and the barrier falls over an empty log. Also under `~SyncErrorKeepsEntry`.

`DeliveryProofs`, for any Envoys, streams, types, versions, refusals and bounds:

- `TypeInv` adds to the types that a candidate has a number given to a command, that
  a timer has a candidate, and that an event about a response names a type: `TypeCorrect`.
- `ServesWhatItTracks` is inductive with it: `CacheFollowsDelivery`.
- `EarnedInv` follows an accepted version from the Envoy through an event into the state
  of its stream; at each stop it is one the Envoy has accepted: `ActivationsEarned`.

- `RejectionTrue` (a reported refusal is one of that Envoy) and `CauseInv` (waiting timeouts
  have numbers of earlier candidates unless the timer of this one fired; until a restart the
  last activated version is active): `WithdrawalsCaused`, and, in one life of the
  controller (`MaxRestarts = 0`), `RollbacksRestore`.
- `OneStreamInv` (only open streams have watches and responses, and only on the registered stream of
  their Envoy was a request taken): `OneStreamServes`, through refusals, breaks and late closes.
- `ContractKept`, the refinement of `Rollout`, from the types and `ServesWhatItTracks`: one
  lemma for each action of the contract and one for each handler that uses them. It has no assumption about restarts or failures.
  `OnlyDecides`: without a command or a restart the loop sees nothing but `Accept` or
  `Withdraw` of the contract. A command may activate its own version at once, when it is
  submitted again or the Envoys run it already; that is an order of the contract.

`ReconcileProofs`, for any plugins, artifacts, sizes and bounds:

- `Working` (a pass works on one installed generation of each plugin), `Reasons`, and
  `ResolvedOnDisk` with `PassResolved` (each plugin of the pass is still to do, missing, or
  resolved) and the guard of candidate and active modules. Eviction skips what
  `resolved` names, so files can be lost only to what is not protected; without
  `PassResolved` the submission would not be known to be covered. `ProtectedOnDisk`,
  `GivenLoadable`. It stops at the active configuration: `ActiveLoadable` is finding 4.
- `Directory`: the files are finitely many, their sizes add up to `MaxCache` at most, and the
  order of use has no cycle. `CacheBounded` and `RefusalsJustified` (a module is refused
  only when the modules to be kept leave no room) follow; the oldest of the
  unprotected files that stay was kept when all older ones were counted as gone, so there was room.
- `ContractRespected`: the loop, with Delivery as it takes it to be, refines `Rollout`. A version of
  the contract is what resources compile to, so resources that differ may be one offer.
  `NoneAssumption` only says that the value for "nothing" is no configuration and no failure.

`RequestConsumerProofs`, for any records, partitions, replicas and windows:

- `Positions` (a replica reads between the committed offset and the end), `Rows` (what a
  token, a finished, a later or an abandoned insert says of the tables) and `Committed`:
  `CommitsAreStored`, `ModelCallsFirst`, `OffsetsGrow`. The order of the two inserts has
  to be known of abandoned ones too, which land any time later.
- `PresentNear` (what a replica holds, or ClickHouse has or may still get, has a copy at most
  `BatchMax` beyond the committed offset) with `Placed` (a message is in its record's partition):
  `NeverFarAhead`. A poll adds up what it reads of all partitions, so of each it reads no more than
  that (`PollReadsFew`, by `SumLemmas`), from the committed offset on (`Positions`); offsets only grow.
  No window, no number of replicas and no fault is assumed.

`ExecutionProofs`, for any executions, workers, calls and crashes:

- `IInv` joins the types, `Fresh` (nothing is tied to an execution nobody claimed), the
  rows and one worker: `RowsAreConsistent`, `OneWorkerRunsIt`, and the refinement `ExecutionsAreOneShot`.
- `ScanAloneLeavesSteps`: whoever ends an execution by its own hand ends its steps in the same
  transaction, and a step starts only while its execution runs; no assumption about the scan.
- `TellsTheTruth`: by the refinement's step lemma an end is final until a deletion
  (`EndsAreFinal`), and each step adds to a stream only the end that is stored (`StreamStep`).

`ExchangeProofs`, for any requests, callers, policies, limits and edits:

- `IndexMatchesPolicies` is inductive: `IndexCorrect`. `ChargedOnce` and `OpenBounded` (no more
  than `MaxOpen` requests are open) make `OvershootBounded` inductive: a charge moves
  a request from pending to used, an admission finds the bucket below its limit.
- `Ledger` (the counters are the sums over the settled requests, which are finitely many) is
  inductive: a settlement adds one request to the sum and its usage to the buckets it checked,
  and to no others. `LedgerCorrect`.

`SumLemmas` has what these proofs need of a fold over a finite set: that a sum over nothing is 0,
that one element adds its value, that sums are monotone. Induction over the set is done by hand, by a
smallest set that would be a counterexample, since the library's induction theorem has an operator as parameter.

`PluginCatalogProofs`, for any requests, URLs, versions, calls and faults:

- `Types`, then `NothingStaleOffered` from `Locked` (who is past `Acquire` holds the lock),
  `Bounded` (a definition a job carries is no newer than the resource) and `Guarded` (a job past
  the check whose definition is older than `told` is refused by the state stored, or by its tombstone).
- `NewestIsOffered` from: what a job read under the lock is at least as new as what was
  offered of that URL, since nobody else stores results meanwhile; and state, view and etag
  belong to one URL.

Assumptions: those of the modules about their constants (`ASSUME ...Assumption`), which
the runs evaluate, and the ones named with a theorem.

Only checked by TLC: everything temporal under fairness (`EnvoysConverge`,
`DeclaredDelivered`, `StatusFollows`, `EveryMessagePassed`, `EveryExecutionEnds`,
`SubscriberServed`, `PoliciesArrive`, `CatalogConverges`, `AcceptedReachesKafka`,
`BarrierComesDown`), which is out of the prover's reach. Every safety property of the passing
runs, and each of the refinements' safety parts, is proved.

## 7. Not modelled

- **Authz rate limit.** The rules are consumed in order and what was consumed stays consumed
  (limiter.go:98 says so); each is one call of GCRA in an external Redis library.
- **Authz caches.** Callers and bindings from informers, indexed the way `Exchange` models for
  quotas, and a stateless decision.
- **Compiler and protocol conversion.** Pure translation; what other components
  distinguish of it is in `Reconcile` and `Exchange`. A model would transcribe it.
- **API Server, Admin API resources, Console.** Validation and CRUD over the Kubernetes
  generic API server, whose storage and watch are the library's. What callers rely on
  (generations, conflicts, lost replies) is in the models of the callers.
- **Analytics queries, ALS gRPC service, metrics, telemetry, configuration.** Read-only or stateless.
- **Generated code** (protobuf, OpenAPI, deepcopy, clients, wire), **web and plugins**: the bulk
  of the repository's lines, and the reason why only a small share of all lines
  is mapped: it has no protocol of its own.
- Of modelled components: `Stop` and orderly shutdown except where it races with work
  (Execution); display texts, observations, logs, metrics; the arithmetic of
  capacities, back-off and quota windows.

Not composed: `Recorder` with `RequestConsumer`, and `Reconcile` with `Delivery`. The
products are out of TLC's reach; each side is modelled against any behaviour of
the other. For `Reconcile` and `Delivery` that is more than an intention: what one assumes of the other
is `Rollout`, which both are proved to keep, and `OnlyDecides` is what the loop relies on
between its orders. Liveness does not carry over this way. The one hazard this leaves open, a rollback whose publication was cut, is in `PROJECT.json`
with its reason.
