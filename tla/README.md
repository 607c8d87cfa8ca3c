# A verification project for txgen

txgen generates signed transactions from workload specifications (`txgen-core`,
`txgen-cli`, and the chain plugins `txgen-ethereum` and `txgen-tempo`), sends
them to a node and measures what happens (`bench-core`, `bench-cli`), and runs
scenarios: graphs of submissions and waits over several chains
(`txgen-cli/src/scenario`). This directory holds TLA+ models of that code, the
TLC configurations that check them, and TLAPS proofs. Paths below are relative
to `src/crates`. `PROJECT.json` has, for every definition, the source lines it
stands for.

Run one configuration with

    tlc -config Sender_safety.cfg MCSender.tla

and check the proofs of a module with, for example, `tlapm SenderProofs.tla`.

## The system

The parts, the state each keeps, and who works on it:

| Component | State | Operations | Interacts with |
|---|---|---|---|
| `RpcSubmitter`, `RpcOrdering` (bench-core/src/sender.rs 260-700) | order queue, active keys, a Notify per queue, RPC semaphore | `submit*`, dropping a future, end of observation | scenario steps call it; `ReceiptTracker` observes for it |
| `Sender` (bench-core/src/sender.rs 745-1670) | deque of queued transactions, active keys, setup sets, pending slots, completion channel, deferred error | `send`, `flush`, `pump`, one `submit_tx` worker per transaction | `bench send` calls it; node; `ReceiptTracker`; rate limiter; request authentication |
| Rate limiter (bench-core/src/sender.rs 1677-1772) | tokens, step schedule | `acquire`, start of the schedule | both submission clients |
| `ReceiptTracker` (bench-core/src/receipt_tracker.rs) | registered interests, count of preparing callers, one scanner task with a cursor | `prepare`, `register`, `observe`, drops at each stage, scan loop | both submission clients; query endpoint |
| Nonce lanes (txgen-cli/src/scenario/engine.rs 1220-1380, 1749-2360; txgen-core/src/nonce.rs) | nonce trackers, prepare gate, lane owners, disabled lanes, lanes seen by an instance | `prepare_submission`, `execute_submit`, rollback | scenario steps; `RpcSubmitter` |
| Scenario start (engine.rs 243-330, 1400-1740, 2380-2450; generate.rs 480-640) | endpoints and ledgers of the chains, nonces, static transactions, setup receipts | `initialize`, replay, submit setup | plugins; `RpcSubmitter` |
| Scenario run loop, DAG, account leases (engine.rs 327-780, 896-960, 2457-2480) | running instances, started steps and results, leases | start under count, duration, pace and max-in-flight; join; fail fast | steps; reports |
| Log hub and waits (scenario/log_hub.rs, wait.rs) | one poller per chain, the interests it serves, a window of recent blocks with an epoch, a watch channel | subscribe, publish, rescan after a reorganisation | wait steps; query endpoint |
| Scenario specification (schema.rs, composition.rs, value.rs) | none (pure) | parse, compose, validate the step graph | run loop |
| Scenario reports (report.rs, mod.rs, clickhouse.rs) | counters and durations of finished steps; destinations still to write and those that failed | record, aggregate, publish to files, then to stores | run loop; ClickHouse |
| Setup order (txgen-core/src/setup.rs) | none (pure) | topological sort with key order | `Sender::send_setup`, `generate` |
| Generation (txgen-cli/src/generate.rs) | quotas per template, nonces, a pool of signing threads with results out of order | `generate`, signing pool | spec, plugins, output |
| Core data model, plugins | accounts, ABI, value generators, NDJSON; construction and signing | pure conversions | everything |
| Sender authentication (bench-core/src/auth.rs, txgen-tempo/src/auth_token_map.rs) | token file, cached map | rewrite in one process, reload in another | every authenticated request |
| `bench send` (bench-cli/src/send.rs, preparation.rs, wait_for_persistence.rs) | phase of a run, pending input, baselines | setup, warm-up, reset, measure, tail, drain | `Sender`, reporters |
| `bench call` (bench-cli/src/call.rs, bench-core/src/call.rs) | requests in flight, dropped and recorded counts | closed and open loop replay | reporters |
| `bench send-blocks` (bench-cli/src/send_blocks.rs) | fork-choice head, reorg state | new payload, fork choice, injected reorganisations | engine API |
| Receipt collectors (bench-core/src/receipt_metrics.rs) | registered transactions, polls in flight, closed flag | register, poll, close, time out | `Sender`, reporters |
| Metrics and reporters | counters, samples | record, sample, export | everything |
| Extraction, address tools, command lines | none that lives on | offline reads, argument parsing | files, node |

The hard behaviour is in tasks that interleave at every await, futures dropped
by deadlines, answers that are lost although the node acted, notifications that
must not be lost, a chain that moves and rolls back while it is watched, nonces
that may be neither reused nor skipped, queues that are closed while somebody
still fills them, files that two processes replace, and documents and inputs
whose combinations nobody wrote a test for. `PROJECT.json` lists the hazards one
by one, at their lines.

What makes each correct:

- *Submission clients*: transactions that share a scheduling key are dispatched
  in order, each after the earlier one got as far as the key demands (accepted
  or included); keys, permits and slots are conserved; every call returns; a
  refused transaction was not sent.
- *Receipt tracker*: one scanner at most; a registered waiter misses no block;
  expiry is not reported for what was included; nobody waits for a scanner that
  has gone.
- *Nonce lanes*: a lane has one owner; a nonce on the wire is used once and not
  above a hole; a failed step leaves no reservation; nobody sleeps on a free lane.
- *Run loop and DAG*: never more starts than count or max-in-flight; a step
  starts after its dependencies succeeded; a failed instance leaks no lease;
  two instances never wait for each other's accounts.
- *Log hub and waits*: a wait ends with a match that is on the chain, the first
  one if nothing was reorganised and the endpoint did not fail for long; a window
  shows the logs of one chain.
- *Scenario specification*: what validation accepts can be evaluated, and a name
  means what it means where it is written.
- *Scenario start*: nothing is submitted until every chain is known to be valid,
  and instances begin with the nonces of the ledger.
- *Scenario reports*: every instance is counted once everywhere; the critical
  path is a path.
- *Setup order, generation*: the order respects dependencies and nonces; output
  order is generation order; a failure leaves no gap behind.
- *Tempo plugin*: lanes without gaps; no two transactions with one identity; a
  key is authorized before it is used.
- *Extraction*: a corpus is in the order of the chain, and a merged access list
  tells what happened in order.
- *Authentication*: a map is renewed in time; a half-written file never replaces a
  valid one; a writer that may not replace destroys nothing.
- *bench send*: the report is about measured transactions, sent in order after the
  warm-up is persisted. *bench call*: every request is counted once, digests are of
  the answers. *bench send-blocks*: what is final is never left, and all is replayed.
- *Collectors, metrics*: nothing accepted is lost from a report, archives and
  uploads are whole, and the pipeline drains.
- *Rate limiter*: the rate is never exceeded and, when wanted, reached.

## Modules

- `KeyOrdering`: the abstract promise of a submission client. Transactions
  arrive with a ticket and a set of keys, are granted when no holder and no
  earlier waiter shares a key, and give keys back piecemeal; waiting ones may be
  withdrawn.
- `RpcSubmitter` (+ `MCRpcSubmitter`, `RpcSubmitterProofs`): one process per call
  of `submit_classified_inner`. `stage` is the await the call stands at;
  `Enqueue`, `Acquire`/`Park` (one turn of the ticket's loop), `CancelPending`,
  `AcquirePermit`, `FailBeforeDispatch`, `Dispatch`, `RpcReturns`,
  `ReleaseSubmissionKeys`, `DropTicket` and `EndObservation` are the critical
  sections of `RpcOrdering` and the awaits between them. A future that is
  dropped takes the failure action of its stage.
- `Sender` (+ `MCSender`, `SenderProofs`): the caller's task (`call` is its position in `send`,
  `flush`, `wait_for_buffer_capacity` and `pump`), a worker per dispatched
  transaction (`work`), the completion channel, and the node. `config` is the
  `SenderConfig` and the behaviour of the caller, chosen by Init and constant,
  so that one run covers several settings.
- `ReceiptTracker` (+ `MCReceiptTracker`, `ReceiptTrackerProofs`): submitting tasks, a scanner per run,
  and a chain that grows and loses blocks. One action per critical section of
  `Inner::state` or answer to a scanner's request.
- `NonceLanes` (+ `MCNonceLanes`, `NonceLanesProofs`): scenario steps that prepare and submit on the
  lanes of one chain. One action per critical section or await of
  `prepare_submission` and `execute_submit`.

- `ScenarioRun` (+ `TxgenPartsProofs`): the loop of `ScenarioEngine::run` (`StartInstance`,
  `Join`, `EndRun`, `Expire`), and for each instance the account leases of
  `bind_instance` (`BindFails`, `Lease`, `Bound`), its steps (`StepSucceeds`,
  `StepFails`), and how its task ends (`Return`, `Panic`, `Abort`). `remaining`,
  `running`, `failures` and `context` are the locals of `run_dag_instance`; `given`
  is the clone of the context that a step was started with.
- `ScenarioStart` (+ `TxgenPartsProofs`): `initialize` of engine and chains. `start` is where the caller
  is, `nonces_of` what each chain was told of its accounts, `setup` the static
  transactions and their receipts, `ledgers` the chains behind the endpoints.
- `ScenarioWaits` (+ `TxgenPartsProofs`): `chain` grows and is reorganised (`past` remembers every block
  that was canonical), `hub` and `scan` are `LogPollHub` and its scanner, `updates`
  the watch channel with `unseen` its receivers, and `wait` one record per wait.
  Every action is one answer of the query endpoint or one critical section.
- `ScenarioComposition` turns a document with includes and fragments into flat steps;
  `ScenarioSchema` EXTENDS it with the checks of the flat document and with what an
  instance does with it at run time: `stage` goes from loading to acceptance or
  refusal, and an accepted document is run in every order its graph allows.
- `ScenarioReports`: `journal` are the outcomes that ended so far, in any order,
  `report` the bounded aggregates, `path` the critical path of the last instance.
- `ScenarioPublish`: `publisher` is `finalize_scenario_reports` with its position and its
  failures, `written` what the JSON destinations hold, `stores` the inserts every
  ClickHouse store has applied; `Kill` is the end of the process at any point.
- `SetupOrder`: `setup_submission_order`, with `MustPrecede`, `IsSubmissionOrder` and
  `CanBeOrdered` to say what it is for. `Generation` and `BenchSend` extend it.
- `Generation`: `generator` is the main thread, `signing` the pool with its queue and
  its results, `output` what has been written.
- `TempoLanes`: `tracker` is the nonce tracker with its unique identities, `keychains`
  what setup has authorized, `progress` the position of the run, `txs` what came out.
- `Extract` (EXTENDS `AccessLists`, the merge of access lists): the range is requested
  ahead, answers race, and the fetch task passes blocks through a channel.
- `BenchSend`: `bench` is the command, `traffic` what its `Sender` has taken and sent,
  `network` the nodes with their pools, heads and checkpoints, `report` the result.
- `BenchCall` (+ `BenchPartsProofs`): `call` is the command, `flying` the requests, `recorder` the
  `ReplayRecorder`. `ResponseScan` is the scanner of a response that arrives in chunks.
- `SendBlocks` (+ `BenchPartsProofs`): `replay` is `ReorgState` with the position of the loop, `engine` what the
  engine was told, `mempool` the blocks' transactions.
- `AuthTokens` (+ `BenchPartsProofs`): `file` is the path with what is there, `writer` the processes of
  `auth-token-map`, `provider` the cached map and its reload lock, `request` the
  requests, and `outside` whoever else touches the path.
- `ReceiptCollector` (+ `BenchPartsProofs`): `caller`, `task` (the background select loop) and `collector`.
  `BlockReports`: the collector by blocks and what is computed from its receipts.
- `MetricsPipeline`: scrapers, forwarder, aggregation, archive and reporters, one
  record each; `command` is the order in which the command ends them.
- `RateLimiter`: `limiter` is the bucket, `askers` the tasks that sleep.

Two modules compose what the two programs are made of:

- `TxgenTools` (+ `MCTxgenTools`): the stages of txgen: "document", "start", "run",
  "waits", "report", "publish", "generate", "tempo" and "extract".
- `BenchTools` (+ `MCBenchTools`): the parts of bench: "send", "call", "scan", "blocks",
  "auth", "receipts", "stats", "metrics", "rate" and "tracker".

`TxgenParts` and `BenchParts` are what they extend: the stages and parts about which there
are proofs, with their constants and variables. A proof about a step of such a part then does
not see the other parts.

The parts of a program hand finished values and files to each other and share
no state while they run; a behaviour of a composite is therefore one of a single
part (`tool`, `part`), in which the variables of the others stay idle. What one
stage hands to the next is an input of the next: flat steps, leases and results,
registered transactions, archived samples. Fairness, and the one liveness
property of each program, is stated in the composite. Parts that do share state
are together in one module: submitters and observers of a transaction, steps and
lanes, waits and scanner, writers and readers of a token file, scrapers and
archive. The submission clients and the nonce lanes are checked on their own,
since their questions need larger instances.

`Sender` and `RpcSubmitter` each instantiate `KeyOrdering` with a refinement
mapping (`Ordering`); `holding` are the dispatched transactions whose keys have
not all come back, and `keys` what each of them has yet to give up. For `Sender`
this counts keys that are in the channel, since the caller regards them as
active until it reads the message.

### What the models leave out or assume

- Rate limiting only delays: no guard of another module depends on it.
- In both clients a deque is a set ordered by id; ids are handed out in push
  order. A transaction carries its key sets after normalisation.
- `Sender`: the sender of `bench send` runs in one task; `StopOnError` says that
  it gives up after the first error of `send` or `flush` as `bench send` does. The
  other instances go on, which `send`'s contract allows. Workers continue
  after the caller is gone; in the program the process exits then, so this only
  adds behaviours. A setup transaction names at most one prerequisite. An
  inclusion that reverted and an expiry are both "failed": the sender does the
  same with both but for setup success, which neither gives. What nobody
  observes stays in the node's pool, since no property looks at it.
- `ReceiptTracker`: time is block height. Callers register a hash before it is
  dispatched, as both clients do (sender.rs 1409-1430). `RECEIPT_TIMEOUT` and a dropped task are the
  action `Abandon`, which may happen at any time.
- `NonceLanes`: one chain. `release_instance`, which forgets the lanes an
  instance has seen once it has ended, is left out, so the model refuses at
  least what the code refuses; unique nonces (expiring ones, for instance)
  have keys but take no number.

- `ScenarioRun`: a sequential scenario is a chain in the same graph. `paced` says
  that a start may be delayed, during which a join is taken; by how long does
  not matter. An account is a number, ordered as its address. Selections
  without a lease take no part. Validation has made the graph acyclic and the
  bindings well named, so that a `RuntimeContext` can always be built; a result
  that cannot be saved is a failed step. Receipts are drained after the run and
  are not modelled. The instance counter does not reach 2^64.
- `ScenarioWaits`: a block has at most one log, which is also its transaction. The
  WebSocket wake-up only shortens a sleep; filters by address and by transaction
  hash are left out. Reorganisations are bounded by `max_reorgs`, failed answers by
  `max_errors`.
- `ScenarioComposition`, `ScenarioSchema`: a dotted path is a sequence; a literal is the
  set of types its text fits. Field names and number formats are left out. A
  checkpoint's `block_hash` is typed bytes32 though it can be null at run time;
  the model gives it a value. A file with fragments that is included on two ways
  (a diamond) is refused as a duplicate, by design (src/README.md:1044).
- `ScenarioPublish`: a row is its identity in its table; columns are left out. The run
  is one step, which fails or hands over its report. URLs are known by their
  canonical form: two different ones are two stores. Nobody publishes a report
  again after a kill, so orphan rows of the run may stay, as the code says.
- `ScenarioStart`: the test for aliases compares submission URLs only, so two chains
  with different URLs may be one ledger; the inputs contain that case. On such a ledger
  an entry of the setup may be there before its turn, from the setup of the other
  chain, so that sequential setup is stated for chains with a ledger of their own. State files
  and account derivation are left out.
- `Generation` and `BenchSend`: a transaction that is read as the deadline passes is
  dropped (bench-cli/src/send.rs:556), so the tail may have a hole in its nonces;
  `MeasurementIsClean` bounds the loss to one transaction for each deadline. A reset of the pools drops ordinary nonces too; the
  documentation assumes expiring ones (src/README.md:343-380). The drain looks at
  the pending pool of the query node only.
- `TempoLanes`: the fee that is signed and the index of the key that is derived are part of a
  transaction; where the code does not keep them apart, `IdentitiesAreUnique` says so (see Findings).
  An expiring template with a nonce of its own gets no bump, and is its author's to keep
  distinct (src/README.md:2154). Signing, zones and the widths of integers are left out.
- `BenchCall`, `ResponseScan`: latencies and HTTP are left out; a response with `"error":
  null` counts as an error, as in the code.
- `SendBlocks`: after a batch `finalized` follows at a distance of one checkpoint, also
  backwards over a gap; before the first checkpoint the first block counts as
  final. The contents of synthetic blocks are left out.
- `AuthTokens`: a request made while another thread holds the reload lock does not wait
  and uses the map of the last reload.
- `MetricsPipeline`: the queue of prepared uploads has no bound during a slow upload.
  Samples after a cut-off have been forwarded already; `sample_count` ignores the
  cut-off. Text formats, filters of metric names and percentiles are left out.
- `RateLimiter`: time is counted in ticks. The inputs' burst is a whole number of
  tokens (`FitsBurst`): below about 100 transactions a second the burst is one token,
  and what a late wake-up loses is not made up for.
- `BlockReports`: a reorganisation between receipts and statistics is noticed by the
  gas of a block; with equal gas the timestamp may be of another fork's block.

### Faults

A definition marked `\* fault` is the next definition with a plausible bug in it:
a guard dropped, a key forgotten, a notification left out. No specification
uses it. `PROJECT.json` pairs each checked property with a fault that breaks
it, which shows that the property depends on the code it is about. To try one,
make the original definition equal to the faulty one and run the configuration.

## Runs

| Run | Instance | Shows |
|---|---|---|
| `rpc_submitter_order` | 3 calls, keys k1 k2, 1 permit, every choice of empty, submission-only, inclusion-only and overlapping key sets; about 150,000 states | types, exclusive keys, no leaked key or permit, implementation of `KeyOrdering`, and under fairness every call settles |
| `rpc_submitter_parallel` | 2 calls with disjoint keys, 2 permits | violated: see Findings |
| `sender_safety` | four settings of up to 4 transactions on 2 lanes, symmetric in the transactions; about 1.8 million states | lane order by release kind, keys, slots and the pending limit accounted for, setup prerequisites, refused and cancelled transactions, implementation of `KeyOrdering` |
| `sender_live` | 3 transactions; permits, buffer and pending limit all 1; about 830,000 states | every `send` and `flush` returns |
| `receipt_tracker_safety` | 2 tasks on one hash, 2 scanner runs, 3 blocks, 2 blocks per scan, deadlines 0 and 3, one block lost; about 4.3 million states | one scanner that everyone interested can count on; without a rollback no missed block and no false expiry |
| `receipt_tracker_reorg` | 1 task, 3 blocks, 1 rollback | violated: see Findings |
| `nonce_lanes_safety` | 4 steps of 2 instances (two in parallel, one after one of them, one apart), 2 lanes; about 1 million states | lanes have one owner and nobody is stranded; no nonce is reused or skipped, instances are ordered; rewinds succeed and nothing is leaked |
| `nonce_lanes_disabled` | 2 steps of 2 instances | violated: see Findings |
| `txgen_tools` | every tool of txgen with the inputs below; about 421,000 states | what each stage promises, and that each with tasks of its own ends |
| `bench_tools` | every part of bench with the inputs below; about 770,000 states | what each part promises, and that each with tasks of its own ends |
| `waits_confirmations` | one log wait, one confirmation, 3 blocks, one reorganisation | violated: see Findings |
| `report_shadowed_id` | one sequential instance of three steps | violated: see Findings |

The properties of the composites are, with what they are made of:

| Property | Made of |
|---|---|
| `DocumentsAreSound` | accepted steps evaluate; names are lexical; private saves stay hidden; an instance of a fragment waits as a whole; the events that a step names get distinct logs |
| `StartIsOrderly` | validity before mutation; sequential setup; current nonces; no false refusal |
| `InstancesAreAccounted` | leases are exclusive and come back; dependents see results; the report is complete |
| `WaitsEndOnOneChain` | a wait ends with a canonical match, the first one as long as the chain and its endpoint are steady; a window is of one chain |
| `ReportAddsUp` | counts, samples, latencies and edges agree with the outcomes; the critical path is one; a store that shows the run has every row once; files come before stores; no destination is skipped |
| `OutputIsSubmittable` | no gaps in nonces; whole items; bounded signing; setup order is right and is what is written |
| `LanesAndKeysAreUnique` | contiguous lanes; prepared steps; no fee is signed twice of those configured alike, and no inline key derived twice but where ranges cross; authorized keys |
| `CorpusFollowsTheChain` | order of the corpus; big blocks partition it; merged lists are chronological |
| `MeasurementIsClean` | order of the input per key; the report is of measured transactions, with a tail of exactly those that were mined before the measurement was over; the warm-up is persisted on every node; no false mismatch, and the composition is of the blocks |
| `CallsAddUp` | every request accounted for; references are of the first pass |
| `BlocksAreReplayed` | what is final is kept; the input is replayed |
| `TokensStayValid` | maps are renewed in time; nothing is clobbered |
| `ReceiptsAreCollected` | what was accepted is collected, once, or its time was over |
| `MetricsAreWhole` | forwarded is archived; archives and uploads are whole and ordered; visible runs are whole; series match counters |
| `HelpersAreExact` | the rate is held, and reached; digests are of the answer |
| `EveryToolEnds` | a run ends with nobody at work; signing threads and fetches are joined; a log that stays ends its wait; publication ends |
| `EveryPartEnds` | `finish` of the collector returns even if the node never answers; the pipeline drains; a waiter hears of a block that includes its transaction or leaves, and a cursor that a rollback left ahead rejoins the head |

Why the bounds are enough to meet the hard cases:

- Two keys and three transactions give a chain of three on one key, one that
  spans both lanes, and an overtaking attempt past a skipped one. One permit
  makes the permit the contended resource after the keys; a limit of two
  pending transactions with three to send is reached and left again. In
  `sender_safety` four transactions on two lanes allow a cancelled queue with
  survivors in flight and a later transaction on the same lane.
- Two tasks on one hash meet every order of prepare, register, stop and
  restart; a second scanner run is what a lost or duplicated start takes.
  Three blocks leave one before, one at and one after the starting head, and
  `BlocksPerScan = 2` ends a scan before the head. `MaxRuns`, `MaxHeight` and
  `MaxRollbacks` bound counters that the program does not bound.
- Four steps allow a holder, a waiter without a reservation (a unique nonce), a
  waiter that re-materialises, and a newcomer at the gate; each of the two
  lanes is taken alone and together with the other.
- Three instances with two leases each on three accounts are the smallest cycle
  of waiting that the sort must prevent; a diamond has a step with two
  dependencies and two steps at once. `MaxInstances` bounds a run by duration.
- Documents: a fragment inside a fragment, used before and after other steps, with
  every kind of argument and reference, in both modes, about a thousand in all;
  and one document for each way in which files are refused.
- Start: two chains with setup of two and one, endpoints and ledgers that
  coincide or not, and one input per refusal.
- Waits: history longer than the window, a block that is replaced while a search is
  under way, two waits that share the scanner, failed answers up to the retry
  limit, receipts with every assignment of three logs to three events.
- Publications: two files and two stores with rows in every table and two batches of
  receipts, a file named twice, one store in two spellings, and one input for each
  way to refuse the destinations.
- Generation: two signing threads with one job each and three items in flight, the
  27 shapes of dependencies among three setup steps and more, and every
  combination of arguments. Tempo: every pair of templates that share a lane, a
  key or an identity, among them fees that differ alone (10 and 12), a range of two keys next to
  one without end, and one that crosses it. Extract: windows of one to three fetches over three blocks,
  and every combination of three access lists in groups of one and two.
- Bench send: the warm-up with two nodes whose heads and pools differ, a deadline
  that falls anywhere, input that ends in every phase. Each validator has to propose
  before the pools are reset, so two of them use up two blocks of `max_blocks`; the input with a tail
  has one validator and three blocks, for the warm-up, the measurement and what comes
  after, and a transaction for each. That a command gives up for want of an answer (`gives_up`) is
  left to the other inputs. Bench call: one permit and
  two arrivals force a drop. Responses: every place to cut every answer in two,
  three or more chunks. Send-blocks: all batches up to depth 3, gaps up to 2,
  up to eight lines, two checkpoints.
- Auth: two writers of every permitted pair, one second more than a token lives
  twice, one meddling from outside. Collector: three registrations with duplicates,
  one and two workers. Stats: a fork that moves transactions and one that is
  shorter. Metrics: two scrapers on one forwarder, and every order of reporters
  that have something in common. Rate: steps up, down and up, slower and faster
  than a token a tick.
- `MaxTicks`, `MaxSeconds`, `MaxClock`, `MaxPolls`, `MaxErrors`, `MaxFailures`, `MaxLate`,
  `MaxMeddling`, `MaxGenerated`, `MaxTaken`, `MaxPrepared` and `max_issued` bound counters
  that the program does not bound, and the constants of the program (retries,
  sizes of windows, queues and requests) have small values.

`CHECK_DEADLOCK FALSE` is set everywhere: every program ends when its calls have
settled, its steps have ended, or its bounds are reached.

### Fairness

- `RpcSubmitter`: tokio polls a task that can run (weak fairness of the local
  steps); its semaphore serves waiters in turn, so a task that wants a permit
  again and again gets it (strong fairness of `AcquirePermit`); preparation,
  observation and the RPC end by a deadline. `LocalFairSpec` leaves out all that
  depends on the node.
- `Sender`: the caller and the workers run, and the HTTP client answers or fails
  every request; observation ends by `RECEIPT_TIMEOUT` at the latest. Nothing is assumed of the node: it need not accept or
  include anything.
- `ReceiptTracker` (in `BenchTools`): tasks are polled (weak). Requests of the scanner
  may fail any number of times but each kind succeeds now and then (strong), else
  nothing could ever be reported. No fairness of timeouts: the properties hold
  without them.
- `NonceLanes` has no liveness property, since every step's deadline ends it.
  That nobody needs the deadline is the invariant `LanesAreServed`: who sleeps
  without a notification sleeps on a lane that somebody holds, and the gate is
  held by a step that is at work.
- `ScenarioRun` (in `TxgenTools`): tasks are polled, a duration passes, and every step
  ends by its deadline (weak). A tokio semaphore is fair, so an instance that waits
  for an account that comes free again and again gets it (strong fairness of `Lease`).
- The other tools of `TxgenTools`: publication goes on, since an insert times out after a
  minute (clickhouse.rs:57); the main thread, the signing threads and the fetch
  task are scheduled and their requests answered, the scanner and the waits are
  polled. The chain need not move. Retries are bounded in the code.
- `BenchTools`: time goes on, the select loops are polled in each of their branches, and
  metric stores answer or time out. A node need not answer the collector.
- Liveness is not checked of documents (validation is one pass, and running what it
  accepts in all orders would double the graph), of reports, Tempo lanes, block
  reports and response digests (nobody waits for anybody there), nor of `BenchSend`
  and `SendBlocks`, which wait for a chain that need not move.

Since a behaviour of a composite is of one part, a weak fairness condition may name
an action of each part, which keeps the number of conditions small.

## Findings

Each is a run whose property TLC finds violated, with the text it contradicts
quoted in `PROJECT.json`.

- `rpc_submitter_parallel`: "disjoint keys = parallel" (sender.rs:4).
  `RpcOrdering::try_acquire` serves only the first ready order and notifies
  nobody after taking one; a second caller with free keys parks until some
  unrelated call moves.
- `receipt_tracker_reorg`: "even inclusion before the submission response is
  covered" (receipt_tracker.rs:3). A head replaced by another block of the same
  height between two polls is not scanned.
- `nonce_lanes_disabled`: "further submissions on that chain are disabled"
  (src/README.md:1439). Only the lanes of the ambiguous submission are disabled,
  and only for steps with ordered nonces.
- `waits_confirmations`: the waiter "honors confirmations" (src/README.md:1328). The
  head that is compared with a log's block is that of the last window the scanner
  published, which may be of the fork before; a log on a new and shorter fork is
  reported without a block above it.
- `report_shadowed_id`: "longest observed dependency path" (scenario/report.rs:33). In a
  sequential scenario a step without an ID goes by its save name, which nobody
  compares with declared IDs; the path is then computed from a graph in which a
  step depends on itself, and is empty, or never found.

Observations that are not runs of their own:

- `Sender` has the same divergence as `RpcSubmitter` from "disjoint key sets can be sent in
  parallel" (sender.rs:961): a permit freed by the answer of an RPC does not wake
  `flush` (sender.rs:1065) when the transaction has inclusion keys only, so a ready
  transaction on other keys waits for an inclusion.
- After a reorganisation between two windows, the search that starts at the next
  unscanned block may return a match that is not the first one of the new chain
  (src/README.md:1326).
- An error that the scanner publishes between `wait_for_head` and `latest_head` (wait.rs) makes
  the wait drop the candidate that it was confirming; the next window that it reads begins after
  that block, so that the wait may end with a later match, or none, without any
  reorganisation. TLC finds this with one wait, one confirmation, four blocks and two failing
  requests; hence `EndsWithCanonicalMatch` speaks of the first match only while fewer
  than `ScanRetries` requests have failed.
- src/README.md:1123 says that dependency contracts are checked for unused fragments;
  dependency IDs of unused fragments are not looked up.
- The first workload of a warm-up is lost to the proposer observer if it finished
  before the observer's first read; the observer sleeps a second first.

Two more are the exceptions that `IdentitiesAreUnique` makes. With either of them taken out of it,
`txgen_tools` finds it violated:

- "expiring nonce transactions never produce identical signed payloads within one
  generation run" (txgen-tempo/src/lib.rs:848-849). The bump is added to the fee that
  the template configures (lib.rs:875-883), so that templates that differ in nothing but this fee
  may meet. In the mix of templates 7 and 11, of one account, a fee of 12 with
  the first bump, 1, and a fee of 10 with the second, 3, are both signed as 13.
- "a deterministic per-transaction secp256k1 access key" (src/README.md:2201). One counter serves all inline sources,
  but its value is added to the start of each (lib.rs:1007-1011). With a key range from 1 on and
  another one from 2 on of one mnemonic, as in the mix of templates 12 and 5, offset 0 of the second
  and offset 1 of the first are the same key.

## Proofs

Eight modules hold proofs. The first four EXTEND the module of a component; the
other four EXTEND a composite and prove, about its `Spec`, what holds of one of its
parts, in which the other parts are idle. What is proved holds for every value of the
constants that the named assumption admits; no bound of a `.cfg` is used. In each,
the properties follow from one inductive invariant (`IInv`, or `RunInv`, `AuthInv`,
`CollectInv`, `StartInv`, `TempoInv`, `WaitsInv`, `CallInv`,
`BlockInv` for a part of a composite), which TLC has checked on the
instance of the run.

### RpcSubmitterProofs

For any set of calls, any set of keys, any `KeyChoices` of pairs of key sets and
any positive number of permits (`ConstantsAssumption`):

| Theorem | Statement |
|---|---|
| `TypeCorrect` | `Spec => []TypeOK` |
| `KeysAreExclusive` | `Spec => []KeyExclusion` |
| `NoKeyLeaks` | `Spec => []ActiveKeysAreOwned` |
| `ArrivalOrder` | `Spec => []NoOvertaking` |
| `PermitsConserved` | `Spec => []PermitsAreOwned`, for finitely many calls |
| `SubmitterImplementsKeyOrdering` | `Spec => Ordering!Spec` |

None of the key invariants is inductive alone. That a call may take
keys that are not in `active_keys` proves exclusion only if `active_keys` is
exactly what the holders own; that a release keeps it so needs that no other
holder has the released key, which is exclusion again, and that a ticket has
given up its submission keys before its drop. That the queue keeps its order
needs that ids below `next_id` were handed out and that the queue is the set of
calls in the stages `trying` and `parked`. `IInv` is the conjunction of these:
`TypeOK`, `QueueInv`, `TicketInv`, `ActiveKeysAreOwned`, `KeyExclusion` and
`NoOvertaking`. The proof has a lemma for each kind of step (a move between
holding stages, giving keys back, leaving the queue, being refused, queueing,
granting) and `IInvStep` reduces each action to one. Permits are independent:
a permit leaves the pool exactly when a call enters the stages that own one.
The refinement follows action by action: `Acquire` is `Grant`, the three releases
are `Release`, a cancelled order is `Withdraw`, and the rest stutter.

### SenderProofs

For any sets of transactions and keys, finite or not, and any set of
configurations whose limits are numbers (`SenderAssumption`):

| Theorem | Statement |
|---|---|
| `SenderInductive` | `Spec => []IInv` |
| `TypeCorrect` | `Spec => []TypeOK`: no counter of `Sender` wraps |
| `LanesInOrder` | `Spec => []LaneOrder` |
| `KeysComeBack` | `Spec => []ActiveKeysAreOwned` |
| `SlotsExact` | `Spec => []SlotsAccounted` |
| `SetupInOrder` | `Spec => []SetupAfterDependencies` |
| `AnswersAreKept` | `Spec => []AnswersHold` |
| `SenderImplementsKeyOrdering` | `Spec => Ordering!Spec` |

The caller of the program learns what its workers did only from the messages in
the completion channel, and reads them whenever it likes. So the counters and
keys that the caller has are right only together with what is in the channel, in
any order: `KeyInv` says that a key of a dispatched transaction is with its worker or in
one message, and `OwedInv` which keys a worker still has at each stage; `CountInv`
says the same of permits and of the two kinds of slots, with cardinalities of the
set of workers that have not reported and of the indices of the channel. The
limit on the node's pool (part of `SlotsAccounted`) does not follow from the
slots: an observation may end without a result while the transaction stays in the
pool, and its slot is given back. `PoolInv` holds since such a message is a
failure that stops all dispatching when it is read, and keeps the slot until then.
`SetupInv` ties `completed_setup` and what the channel reports to inclusions;
`LostInv` follows a cancellation from `deferred_error` through `flush` until the
caller has been told. Steps are reduced to four shapes: the caller only moves, a
worker moves without giving anything back, a worker reports, and the caller reads a
message. For the refinement, `Enqueue` is `Arrive` and
`Dispatch`, of the first transaction whose keys are free, is `Grant`; a cancelled queue
is `Withdraw`; a report with keys stutters, since the keys are in the channel then,
and the reading of it is `Release`.

### ReceiptTrackerProofs

For any set of registering tasks and hashes and any number of scanner runs, blocks and
rollbacks (`ReceiptTrackerAssumption`):

| Theorem | Statement |
|---|---|
| `TrackerInductive` | `Spec => []IInv` |
| `TypeCorrect` | `Spec => []TypeOK`: `preparing` never goes below zero |
| `ScannersAreThere` | `Spec => []ScannersServe` |
| `InclusionsKept` | `Spec => []InclusionsAreKept` |

`CountInv` says that `preparing` is the number of tasks between `prepare` and the end of
their registration; with it a scanner that finds zero and an empty `pending` may
stop, and nobody is left behind. `RunInv` says that runs follow one another and that
the channel of the last one says what its cursor does; `ListenInv` that a task that prepares is
subscribed to the run at work or to one that has failed; `PendingInv` that who is
pending has a scanner that has its starting head. `InclusionsAreKept` is about chains that lose no
block: there `CursorInv` holds (the cursor is at most one above the head and at or
below each block that holds a pending hash), and every step keeps it unless it is a
rollback. That expiry is final needs `ChainInv`, a block holds a transaction only
below its expiry, which is the rule of the chain that the code relies on.

### NonceLanesProofs

For any set of steps, instances and lanes, any transitive
`Before`, and any `Choices` of keys with ordered ones among them
(`NonceLanesAssumption`):

| Theorem | Statement |
|---|---|
| `NonceLanesInductive` | `Spec => []IInv` |
| `TypeCorrect` | `Spec => []TypeOK` |
| `LanesServed` | `Spec => []LanesAreServed` |
| `NoncesInOrder` | `Spec => []NoncesAreInOrder` |
| `NoncesKept` | `Spec => []NoncesAreKept` |

The core is `DenseInv`: the reservations on a lane are the nonces below its counter,
one each. Giving a reservation back keeps that only if it is the newest one;
`NewestInv` says so of every stage from which a step may roll back, and rests on
`GateInv`: only the holder of `submit_prepare_gate` reserves before it has the lanes,
and a step that has left the gate with the lanes cannot be overtaken on them but by the
holder of the gate, whose trial is undone first. `SentInv` ties what is on the wire to reservations and what
failed after the answer was lost to disabled lanes; `OrderInv` is the order of the wire,
already for steps about to send. `WaitInv` says that a step without a notification
waits for an owned lane, already before it sleeps; that nobody is stranded is the case of those who sleep.

### TxgenPartsProofs and TxgenToolsProofs

`TxgenPartsProofs` is about the steps of a stage, `TxgenToolsProofs` has the theorems about
`TxgenTools`; a behaviour of that is one of a single stage.

| Theorem | Statement |
|---|---|
| `RunInductive` | `Spec => [](tool = "run" => RunInv)` |
| `InstancesAccounted` | `Spec => []InstancesAreAccounted` |
| `StartInductive` | `Spec => [](tool = "start" => StartInv)` |
| `StartOrderly` | `Spec => []StartIsOrderly` |
| `WaitsInductive` | `Spec => [](tool = "waits" => WaitsInv)` |
| `WaitsOnOneChain` | `Spec => []WaitsEndOnOneChain` |
| `TempoInductive` | `Spec => [](tool = "tempo" => TempoInv)` |
| `LanesUnique` | `Spec => []LanesAndKeysAreUnique` |

`ScenarioRun`, for any scenarios whose graph has no cycle, any pools, rates and limits, and any
number of instances (`ScenarioRunAssumption`). That graphs have no cycle is what
`validate_dag_graph` (scenario/schema.rs 684-745) checks before a run.
`run_dag_instance` never asks whether a step may start: it counts `remaining` down as
steps end and starts a step at zero. `GraphInv` says that this count is the number of
dependencies that are not done, as long as no step has failed, and that a step whose
dependencies are done has been started; the graph being without a cycle, a step
that is left would have an unfinished one to wait for, so an instance that has
nothing running is complete. `LoopInv` says that instances are started in turn and
each is recorded once; `LeaseInv` that who holds an account is binding it or at work,
and that nobody who has returned holds one.

`ScenarioStart`, for any scenario of at least one chain whose setup has no entry twice
(`StartAssumption`; scenario/schema.rs:526 requires a chain, and the `content` of an entry
stands for its ID, which generate.rs:1224 requires to be unique), any nonces and any
static steps. `PhaseInv` says which chains have been prepared and validated at each phase, and
`QuietInv` that every ledger is untouched until all are. From then on `SetupInv` describes a
ledger that one chain has to itself: it holds exactly the entries before the one whose
turn it is, each included with success, and the one under way if it has been
sent. The transactions of a ledger are told apart by `content`, hence the assumption
that entries differ. So
the pending nonces of an account are those it began with plus what setup has sent,
which is what the tracker is told (`CurrentInv`). `RefusalInv` says of a refused
scenario that its static submissions would not have fitted.

`ScenarioWaits`, for any log and receipt waits, retention of blocks and scan ranges that are positive,
and any height, reorganisations and failing requests (`ScenarioWaitsAssumption`). The chain may be
replaced between any two requests, so nothing that was read need still be true. `ForkInv` is
what makes this manageable: a block remembers the fork that it was mined on, so a block that
has left the chain does not come back, and an answer that agrees with an earlier
one about a block speaks of the same chain below it. `ScanInv` says that the logs
of a scan are those of the chain of its head, for all whom its plan includes, *if* that head is
still on the chain when the scan is committed, which `Commit` asks; `WindowInv`, then, that
what is published shows one chain to everyone who had subscribed before the scan
began: whoever came later is not in the plan and waits for the next window. `StandInv` is about
the waits. What a wait has found is a match of a chain there was (`Found`), for a receipt one that had
its confirmations, as the receipt is read again after the blocks above it
(`Confirmed`). `Searched` is about first matches: while `Steady`, every block below where a
wait searches is known not to match, and every match between its window and
the head of the history is in the queue that it read from the window. It is the longest of
these, because a candidate moves from window to queue to search to confirmation and at each of these steps what was
left behind must not match.

`TempoLanes`, for any pools that are not empty, any templates, setup and number of instances, and
any nonces of a chain that has one for every lane (`TempoAssumption`; a template that authorizes an
access key is signed by its account, as `keychain_setup_template_value` writes it). One
handler, `build_request`, is behind offline generation, setup, mixes and scenarios, and it
advances counters before it knows whether it will be refused. `BuildFacts` says once what it may do
to the tracker and what the transaction it makes is like; each action then has to show what is
its own. `LaneInv` says that the next nonce of a lane is the chain's first one plus the
number of transactions that took one from it, and that the nonce of each is the first one plus
those before it: a refusal after the nonce was taken would break this, and there is
none. The same invariant holds no account of a lane that nobody has asked for.
`IdentityInv` is about what makes transactions unique beyond nonces. Generation draws from
counters, a scenario computes a number from instance, step and account (`Hint`, `Dense`),
and both may occur in one run; counters give odd numbers and hints even ones, `Hint` and `Dense` are
injective by division with remainder, and setup, steps and instances occupy
disjoint numbers below what `BumpsTaken` and `KeysTaken` say has been used.
`Derived` ties a transaction's fee and key to its number: the fee is the configured one plus the bump,
the key has the index of its source plus the number, which lies within the range. `SignedApart`
concludes: of one configured fee no two bumped fees are equal, and two keys can only be equal if their
sources start apart and each reaches the other.
`KeychainInv` follows setup: the keys of a pool that has been authorized are `Granted`, but for the
accounts that the entry under way has not come to.

### BenchPartsProofs and BenchToolsProofs

`BenchPartsProofs` is about the steps of a part, `BenchToolsProofs` has the theorems about
`BenchTools`; a behaviour of that is one of a single part.

| Theorem | Statement |
|---|---|
| `CollectInductive` | `Spec => [](part = "receipts" => CollectInv)` |
| `ReceiptsCollected` | `Spec => []ReceiptsAreCollected` |
| `CallInductive` | `Spec => [](part = "call" => CallInv)` |
| `CallsAccounted` | `Spec => []CallsAddUp` |
| `AuthInductive` | `Spec => [](part = "auth" => AuthInv)` |
| `TokensValid` | `Spec => []TokensStayValid` |
| `BlocksInductive` | `Spec => [](part = "blocks" => BlockInv)` |
| `BlocksReplayed` | `Spec => []BlocksAreReplayed` |

`ReceiptCollector`, for any registrations with duplicates, any number of workers, any timeout
and any answers (`CollectionAssumption`). What the collector accepted is in the queue or in `seen` (`QueueInv`); each key of
`seen` has had one task (`TaskInv`), which is at work or has put the key in the records
or given it up, never both and never twice (`ResultInv`); a task gives up only when
the deadline that its request was queued with has passed (`DeadlineInv`). The
select loop ends with queue and tasks empty (`EndInv`), so at the end all is in the
result.

`BenchCall`, for any corpus, number of passes, of requests and of workers, and any order of
answers (`CallAssumption`). `OpenInv` counts the open loop: what was issued has its row, is under way
or was dropped, and nothing is under way once the loop has drained. `TicketInv` is about the
closed loop, whose workers draw tickets from one counter: a ticket stands for a pass and a
record by division (`SlotOf`, `Tickets`), each that was drawn is under way or has exactly one row, so
at the end every record has one row in every pass. The digest that is kept of a record
(`ReferenceInv`) is of an answer that was seen, and of the first pass as soon as that has one: answers of
later passes may come first, and the one row that the first pass has of a record then
replaces them.

`AuthTokens`, for any settings in which a token is renewed before it ends and a reload interval is
positive, any finite number of writers, and any number of requesters
(`SetupAssumption`). Time is the argument. A second passes without being counted in `late` only if every
watching writer waits for its refresh, so a file is at most `late` seconds older than
its time of renewal (`FileInv`), and what the provider loaded when it last looked is
at most a reload interval older than that (`ServiceInv`). Both are about maps that a
watching writer renews and nobody outside touches; `StampInv`, `LifeInv` and `LockInv` hold
without: which stamps are out, how long a map may live, and that the reload lock is with
the one who reads. `PublishedInv` counts: a writer that may not replace a file
publishes only over none.

`SendBlocks`, for any chain of blocks with consecutive numbers, any depth, gap and checkpoint
(`BlockAssumption`; `txgen extract` writes such inputs, blocks of a range or big blocks numbered
`from + emitted`, extract.rs:1010). `PositionInv` says which line each stage is about: what was read is
submitted, due or pending, in the order of the input, and a batch is anchored at the
block before it. `CanonicalInv` gives the updates for submitted blocks, `ForkInv` those of
a fork: one contiguous run that starts above the anchor, which is how a head of a
fork descends from it. `MarkInv` bounds everything that was called safe or final by the last
block submitted; as the anchor of a later fork is never below that block, no later
head leaves it. `BatchInv` divides the position by depth + gap. None of the five holds
of the steps alone: the update of a fork needs its anchor, the anchor the position,
and the position how many lines are due.

### What is only model-checked

- Everything under fairness (`EveryCallSettles`, `CallsReturn`, `EveryToolEnds`,
  `EveryPartEnds`), which is out of the prover's reach.
- What recursive definitions and folds compute (the order of setup in `Generation`,
  merged access lists in `Extract`, digests in `ResponseScan`, sums over ticks in `RateLimiter`,
  as in `HelpersAreExact`): they need induction over data.
- That the events of a step are assigned whenever this is possible, and to the first logs in order
  (`EventsAreAssigned`): the assignment is a fold over the events.
- The other properties of the two composites: `TypeOK`, `DocumentsAreSound`,
  `ReportAddsUp`, `OutputIsSubmittable`
  and `CorpusFollowsTheChain` of `TxgenTools`; `TypeOK`, `MeasurementIsClean`,
  `MetricsAreWhole` and `HelpersAreExact` of `BenchTools`.

## Not modelled

- The core data model (`txgen-core` but for nonces and setup order): derivation, ABI,
  value generators, NDJSON. Pure conversions of one value at a time; the models take
  their results as inputs.
- Construction, encoding and signing in the plugins, zone deposits and the Ethereum
  plugin, whose nonces are those of the core.
- Command lines, parsing of YAML, JSON and Prometheus text, the columns of
  ClickHouse rows and report layout: I/O and formatting.
- `Sender`: swapping of the metrics or receipt collector; a panic of a worker. Queued setup
  that a failure dropped stays in `known_setup` (sender.rs:969), which would refuse a
  retry as a duplicate; no caller of the repository retries.

## Plan

Done: models of all components with state or order, composed per program; proofs
about `RpcSubmitter`, `Sender`, `ReceiptTracker`, `NonceLanes`, `ScenarioRun`, `ScenarioStart`,
`ScenarioWaits`, `TempoLanes`, `AuthTokens`, `ReceiptCollector`, `BenchCall` and `SendBlocks`, among them that both
submission clients implement `KeyOrdering`.

What is left would need other means: the liveness properties, folds and
recursive definitions are out of the prover's reach; `DocumentsAreSound`, `OutputIsSubmittable`,
`CorpusFollowsTheChain` and `MetricsAreWhole` rest on such definitions. `ReportAddsUp` and
`MeasurementIsClean` are the next candidates for an inductive invariant.
