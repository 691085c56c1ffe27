# Verification of the blockchain validator

TLA+ specifications, TLC models and TLAPS proofs for the validator of this repository: a
Mysticeti-style consensus replica (an external dependency) feeds totally ordered sub-dags to an
execution layer, and the validators certify the resulting state by attesting checkpoints through
consensus itself. What is specified is the code under `src/crates`: what a validator does with the
commit stream. All paths below are relative to `src/crates`.

## 1. The system

```
            Envelopes (payload)                     CommittedSubDag stream
 generator ─────────────┐      ┌───────────┐      ┌──────────────────────────────┐
                        ├─────>│ consensus │─────>│ driver task (validator.rs)   │
 other clients ─────────┘      │  replica  │      │  ExecutionState              │
                        ┌─────>│ WAL       │      │   ├ SequentialScheduler      │
                        │      └───────────┘      │   │   └ InMemoryStore        │
                        │        recovery │       │   └ CheckpointCertifier      │
                        │                 └──────>│  replay, then live           │
                        └─────────────────────────┤                              │
                           own attestations       └─┬──────────────┬─────────────┘
                                             watch: executed   watch: certified
                                                    └─ ValidatorHandle ─┘
```

| Component | State | Operations | Interacts with |
|---|---|---|---|
| Checkpoint certifier, `checkpoint/src/certifier.rs` | the window of minted checkpoints not contiguously certified yet, per entry its accumulators and certificate; the watermark | `push` (mint), `record` (one attestation), `pending`, `highest_certified` | called by `ExecutionState` only; deterministic |
| Execution layer, `execution/src` | store: objects, latest version per id, running commitment | `SequentialScheduler::execute`: verify, fetch, `FakeExecutor::execute`, `InMemoryStore::apply` | called by `ExecutionState` only; sequential |
| Validator driver and recovery, `validator/src/validator.rs` 130-340 | `ExecutionState` (scheduler, certifier), the executed count, the transaction client | `start`, `replay`, the driver loop, `execute_subdag`, `attestation` | reads the commit stream, writes the transaction queue and two watch channels |
| Validator handle, `validator.rs` 342-442 | two watch receivers, the driver's join handle | `submit`, `executed`, `wait_for_transactions`, `wait_for_certified`, `await_completion`, `shutdown` | concurrent with the driver task |
| Envelopes, `validator/src/envelope.rs` | none | encode, decode with a size cap | decoded by `execute_subdag` |
| Metrics, `validator/src/metrics.rs` | counters and histograms | increments and observations | written by driver and generator |
| Load generator, `validator/src/generator.rs` | counter and random of its id stream | one batch per tick, cut into blocks, the submission metric | writes the transaction queue |
| Command line and process, `cli/src` | none of its own | genesis, `run` | starts a validator and its generator, selects on its tasks |
| Remote benchmark, `cli/src/remote*` | the loads to go, measurement files; the machines keep nodes, storage, logs and configuration | per load: clean up, configure, deploy, measure, tear down, download logs | drives an external orchestrator |
| Consensus replica, simulator, orchestrator | external crates | | |

What is hard in this code:

* **Certification is delayed agreement over unordered evidence.** Checkpoints are minted in commit
  order, the votes for them arrive in any order, several anchors share a round, a Byzantine author
  equivocates, and the watermark must wait and then jump. The certificate's proof must be the same at
  every validator. Correctness: the window, the accumulators and the binary search decide what the
  ballots alone would decide.
* **Recovery.** The transaction queue is volatile, the WAL may be ahead of the driver, and replay
  mints checkpoints whose attestations are dropped; re-attestation is what keeps certification live
  (`validator.rs` 169-172). Correctness: state is a function of the log's prefix; no vote is lost for
  good; a validator never attests two states for one sub-dag.
* **Canonical execution.** The blocks of a sub-dag may arrive in one order from the stream and in another
  from the WAL, calls and votes are interleaved in them, and some payloads decode nowhere. Correctness:
  one log, one state.
* **Two bounded channels in a cycle.** The driver awaits room in the replica's transaction queue while
  the replica awaits room in the driver's commit stream. Correctness: the driver waits for nothing but
  room or the replica's stop, also during the re-attestation of a restart.
* **Publication.** Two watch channels are sent one after the other and read separately by clients.
* **Versioned execution.** Aborts in the middle of a sub-dag must leave nothing behind, versions must
  grow causally, and an assertion in the store can end the validator.
* **Generated load.** The ids of all generators have to be distinct although each stream wraps, the
  queue fills and the process restarts; the cut of a batch into blocks must lose and repeat nothing.
* **A driver of remote machines.** Phases fail or are interrupted half-way, and the next run finds what
  they left.

`PROJECT.json` lists each of these at its line under `hazards`, with the properties that would catch it
going wrong; a hazard without a property says why there.

## 2. Modules

| Module | Models | Built on |
|---|---|---|
| `CertifierOps` | the certifier as operators over its value | |
| `Certification` | what certification promises: ballots, first quorum wins, watermark | `CertifierOps` (constants) |
| `Certifier` | one certifier under an arbitrary stream of mints and votes | `CertifierOps`; implements `Certification` |
| `ExecutionOps` | scheduler, fake engine and store as operators over the store's value | |
| `Execution` | one store under an arbitrary stream of transactions | `ExecutionOps` |
| `Subdags` | envelopes, and `execute_subdag` in full on two copies of one log: live and replayed | `CertifierOps`, `ExecutionOps`; implements `Ledger` |
| `Ledger` | what executing a commit stream promises to the rest of the validator | `ExecutionState` |
| `ExecutionState` | `execute_subdag` and `certification_status` as operators, on sub-dags that are no more than an effect and votes | `CertifierOps` |
| `Committee` | the drivers of a committee over one log: attestation, crash, replay, re-attestation, Byzantine votes | `ExecutionState` |
| `Handle` | one validator's start, its driver between two bounded channels, its publication and a client of the handle | `ExecutionState` |
| `Generator` | the load generators, their queues, a stop of the replica and restarts | |
| `Load` | the generators' creations executed in commit order | `Generator`, `Execution` (INSTANCE) |
| `Benchmark` | the phases of the remote benchmark driver over a testbed | |
| `MC*` | instances for TLC | |
| `OperatorProofs` | lemmas about the operators: division, folds and induction over an interval, the certifier, the state of a validator, the execution layer | `ExecutionState`, `ExecutionOps` |
| `CertifierProofs` | theorems about `Certifier` | `Certifier`, `OperatorProofs` |
| `ExecutionProofs` | theorems about `Execution` | `Execution`, `OperatorProofs` |
| `SubdagsProofs` | theorems about `Subdags` | `Subdags`, `OperatorProofs` |
| `CommitteeProofs` | theorems about `Committee` | `Committee`, `OperatorProofs` |
| `HandleProofs` | theorems about `Handle` | `Handle`, `OperatorProofs` |
| `GeneratorProofs` | theorems about `Generator` and `Load` | `Load`, `OperatorProofs` |
| `BenchmarkProofs` | theorems about `Benchmark` | `Benchmark` |

A definition commented *Seeded slip* is a plausible bug. No specification uses it; it is there for
mutation runs, which substitute it for the definition that follows it and expect a property to fail.

### CertifierOps, Certifier (`certifier.rs`)

A certifier is the record `[pending, watermark]`. `Push` is `push`, `Record` and `Returned` are the two
effects of `record` (the new state, the timings it returns), `Uncertified` of `ExecutionState` is
`pending()`. Details that are kept because they can go wrong:

* the *lookup*: `EntriesOf` is the partition point by round followed by the walk over the run of that
  round (lines 138-149), not a search by anchor. That it finds exactly the anchor's entry is a lemma
  (`LookupFindsEntry`) and depends on the window being in commit order;
* the *order of the guards*: window, certified already, author counted in any accumulator (150-170);
* the accumulator's running stake next to its voter set (39-46), and the sub-dag of each counted vote
  appended before the threshold is tested, so that the proof includes the completing vote;
* the winning accumulator is cleared, the losing ones stay;
* the watermark's loop pops the certified prefix (203-209).

An anchor is the number of its sub-dag together with its round (`Round`): consensus orders sub-dags
totally, and only the round's order is used by the code. Several anchors may share a round. An absent
map entry of an accumulator is an empty accumulator: the code only asks for voters and stake, which are
the same for both.

`Certifier` drives one certifier the way `execute_subdag` does: at most one mint per sub-dag, first, and
then any votes. `minted`, `ballots`, `certificates` and `surrendered` are history variables. Votes are
arbitrary: for sub-dags never minted, not yet minted, or certified; repeated; conflicting.

`Certification` has neither window nor accumulators. `Certifier!Abstract` is the refinement mapping.

### ExecutionOps, Execution (`execution/src`)

`Execute` is one call of `SequentialScheduler::execute`: static verification, version fetch, engine,
`apply`. Object contents are left out (the engine returns the same contents for every object), the
commitment is a hash folded over the writes and is modelled as the sequence it absorbed. The assertion
in `InMemoryStore::apply` (`store.rs:52`) is an outcome: it sets `panicked`, after which nothing executes.
The release profile aborts the process on a panic, and a restart replays into the same assertion; other
profiles unwind the driver task, which owns the scheduler.

### Subdags, Ledger (`validator.rs` 260-329, `envelope.rs`)

`ExecuteBlocks` is `execute_subdag` over blocks and payloads: `InCanonicalOrder` (the
sort, then the `filter_map` over the payloads, `Decoded`), `Calls` and `Votes` (its two arms), `ExecuteAll` (the scheduler),
`Minted` (commitment read after the execution, mean stamp), then every vote, attributed to the author of
its block. `FromBytes` refuses what is larger than `MaxPayloadSize` and what encodes nothing; `ToBytes`
refuses nothing. The sum of stamps is taken modulo `StampRange` (2^64 in the code), as an unchecked sum is in a release
build.

One log is executed by two copies of the state. `Deliver` hands the blocks of the next sub-dag to each in
an order of its own; a replay's clock stands still. The canonical order itself is the `dag` crate's:
each block has a place. Creations are of ids that no object has (`CreateFreshIds`), because otherwise
the store's assertion ends the driver, which `Execution` and `Load` are about. `Histories` are the
commitments that stores can have, chains of at most `MaxWrites` writes in which the versions of an object
grow; `Deliver` stops at that bound.

`Committee` and `Handle` work with much less: a sub-dag has an effect on the store ("nothing", "aborts",
"writes") and votes, and a commitment is a number of writing sub-dags. `ImplementsLedger` is the reason
why they may. Its mapping reads the log: `Number(log, c)` sends a commitment, which here is the chain of all
ordered writes, to the number of writing sub-dags up to the first that led to it, `Numbered` is the way
back, and `AbstractState` and `AbstractLog` carry both through the store, the window, the accumulators, the
watermark and the votes; every `Deliver` then is a step `Execute` of `Ledger`, that is an
`ExecuteSubdag` of `ExecutionState`. The log is an argument of these operators because a step compares
the mapping along a log with that along the longer one. The mapping depends on what `execute_subdag` and the store do: if a
writing sub-dag left the commitment alone, or one without transactions minted, no mapping exists.

### ExecutionState, Committee (`validator.rs`)

`ExecuteSubdag` is the whole handler: execute, mint if something executed, record every vote in
canonical order, collect the latencies. Executing is abstracted to the number of writing sub-dags,
which identifies the commitment along one log (`Subdags!ImplementsLedger` is the reason).

| Action of `Committee` | Code |
|---|---|
| `CommitSome` | consensus commits the next sub-dag (external) |
| `Propose` | the replica moves the submitted payloads into blocks (external) |
| `Deliver` | the driver's loop body, lines 186-203 |
| `Crash`, `Restart` | the process dies; the WAL and the proposed blocks survive |
| `Break` | a crash after which the pinned replica cannot restart (external, see below) |
| `Replay` | one sub-dag of `replay`, lines 233-249; the minted checkpoint is dropped |
| `Resume` | lines 173-185: the pending checkpoints are attested again, the driver starts |

A restart is not always survived. `tests/recovery.rs` 107-110 keeps its one test of a committee that
restarts with votes in flight (`restarted_committee_recertifies_lost_votes`) ignored: "restarting with
unproposed payloads in the WAL currently panics the core thread", blocked on `asonnino/mysticeti#221`. The
defect is in the replica, not under `src`, but what the code here promises of recovery
(`validator.rs` 169-172) depends on it. `Break` is that outcome: a crash at any point while running may leave
the validator "broken", with no restart, since a client's payloads may lie unproposed in the WAL whether or
not votes do. The safety properties hold for every mixture of crashes and breaks. `CheckpointsCertify` is
claimed of committees without a broken replica (`SomeReplicaBroke`): with one, the stake that is left may be
below the quorum for ever.

Consensus promises one log, of which every WAL holds a prefix at least as long as what was streamed. How
much longer is decided when it matters, at the crash (`Crash` chooses the WAL's length between what the
driver executed and the log), which avoids a variable that moves on every commit. A Byzantine
authority's votes name sub-dags that are already committed, since the anchor of the sub-dag that carries
a vote, or of a later one, is a digest that the vote's block would have to contain its own hash for. A
vote for an anchor that never commits is recorded as a miss and changes nothing; `Certifier` covers those.

### Handle (`validator.rs` 147-251, 342-442)

`Replay` executes one sub-dag of the WAL, with any number of transactions up to `MaxTransactions` that
`CountUp` adds to the count (lines 193, 248), as `Execute` does live; `counts` is a history variable with
the count after each sub-dag. `Start` creates the watch channels from the replayed count and
status and spawns the driver. A driver with uncertified checkpoints first attests to all of them again,
in one batch, and only then receives (lines 173-183). The driver's body is split where something else may
run: at its receive (`Execute`), its two sends (`SendExecuted`, `SendCertified`) and its submission
(`SubmitAttestations`), which awaits room in the queue and ignores a refusal.

A `tokio::sync::watch` channel is external: a value and a count of sends; a receiver remembers the last
count it saw. `ReadExecuted`/`AwaitExecuted` are `wait_for_transactions`, `ReadCertified`/`AwaitCertified`
are `wait_for_certified`. The client may call them with any target, any number of times.

The replica is external as well. It commits while the stream has room (`Commit`), takes batches from the
queue (`TakeBatch`), and stops on its own or by `shutdown` (`StopReplica`); the driver then drains the
stream and stops, which drops the senders. Other submitters (`submit`, the load generator) compete for
the queue (`SubmitTransactions`).

### Generator, Load (`generator.rs`)

`Tick` is `fill_batch`, `Submit` one iteration of `ship_blocks` (a block is cut after the transaction that
reaches the cap), with the metric that `run` adds once the whole tick is submitted; `Stop` is the early
return when the replica has stopped. The arithmetic of the ids keeps its widths, given as the number of
values they hold: the random wraps at `WordRange`, which is `AuthorityRange * RandomRange` (2^64 = 2^8 * 2^56
in the code); its low bits are or-ed below the authority. That authorities fit the bits above is an
assumption of the module; the code does not test it. The stream is not
drawn from beyond its period. `Close` and `Take` are the replica's, and external. `Restart` starts the
generator anew with the same seed, as `start` does.

`Load` commits what the replicas take, in any order between two authorities, and executes it with
`Execution`. It is where the assumption of `execution_fresh` (a `WriteOnly` id is unused) is discharged,
for as long as no process restarts, and where it fails afterwards.

### Benchmark (`cli/src/remote/benchmark.rs`, `protocol.rs`)

A driver is its list of phases: `RunPhases` is the body of `benchmark`'s loop with `run_one`, `Effect` what
a phase does to the machines. `Fail` ends the driver in any phase, before or after the phase took effect.
The handler for Ctrl-C exists from the first session on, so `Interrupt` kills a driver only before it,
which leaves deployed nodes behind; the next driver's cleanup removes them. `Refuse` is every early
return before the first phase: parameters that do not load, too few instances. `Scrape` writes the
measurement file. What the orchestrator does is external.

## 3. Runs

| Run | Question | Result |
|---|---|---|
| `certifier_quorum` | four authorities of equal stake, quorum 3, two anchors of one round: equivocation, late votes, certificates out of order | holds |
| `execution_fresh` | every call of up to two inputs on three objects, `WriteOnly` ids fresh | holds |
| `subdags_delivery` | does the order in which blocks arrive matter, does a replay rebuild what was live, and is the view of `Committee` and `Handle` right? Three sub-dags, unequal stake, creations, updates, votes, garbage, oversized payloads | holds |
| `committee_recovery` | crashes anywhere, also in a replay or one after the other, replay, re-attestation, restarts that fail, beside a Byzantine quarter of the stake that votes for any commitment; two checkpoints | holds, liveness included |
| `committee_latency` | are latencies measured from the mint? | fails after a replay (finding 1) |
| `handle_waits` | wakeups, drain on stop, the cut of sub-dags of one or two transactions, when none aborts; a driver between two channels that fill up, from the replay on | holds, liveness included |
| `handle_aborts` | does equality of commitments mean certified when a sub-dag only aborts? | fails (finding 2) |
| `handle_race` | do the two waits together mean that the cut is certified? | fails (finding 3) |
| `load_streams` | two generators with equal random streams over their whole period, bounded queues, a stop and a restart: blocks, metric, and fresh ids until the restart | holds |
| `load_restart` | are the creations fresh after a restart too? | fails (finding 4) |
| `load_stopped` | is everything that the replica accepted counted, when it stops in mid-tick? | fails (finding 5) |
| `benchmark_sweeps` | two drivers in a row, all flags, failing or interrupted anywhere: clean deployments, teardown, logs and files of the right run | holds |

Properties, per module:

* `Certifier`: `WindowFollowsWatermark` (the window is exactly what was minted above the watermark, in
  order, with the head uncertified), `TalliesAreFirstVotes`, `CertificatesAreQuorums` (*exactly when*),
  `ProofsListDeliveries`, `TimingsReturnedOnce`, `CertificatesAreFinal`, `ImplementsCertification`.
* `Execution`: `CommitmentDeterminesStore`, `WritesFollowReads`, `StatusTellsWrites` (what was read existed,
  what is written was declared), `NeverPanics`.
* `Subdags`: `BlockOrderIsImmaterial` (store, count, window and certificates of the two copies are equal,
  up to the clocks of the mints), `MeansLieWithinStamps`, `ImplementsLedger`.
* `Committee`: `PrefixDeterminesState`, `CertifiedWasExecuted`, `CorrectVotesAreTruthful`,
  `PendingIsAttested`, `CheckpointsCertify` (everything executed certifies, or some replica broke).
* `Handle`: `EqualityMeansCertified`, `CutLagsByOneSubdag` (when both waits returned, every sub-dag of the
  cut is certified but, at most, the one that reached the target), `StopsDrained`, `WaitsReturn`,
  `DriverCatchesUp` (if the queue has room, or is closed, again and again, the driver answers all of the
  stream again and again, or ends). `CutIsCertified` is what the doc comment says of the two waits.
* `Generator`, `Load`: `ShipsTheStream` (against a closed form of the ids), `ReportsLagByATick` (how far
  behind the counter can be), `FirstLivesCreateFreshObjects`; `NeverUnderReports` is what the comment says of
  the counter, `CreatesFreshObjects` is freshness without the restriction to first lives.
* `Benchmark`: `DeploymentsStartClean`, `DoneMeansTornDown`, `LogsAreOfTheRun`, `FilesAreTruthful`.

### Bounds

* *Certifier*: `MaxSubdag` bounds the sub-dags; the votes are unbounded but saturate, since each author
  counts once per checkpoint. Two checkpoints are enough for a certificate that waits for an earlier
  one. Three sub-dags under unequal stake, where one authority is a quorum alone, occur in
  `subdags_delivery`; for every committee and any number of sub-dags the proofs speak. Two commitments are enough to equivocate; four equal
  authorities at quorum 3 allow two accumulators of one entry to compete. Symmetry (over authorities of
  equal stake and over commitments) is used for this run, which has no liveness property.
* *Execution*: `MaxWrites` bounds the write history, six writes on three objects: every object is
  created and written again through reads of the others. Two inputs are enough for a duplicate, and for
  a read next to a write.
* *Subdags*: `Shapes` bounds the sub-dags to two payloads in one or two blocks: a call and a call, a call
  and a vote, or two votes, of one author or two, in either order of delivery. One object, created and
  updated, is enough for calls that do not commute, three sub-dags for a vote that certifies the
  second checkpoint before the first. The stamps of votes are far from those of calls, so a mean that
  includes one leaves the interval. `StampRange` = 32 holds the sums of an instance without wrapping, as 64
  bits hold those of any block with honest millisecond stamps (2^41 each); `MeansLieWithinStamps` is not
  claimed for stamps that make the sum wrap, which no code excludes. `MaxWrites` = 6 stops no step: three
  sub-dags execute at most six calls on the one object.
* *Committee*: stakes 2, 1 and a Byzantine 1, quorum 3, so the two correct validators together are
  exactly a quorum and the heavy one needs any other. `MaxCheckpoints` bounds the executing sub-dags,
  `MaxSubdag` the whole log and is chosen so that every vote, re-attestations included, still fits: a
  log that ends too early would fail `CheckpointsCertify`, not hide a failure of it. `MaxVotes` = 1
  places each vote in a sub-dag of its own or next to a mint; two votes of one sub-dag are covered by
  `Certifier`. `MaxByzantineVotes` and `MaxCrashes` bound the faults by kind, `MaxFaults` both kinds together:
  three while at most one sub-dag has executed (a validator crashes twice, or both do, beside a Byzantine
  vote), one once there are two (each single fault meets a window of two, so that one checkpoint can hold
  back the next). `LogEffects` leaves "aborts" to `handle_aborts` and the proofs, where it is any effect.
* *Handle*: the quorum is one authority, so a checkpoint is certified by the first vote; three sub-dags,
  of which up to two are replayed, so the re-attested window has up to two entries, and a sub-dag executes
  one or two transactions (`MaxTransactions`), so a target may fall inside of one. `StreamCapacity` (1024
  in the code) is two and `QueueCapacity` one: both channels fill, also at once.
  The votes are those that correct validators cast. `Attested` relies on `CertifiedWasExecuted`.
* *Generator, Load*: ids of four bits, three of them random, and a seed that makes the word wrap. Each
  stream runs through its whole period of eight, in two batches of a full and a partial block; the queue
  holds one submission. A restart repeats the stream, so one is enough.
* *Benchmark*: sweeps of one and of two loads, one of them too small to share among the two nodes; two
  drivers, so that one finds what the other left.

`CHECK_DEADLOCK FALSE` is set where the model stops at its bound: a full log (`Committee`), a full
history or a panicked task (`Execution`), a stream at its end (`Load`), the last driver (`Benchmark`). `Handle` is checked for deadlock: a client can always call.

### Fairness

* `Committee`: the driver's loop, replay and resumption are tasks of a running process (weak fairness);
  a validator that is down is restarted, one that is broken is not; and consensus keeps committing what a correct author has
  proposed, which is consensus' own liveness, assumed and not modelled. Clients, Byzantine authorities
  and crashes owe nothing. `CommitOf` commits a proposal in a sub-dag of its own, one of the ways
  consensus can do it.
* `Handle`: the runtime schedules the start, the driver and the client. The replica owes neither commits,
  nor a stop, nor that it takes a batch. Room in the queue comes and goes when others submit too, so the
  driver's submission needs strong fairness (`SF_driver(SubmitAttestations)`), which a queue that serves its
  waiting senders in their order (tokio's) provides; that there is room again and again is the hypothesis of
  `DriverCatchesUp` and not assumed of the replica.
* Fairness of `Deliver`, `Replay` and of the driver is stated on the variable that those steps move
  (`WF_delivered(Advances(v))`, `WF_driver(DriverMoves)`). `Next` lets `delivered` grow, and `driver`
  move, by those actions only, so these are the same conditions without computing the state they lead to.
* `Execution`, `Generator`, `Load` and `Benchmark` have safety properties only.

## 4. Findings

1. **`committee_latency`** (`validator.rs:247`): a checkpoint minted in a replay carries a zero stamp. If
   it certifies live, after re-attestation, its latency is the time since the epoch.
2. **`handle_aborts`** (`validator.rs:419`): a sub-dag of which every transaction aborts mints a
   checkpoint with the commitment of the previous one. Equality of the certified and the store's
   commitment then holds with that checkpoint pending.
3. **`handle_race`** (`validator.rs:194-195`): between the two sends the count is new and the status old.
   A client that reads both then returns with the sub-dag that reached its target uncertified, however
   many transactions of the cut that one executed. `CutLagsByOneSubdag` shows that it is the only one.
4. **`load_restart`** (`generator.rs:123`): `start` seeds the stream from the authority alone. A validator
   that restarts on its WAL with a load generator creates the objects of its first life again; the call
   passes verification, yields version 1 and trips the store's assertion (`store.rs:52`) in every
   validator that executes it. A cleaned-up testbed does not meet this.
5. **`load_stopped`** (`generator.rs:227`): a replica that stops between two blocks of a tick accepted the
   first; `run` returns before it adds the tick to the counter, which "must not under-report"
   (`generator.rs` 235-236). `ReportsLagByATick` bounds what is missing by a tick.

Observed while modelling, and not the subject of a run:

* Recovery depends on a defect of the pinned replica (`tests/recovery.rs` 107-110, see `Break` in section 2):
  today a committee that halts with votes in flight may not come back, and nothing under `src` can certify
  without it. The passing liveness property says what holds once the defect is fixed, or as long as it is
  not met.
* Whether driver and replica can wait for each other is not decided here. The driver submits before it
  receives (`validator.rs:180`, `200`). If one task of the replica fed the commit stream and also drained the
  transaction queue, a driver that submits into a full queue while the stream is full would never move again;
  with separate tasks it would. `validator.rs:38-39` says only that a slow consumer backpressures the
  replica. `DriverCatchesUp` therefore has the room in the queue as its hypothesis.
* The re-attestation after a replay is a single batch of the whole window, whatever `max_block_size` is.
* `wait_for_certified` on a validator that has executed nothing waits: nothing is certified, and the
  store's commitment is that of an empty store (`validator.rs:419`).
* A payload above `MAX_PAYLOAD_SIZE` is encoded, submitted and committed like any other and skipped by
  every validator, so a client that counts on its execution waits until the driver stops.
* A validator with ephemeral storage replays nothing (`validator.rs:223`), which is `MaxReplayed` zero.
* `ship_blocks` exceeds `max_block_size` by less than a transaction when the cap is no multiple of the
  transaction size, although `validator.rs:378` says that the cap bounds every batch.
* With `--skip-testbed-configuration` the nodes keep the load that was configured last
  (`protocol.rs:120,160`), and every run of a sweep is filed under its own. `FilesAreTruthful` therefore
  claims the load only of drivers that configure.
* `node_command` divides the load with rounding down: the share of a load smaller than the committee is
  none at all, and the generator is not started.

## 5. Proofs

Every theorem holds for every value of the constants that satisfies the named assumptions: any
committee, stake, quorum, number of sub-dags, capacity of a channel, set of objects, width of a word.

| Module | Theorem | Property of the runs it states |
|---|---|---|
| `CertifierProofs` | `TypeCorrect` | `TypeOK` |
| | `WindowCorrect` | `WindowFollowsWatermark` |
| | `TalliesCorrect` | `TalliesAreFirstVotes` |
| | `CertificatesCorrect` | `CertificatesAreQuorums` |
| | `ProofsCorrect` | `ProofsListDeliveries` |
| | `TimingsOnce` | `TimingsReturnedOnce` |
| | `CertificateFinality` | `CertificatesAreFinal` |
| | `CertifierRefinement` | `ImplementsCertification` |
| `ExecutionProofs` | `ExecutionType` | `TypeOK` |
| | `CommitmentIsTheState` | `CommitmentDeterminesStore` |
| | `FreshIdsNeverPanic` | `NeverPanics`, if ids are fresh |
| | `VersionsFollowReads` | `WritesFollowReads` |
| | `StatusDecidesWrites` | `StatusTellsWrites` |
| `CommitteeProofs` | `CommitteeType` | `TypeOK` |
| | `LogDeterminesState` | `PrefixDeterminesState` |
| | `CorrectNeverEquivocate` | `CorrectVotesAreTruthful` |
| | `NoVoteIsLost` | `PendingIsAttested` |
| | `CertifiedIsExecuted` | `CertifiedWasExecuted`, if the Byzantine stake is below the quorum |
| `HandleProofs` | `HandleType` | `TypeOK` |
| | `HandleStopsDrained` | `StopsDrained` |
| | `HandleEqualityMeansCertified` | `EqualityMeansCertified`, without aborts |
| | `HandleCutLagsByOneSubdag` | `CutLagsByOneSubdag`, without aborts |
| `GeneratorProofs` | `GeneratorType` | `TypeOK` |
| | `StreamIsShipped` | `ShipsTheStream` |
| | `MetricLagsByATick` | `ReportsLagByATick` |
| | `FirstLivesAreFresh` | `FirstLivesCreateFreshObjects`, if `RandomRange` is a power of two |
| `SubdagsProofs` | `SubdagsType` | `TypeOK` |
| | `OneLogOneState` | `BlockOrderIsImmaterial` |
| | `StampsAreMeans` | `MeansLieWithinStamps`, if the sum of a sub-dag's stamps fits |
| | `SubdagsRefinement` | `ImplementsLedger` |
| `BenchmarkProofs` | `BenchmarkType` | `TypeOK` |
| | `EndsTornDown` | `DoneMeansTornDown` |
| | `NodesStartClean` | `DeploymentsStartClean` |
| | `OwnLogsOnly` | `LogsAreOfTheRun` |
| | `FilesSayWhatTheyHold` | `FilesAreTruthful` |

With these, every safety property of every passing run is a theorem: the invariants, the action
properties and the two refinements.

### Assumptions

On constants, each stated where its constant is declared and evaluated by TLC on the instances:
`WeightAssumption` (stake is additive over disjoint sets), `QuorumAssumption` (a positive threshold, nothing
about majorities), `RoundAssumption` (rounds do not decrease along the commit order), `NoneAssumption` and
`HistoryAssumption` (`Option::None` is not a value), `StreamAssumption` (positive
capacities, a commitment for every number of writing sub-dags, a replay no longer than the log),
`GeneratorAssumption` (a load and a transaction size that are not zero, authorities that fit their bits),
`SubdagsAssumption` (what stores may commit to are commitments, stamps are below `StampRange`),
`AbstractAssumption` (`Option::None` is no certificate of the abstract specification either),
`BenchmarkAssumption` (a committee that is not empty; a sweep has a load, since `--loads` has a default and
takes at least one value), `StateAssumption` of `Committee` and of `Handle`, `ExecutionAssumption`,
`FreshIdsAssumption` and `CommitteeAssumption` (types, and commitments that are numbers of writing
sub-dags).

As hypotheses of single theorems, because the property is false without them:

* `FreshIdsNeverPanic` asks for `FreshIds = TRUE`. Finding 4 is what happens otherwise.
* `StampsAreMeans` asks for `StampsFit`: a bound on the blocks, the payloads and the stamps of a sub-dag
  under which even the sum of all its stamps is below `StampRange`. The sum in `validator.rs:298` is not
  checked, and with stamps that make it wrap the mean is anything.
* `FirstLivesAreFresh` asks for a `RandomRange` that is a power of two, 2^56 in the code. In a range with an
  odd factor two triangular numbers can agree, and a stream would repeat itself within its period.
* The two theorems on equality in `HandleProofs` ask for a stream without `"aborts"`: finding 2 refutes them
  with it, and `handle_waits` checks them without.
* `CertifiedIsExecuted` asks for `Tolerated`: finitely many Byzantine authorities that weigh less than the
  quorum together. It is all that the code's certification needs: agreement of two validators follows from
  one log and determinism (`LogDeterminesState`, which has no such hypothesis), and the intersection of
  quorums is consensus' concern.

### Arguments

None of the safety properties is inductive alone.

*Certifier.* A certificate is right because the tallies are the first votes; the tallies are only maintained
if the lookup finds the anchor's own entry, which needs the window in commit order; an author's vote that
is refused must not count as a first vote, which needs ballots to be recorded only for minted checkpoints;
and that at most one commitment of a checkpoint is decided needs that no vote counts after the certificate.
`IInv` is the conjunction of the properties with the facts on history variables they rest on. Each action has
a lemma: `PushIInv` (a sub-dag mints), `SkipIInv` (it does not), `StutterIInv` (a vote is ignored), `CountIInv`
(a vote is counted), `CertifyIInv` (a vote certifies); `Admission` shows that the code's guards are the
abstract ones, `AdvanceWindow` what popping the certified prefix does. `ProofsInv` extends the invariant to
the delivery lists: each accumulator of an undecided checkpoint lists, per sub-dag, as many deliveries as
there are ballots of that sub-dag, in order and none from the future, so that appending keeps the order.
The refinement maps a counted vote to `Vote`, a certifying one to `Certify` and everything else to `Mint` or a
stutter; `MappedWatermark` shows that the loop's watermark is the abstract one.

*Execution.* `StoreOK` says that the commitment is the history of the writes, that the objects are exactly
the writes in it, each once, and that the latest version of an id is that of its last write
(`LatestIsLastWrite`) and no lower than that of any other. The engine's writes are a fold over the declared inputs
(`WritesAreCollected`): one write per writable input, all of one version above everything read. That the
store's assertion holds under fresh ids follows, because a write then either updates an object to a version
above its latest, or creates an object that has none.

*Committee.* `Inv` says that every state, queue and proposal holds only checkpoints that the log yields:
the window of a validator holds what its executed prefix yields (`Sound`), and what is on its way is what
some prefix yields, at or before the sub-dag that may carry it (`YieldedBy`); a crash keeps it, since the
queue is emptied and the WAL is a prefix of the log. `CertifiedIsExecuted` adds that among the voters of a certificate one is
correct. `Determined` says that there is one run of `ExecuteSubdag` over the log with live timings, and
every state is that run's at its length up to the timings (`Follows`): live execution and replay differ in
nothing else, and no guard of the certifier reads a timing. `Attests` says of each validator that an uncertified
entry of its window has its vote, or that the vote is in its queue, among its proposals, or in a part of the
log that it has not executed (`OnItsWay`), unless it is down or replaying; re-attestation is what
establishes it again after a crash.

*Handle.* `Bounded` says how far executing, sending and the channels can be apart. `Published` relates the
two watch values to the state at each place of the driver. `OrderInv` says that the window and
the watermark are checkpoints of executed sub-dags in commit order, whose commitments grow strictly
when nothing aborts, so that equality of the watermark's with the store's leaves no room for a pending one.
`CutInv` remembers for what a client read first what it may conclude from the second read: between the two
sends an equal pair is that of the sub-dag before, so that whatever the window then holds is of the one in
progress; and the count that this one reached is at least what the client read. Later entries of the window
are of higher counts still (`CountsGrow`, `CutExecuted`).

*Generator.* `Accounted` says that the stream stands at its counter, that the accepted transactions followed
by the batch are exactly the ids drawn, in closed form, and that a batch is left only while it is shipped.
The closed form of the random is the seed plus the triangular number of the counter, modulo the word;
`DrawNext` is the step from one to the next through the wrap. A batch is a fold of single draws
(`BatchIsTheStream`), and a cut of it into a block and the rest loses nothing (`BlockAndRest`).

*Load.* That creations are fresh is arithmetic and a walk. The arithmetic: below a power of two, triangular
numbers are distinct modulo it (`TrianglesApart`), since the difference of two is a product of which one
factor is odd (`OddFactor`); so two draws of a stream within its period differ, and two of different
authorities differ above the random bits (`IdsApart`). The walk: while nothing restarted, what was
submitted is in the queue, in the log or in the store, in one of them at a time and in none twice
(`OnTheWay` of `LoadInv`); so the head of the log is not in the store.

*Subdags.* `Inv` relates the two copies by `Alike`: one store, one count, certifiers equal up to their
timings, and equal means wherever both still hold an anchor. `SortedRestores` is what makes it hold:
sorting undoes any permutation of the blocks, so both copies decode the same list of payloads
(`OrderIsForgotten`), and every fold over it, with the same start, ends the same; only the clock of a mint
differs, and no guard of the certifier reads it. That the means are within the stamps is a second invariant,
`WithinStamps`, of the window against the log: a mint puts the mean of its own calls there
(`MeanOfOwnStamps`), and recording, popping and the growth of the log leave entries and their stamps
as they were (`Carried`).

*Subdags implements Ledger.* `LedgerInv` says that the log is `Chained`: each record's commitment extends
the one before, strictly exactly when the sub-dag wrote; that the live store is at its end; and that the
certifier and the votes know only commitments that the log reached (`KnownCertifier`, `KnownVotes`). Along a
chained log two commitments are equal exactly when their numbers are (`HistoriesFollow`,
`NumberDeterminesHistory`), and every number up to the last has its commitment (`LogsNumber`). From that
follow two things. Each operation of the certifier commutes with the mapping: the lookup and the guards
(`AbstractLookup`, `AbstractAdmission`), the tally and the loop of the watermark (`AbstractTally`,
`AbstractAdvance`), and so a mint, a vote and the fold over the votes (`AbstractPush`, `AbstractRecord`,
`AbstractVotesAreObserved`). And what is mapped stays mapped as the log grows (`NumbersAreKept`,
`CertifierIsKept`, `LogIsKept`), where it matters that the accumulators of commitments never reached are
empty. `ExecutionIsAbstract` puts them together: executing the blocks, then mapping, is mapping, then
`ExecuteSubdag`; `NextLedger` is the step.

*Benchmark.* What is true of the machines follows from which phases are still to come. `Inv` keeps the
phases of a driver in the order of `Rank` and says of the machines, in terms of the phases to go, what
preparation has done (`Prepared`: clean, configured for this load, built at this commit) and what the
deployment has left (`Running`: its logs and no others, its nodes until they are torn down). A failure or an
interruption keeps the invariant by ending the work it speaks of, and a driver's first phases establish
it again from any testbed, which is why nothing is assumed of what an earlier driver left.

Recursion is written as folds over sequences, which `OperatorProofs` unfolds: the fold exists, and it
is its own step after each element. Facts about all lengths are proved over intervals of
naturals, by the least counterexample, since the library's induction rules take an operator.

### Model-checked only

* Everything about liveness and fairness, and what depends on `ENABLED`: `CheckpointsCertify`, `WaitsReturn`,
  `DriverCatchesUp`. They are out of reach of the installed provers, and the instances of section 3 are
  what is known of them.
* The findings are counterexamples, found by TLC.

That the count of a sub-dag is any number needs no bound in the proofs: `MaxTransactions` is any positive
number.

## 6. Not modelled

* Consensus, the simulator and the orchestrator are external crates; `Committee` and `Handle` assume of
  the replica what `src` relies on, as listed above.
* The byte layout of envelopes: encoding and decoding are each other's inverse up to the size cap.
* Metrics other than the stamps of the latencies and the submission counter, tracing, genesis and command line: I/O without state.
* Of the remote benchmark the other testbed commands, the faults and reports of a session, and the metric
  specifications.
* The process that selects on its tasks (`run.rs`): which of them ends first, and with which result,
  depends on when the external replica ends and closes its queue. Its hazard is listed.
* Faults of start: a WAL that misses a block of a commit ends `start` with an error before anything runs.

## 7. Plan

Done, in this order: the certifier with its abstraction, execution, sub-dags in full with their
abstraction, the committee, the handle with its channels, the generator, the load, the benchmark; then
the proofs of every safety property of them and of both refinements.

What the next steps would be, should the code change around them:

1. A bound on the accepted payload size at submission would turn the note on `MAX_PAYLOAD_SIZE` in section 4 into a
   property of `Subdags` and `Handle` together: what is accepted is executed once it commits.
2. A cap on the re-attestation batch (`validator.rs:173`) splits `SubmitAttestations` into several submissions;
   `DriverCatchesUp` and `NoVoteIsLost` are the properties to keep.
3. A generator that remembers its counter across restarts makes `load_restart` a passing run;
   `FirstLivesAreFresh` then holds without its restriction to first lives, by the same arithmetic.
4. Faults and reports of a benchmark session, if they ever influence what is deployed or torn down.
