# Shuffle Fabric: TLA+ verification project

Shuffle Fabric moves the partitions of one shuffle from producers to consumers
under a single coordinator. This directory holds TLA+ models of its stateful
parts, the TLC configurations that check them, and TLAPS proofs about the
completion ledger, the durable store, the coordinator, the sessions and threads
of the service, and the coordinator process. Paths are relative to the repository root (`src/ledger.cpp`
is the ledger's code).

## 1. The system

| Part | State | Operations that change it | Interacts with |
| --- | --- | --- | --- |
| Completion ledger (`ledger.cpp`) | commit records, consumer lists, failure records, retention order, counters | `commit`, `retire_generation`, `record_failure`, `decode` | coordinator |
| Coordinator (`coordinator.cpp`, `records.cpp`) | lifecycle, epoch, topology, manifests, ledger, grants, pending revalidations, clock | open, register, set state, publish, wave, commit, failure, cancel, pressure, tick, `recover`, `snapshot_payload` | everything |
| Topology (`topology.cpp`) | producers, consumers, states, incarnations, selections | register, set state, withdraw | coordinator, scheduler |
| Wave scheduler (`schedule.cpp`) | attempts in flight, cursor, in-flight counts, pause flags | `next_wave`, `resolve`, `abandon_all` | coordinator |
| Durable store (`durable_store.cpp`) | journal, snapshot, previous snapshot, writer position and length | `append`, `compact`, `open` | coordinator process |
| TCP service (`service.cpp`, `frame.cpp`) | sessions, replay guard, answer cache, client sequence | accept, serve, handle, stop; client `transact` | coordinator, nodes |
| Coordinator process (`tools/shuffle-fabric-coordinator.cpp`) | store sink, compaction counter | start-up recovery, persist | store, coordinator, service |
| Node process (`tools/shuffle-fabric-node.cpp`) | chunks served, attempts held | publish, serve, fetch, commit, report | service |
| CLI, sockets, codecs, hashes, digests | none of their own | - | - |

**The rule everything rests on.** Each coordinator operation validates, encodes
a record, makes it durable, applies it and only then answers. Grants live in
memory only. Recovery replays snapshot and journal into a scratch coordinator,
demotes every participant that held authority, makes a new epoch durable, and
adopts the result all or nothing.

**What is hard to get right.**

- Exactly-once accounting across duplicates, re-production, retention and
  restarts, with counters kept incrementally in one place and recomputed in
  another.
- A process that dies, or a file operation that fails, between any two steps of
  an append or a compaction.
- Completions and failures that arrive after ownership, authority, generation or
  the coordinator process changed.
- Duplicated frames, with an answer cache smaller than the replay window.
- A dispatcher that sees part of the edge space per call, under limits, pressure,
  retry waits and a membership that moves.
- An acceptor, a worker pool and `stop()` over one mutex and one condition
  variable.
- Node processes that die, are superseded, or give up on a call that the
  coordinator serves all the same.

The hazards, each at its line and with the properties that cover it, are in
`PROJECT.json`.

## 2. Modules

| Module | Models | Size of one step |
| --- | --- | --- |
| `Ledger` | `CompletionLedger` with all counters, unsigned arithmetic and retention | one call |
| `MCLedger` | values of the ledger's constants for TLC | |
| `LedgerProofs` | theorems about `Ledger` | |
| `Enumeration` | the members of a finite set of numbers in ascending order, as ordered containers are walked | |
| `DurableLog` | what the store promises: an append-only log that a crash may extend by one unacknowledged record | |
| `DurableStore` | the store as sequences of file operations; implements `DurableLog` | one file operation |
| `DurableStoreProofs` | theorems about `DurableStore` | |
| `Session` | one connection: `ReplayGuard`, answer cache, handshake, dispatch | one frame |
| `SessionProofs` | theorems about `Session` | |
| `Coordinator` | coordinator, membership, dispatch eligibility, records, snapshot, recovery | one call |
| `CoordinatorRecords` | what one record does to a coordinator, and the inductive invariant | |
| `CoordinatorSteps` | the invariant is kept, action by action | |
| `CoordinatorProofs` | compaction, and the theorems about `Coordinator` | |
| `Topology` | `Topology` with interned patterns, caches, closed forms and limits; `evaluate_policy` | one call |
| `Scheduler` | `WaveScheduler` over `Topology`, with the coordinator calls that feed it | one call |
| `MCTopology`, `MCScheduler` | selections and starting membership for TLC | |
| `Service` | threads of `CoordinatorServer`: acceptor, workers, registry, start and stop | one critical section or socket operation |
| `ServiceProofs` | theorems about `Service` | |
| `Node` | consumer and producer processes, their data plane, and the coordinator they call | one call or one message |
| `MCNode` | the partitions each consumer selects, for TLC | |
| `Host` | coordinator process: start-up, re-entrancy guard, store sink; implements `DurableLog` | one step of a call |
| `HostProofs` | theorems about `Host` | |

How they fit together: `Scheduler` extends `Topology`; `DurableStore` and `Host`
both implement `DurableLog`, so `Host` uses the store through its promise alone;
`Service` moves whole requests, which `Session` takes apart frame by frame;
`Coordinator` allows any choice among the eligible edges, of which `Scheduler`
makes one; `Node` keeps of the coordinator what the processes can observe.

### Ledger

The variables are the members of `CompletionLedger`. `commit()` is three
actions, one for each of its outcomes that change state: the first completion of
a generation (`CommitFirst`), another consumer's (`CommitNext`) and a suppressed
duplicate (`CommitDuplicate`). A refused call is a stuttering step. `Reload` is
`encode()` followed by `decode()` in a new process. A *claim* stands for all that
the commits of one generation must agree on. Counters wrap at `Word`, which is
2^64 in the code and 1000 in the runs, far above any count they reach.

Commit records are looked up by `partition_key`, which the model computes as the
code does: the partition number times `KeySpan` (2^16 in the code), exclusive or
the generation. A record keeps its `anchor`, the partition and generation it was
made for, so that a lookup can find the record of another partition. Two history
variables are added: `accounted`, the generations whose bytes were counted, and
`overdrawn`, the edges that retention took off `completed_edges_` a second time.

The calls are those its owner makes: the coordinator takes completions and
failures from granted attempts only, so an edge that failed permanently neither
completes nor fails again, and a failure is reported for a produced generation.

### DurableStore

A file is a sequence of slots, one for each record. `append()` is header,
payload and flush; `compact()` is backup, install and truncate. `Crash` may come
between any two of them and keeps what was written: process death is modelled,
loss of the operating system's cache is not. `Fault` lets a write, a truncation,
a flush or a rename fail. `open()` is one step, since it changes nothing before
its final truncation. The POSIX branch is modelled. All slots are equally long,
so a failed record may have exactly the length a rollback cuts to.

### Session

A frame is its sequence number and its kind; all requests that call the
coordinator are one kind. `Ordered` says that the peer numbers its frames one
after the other, as `CoordinatorClient` does, and that any earlier frame may
arrive again at any time.

### Coordinator

`core` holds the members that records determine. `stored` is the scratch
coordinator that replaying the durable snapshot and journal would build at this
moment. Replay is a left fold of `apply_record`, so a persisted record can be
applied to `stored` at once; `Compact` replaces `stored` by the fold of the
snapshot's records. `open_shuffle` and `note_completion` persist more than one
record, and the later one may fail alone. Every grant ever handed out stays in
`issued`, so a completion or failure may be reported late, twice, or after a
restart.

Left out: the clock, limits, pressure and retry waits (they choose among the
eligible edges, and any choice is allowed here), endpoints, policies, fan
bounds, and the content of manifests beyond generation and producing
incarnation.

Assumed of the environment: a process registers with a fresh incarnation or
repeats its own. The code does not enforce this; see section 4.

`Compact` is whoever owns a coordinator and its store compacting between calls.
The coordinator process of the repository never gets there (section 5).

### Topology and Scheduler

The variables of `Topology` are the members of the class, the cached ones
(`active_producers_`, `pattern_order_`, the consumers of a pattern) included, and
each action updates the caches as the code does. Selections keep their three
kinds. `RequiredEdges` is the requirement edge by edge, which the closed forms
are compared with.

`next_wave()` is one action. Its loop is the recursive function `PlanAfter`: each
step moves the cursor over partition, pattern and consumer and decides one edge,
within the budgets of edges examined and grants. A consumer in `Unanswering`
reports no failure and may or may not ever commit: a process that died or hangs.
Reports, manifests, the clock,
congestion evidence and membership changes are further actions, taken from the
coordinator calls that feed the scheduler. The ledger is the sets of completed and
failed edges.

### Service

A critical section of `state_mutex_` is one step, except that a worker that finds
nothing to do holds the mutex from its test until it waits: this is where a
wake-up could be lost. `running_` is stored without the mutex, as in the code. A
session is its peer; clients connect, ask, keep silent or leave at will.

### Node

`co` is the coordinator, `node[c]` the members and locals of consumer `c`'s run,
`link[c]` its data connection, `producer` the producer process. A call of
`CoordinatorClient` is served and answered, or the client gives up, and the
request is lost or stays in `late` and may be served at any later time. A process
may be replaced by a new incarnation; a consumer in `Silent` may stop taking steps
while it keeps its connection. A producer may corrupt or truncate chunks, and a
consumer may send duplicate frames or probe with its old incarnation, as the
`--fault-*` options of the tool make them do. A wave without grants may say
`all_resolved` whether it is true or not, as section 4 shows the scheduler does.

The producer publishes in passes, as `run()` does. A manifest names the topology
it was made for. When a consumer joins between two passes, the second pass
therefore describes the partition differently (`co.dated`), is answered
`DivergentCommit`, and produces it again under the next generation
(`tools/shuffle-fabric-node.cpp:679`): its edges start afresh, and attempts of
the earlier generation are refused. `Selects` says which partitions each consumer
requires; the one producer owns them all. `taken`, the grants a consumer
accepted, is a history variable. Steps that touch only a process's own state are
part of the step before or after them: the head and foot of the wave loop,
connecting to the producer, and accepting a connection with its first request.

### Host

A guarded call is persist, snapshot and apply, with a crash or a failing append
between any two. `inside` is the guard of the coordinator that `main()` owns;
`scratch` is the one `recover()` builds. A state is the records applied to it, so
that comparing it with the directory compares histories. A failing append is
taken to leave no record behind, which is what `append()` does unless its rollback
fails as well (`durable_store.cpp:816`). `DurableStore` has that case too.

## 3. What TLC checks

All runs set `CHECK_DEADLOCK FALSE`: bounds end every behaviour, and a finished
shuffle, a closed session, a stopped server or a store that cannot be opened may
stop. The type invariant of each module is a conjunct of one of its invariants;
that of the ledger is proved.

| Run | Instance | Properties |
| --- | --- | --- |
| `ledger` | 2 partitions, 2 consumers, 2 conflicting claims, generations 1 and 3 of which 1 is retained, 3 tracked edges, 1 restart | `BytesCountedOnce`, bytes are added once per generation; `AccountedIsCovered`, why a purged generation is never counted again; `CompletionsStand`, nothing takes back a current completion; `ResolvedOnce`, in no partition are the completed and the permanently failed edges together more than its edges; `CountersExact`, the incremental counters are what `decode()` recomputes, `completed_edges_` less exactly the edges that retention took off twice |
| `session_ordered` | 6 sequences, window 3, cache 2 | `AppliedOnce`, and only for a bound session; `ReplaysOwnAnswer`, a duplicate gets the answer to its own frame while cached |
| `store` | 4 appends, 2 crashes, 2 faults | `ImplementsLog`, refinement of `DurableLog`; `DirectoryIsCurrent`, the directory alone yields the caller's state |
| `store_damage` | 4 appends, 2 crashes, 1 fault of any kind or damaged snapshot | `LossIsReported`, what `open()` cannot recover it reports |
| `coordinator` | 1 producer, 1 consumer, 2 incarnations, 2 generations, 2 attempts, 2 compactions, 2 crashes | `RecoveryReproduces`, the durable records always rebuild the live state but for authority; `AckedSurvives`; `CancellationSticks`; `CommitsOfThisEpoch`, no pre-restart completion commits; `DemotedHoldNothing` |
| `coordinator_owners` | 2 producers, 2 consumers, 2 generations, 3 grants, members fail and withdraw, no crash | `ResolvedOnce`; `AgreedContent`, all grants of one generation name the same content; `CountedCompletion`, completion is declared only when every required edge is resolved, unless a resolved edge has left the requirement |
| `topology` | 2 producers, 2 consumers, 3 partitions, all three kinds of selection, 3 patterns, 4 interned items, 6 generations | `CachesAgree`, `validate()` holds and the caches equal a recomputation; `ClosedFormsExact`, edge counts, fan-in, fan-out and policy evaluation equal a count edge by edge; `ReturnAccepted`, a returning member finds room; `PlansStandWithin`, nothing a plan rests on changes within a generation |
| `scheduler` | 1 producer, 2 consumers of which one may never answer, 2 partitions, limits 2/2/1, 1 grant and 5 edges per wave, 2 attempts | `InFlightExact`, the counters equal a recount and respect the limits; `NoEdgeStarves`, an edge that stays grantable is granted; `ResolutionAnnounced`, while every required edge is settled and produced and the shuffle open, some wave says so |
| `scheduler_all_resolved` | the same | `AllResolvedSound`, violated: section 4 |
| `service` | 3 clients, 2 sessions, 1 worker asked for | `RegistryExact`, each session is queued or has one worker; `StoppedIsQuiet`; `AdmittedAnswered`; `ConnectedDecided`; `StopReturns` |
| `node` | 2 consumers, 1 partition of 2 chunks, 2 attempts, 2 waves of 1 grant, 8 publish passes, 1 fault of any kind | `BooksAreIntact`, what is committed was received in full and undamaged; `AnswersInStep`; `AccountsClose`, each node's counters add up; `WorkDoneIsResolved`, a consumer that ends on its own account of the work leaves none of its edges open, unless a partition it took was produced again; `NothingStranded`, the attempts left in flight when all consumers have ended are bounded by the calls given up on and the consumers that died; `RunsEnd` |
| `host` | 10 records, 4 failing appends or crashes, a snapshot every 2 records | `ProcessKeepsLog`, refinement of `DurableLog`; `LiveIsDurable`; `EpochsRise`; `StartDecided` |

Why the bounds are enough to be interesting: two generations and one retained
make retention purge a record that was retired, with a second partition whose
records must not be touched, and generations 1 and 3 leave a gap that a
completion jumps; a window of three and a cache of two let a duplicate meet each
of cache, window and beyond; four appends and two crashes allow a crash inside an
append, inside a compaction and again after recovery; two incarnations,
generations and attempts allow one supersession, one re-production and one retry
on each side of a crash. Three partitions over two producers give a round-robin
remainder, and the pattern and item limits are below what the selections need.
One grant per wave leaves the cursor anywhere in the space; a consumer that does
not answer holds a slot of each limit, and the limits leave room beside it;
should it commit after all, every edge is settled while its producer may still
withdraw. Three clients exceed two sessions, and two sessions exceed one worker.
Two consumers receive each other's grants and contend for the producer's single
connection; the second to register makes the producer produce the partition
again, before, while or after the first has fetched it. Four failures reach a
start on each half-written directory, and again on what that start leaves.

### Fairness

- `scheduler`: weak fairness of `next_wave`, which every consumer process polls
  until the shuffle is over, and of an answer for each attempt of a consumer not in
  `Unanswering` (`run()` commits or reports each grant). The clock, evidence and
  membership changes are never forced.
- `service`: weak fairness of each thread: the caller of `start()` and `stop()`
  inside a call, the acceptor and each worker. `condition_variable` wakes whom it
  notifies, and `state_mutex_` is assumed to be fair to the acceptor and workers.
  No client is obliged to ask or to leave, except that a refused one stops
  sending, as `refuse_socket` supposes.
- `node`: weak fairness of the producer process and of each consumer not in
  `Silent`. Socket calls have time limits in the code, so each of them ends.
- `host`: weak fairness of `main()` up to serving. Nothing restarts a process.

Each passing property has a mutant: an operator beside the definition it
replaces, marked `mutant` in a comment, with which TLC finds the property
violated.

## 4. Where code and documents disagree

`scheduler_all_resolved` checks a comment and finds it violated. `schedule.hpp:67`
says that `all_resolved` is true "when the cursor completed a full pass with no
grant because every required edge is already resolved". When a full wave leaves
the cursor behind the last edge, the next call wraps at once, `note_wrap` stops it
before it examines an edge, and it announces `all_resolved` with the transfer in
flight (`schedule.cpp:272`). A consumer ends its run on it, which is why
`WorkDoneIsResolved` of `node` speaks only of a consumer that ends on its own
account of the work.

Further configurations reproduce disagreements that the passing runs steer clear
of. Each checks one property, and TLC finds it violated.

| Configuration, property | Said | Happens |
| --- | --- | --- |
| `LedgerKeys.cfg` (of `MCLedger`), `FoundByIdentity` | keys are "only for indexing; the typed values remain the identity" (`ledger.cpp:29`) | `partitions_` is looked up by the key alone; a generation of 2^16 or more has the key of another partition's record and finds that record |
| `LedgerPurge.cfg` (of `MCLedger`), `CompletedEdgesExact` | completions are counted for the current generation only (`ledger.hpp:205`) | retention subtracts the completions of a retired generation again (`ledger.cpp:169`); the unsigned counter can wrap |
| `DurableStoreStaleLength.cfg`, `DirectoryIsCurrent` | acknowledged records survive (`persistence.md:313`) | `compact()` keeps the old journal length when the flush of the emptied journal fails (`durable_store.cpp:886`); the rollback of a later append cuts at the wrong place |
| `CoordinatorFinished.cfg`, `RecoverySucceeds` | a cancelled directory comes back cancelled (`authority-model.md:229`) | the snapshot of a finished shuffle cannot be recovered (`coordinator.cpp:1297`) |
| `CoordinatorRevalidation.cfg`, `RevalidationReported` | revalidation is required until every demoted participant returns (`authority-model.md:30`) | a participant snapshotted as Suspect is forgotten by the next restart (`coordinator.cpp:496`) |
| `CoordinatorLateFailure.cfg`, `FailuresOfThisEpoch` | a pre-restart attempt is answered with `StaleAttempt` (`README.md:94`) | attempt numbers restart, and a late failure report resolves a new attempt (`coordinator.cpp:904`) |
| `CoordinatorWithdrawn.cfg`, `CompleteMeansResolved` | only when every required edge is resolved is the shuffle finished (`schedule.hpp:68`) | completions of a withdrawn consumer count toward the edges still required (`coordinator.cpp:1098`) |
| `TopologyCovering.cfg` (of `MCTopology`), `OnlyAuthorityCovers` | of `covering_consumers`: "Only consumers holding authority are reported" (`topology.hpp:143`) | a Suspect consumer stays in its pattern and is reported; the dispatcher asks for authority itself |
| `SchedulerUnproduced.cfg` (of `MCScheduler`), `SettledAnnounced` | the shuffle is finished when every required edge is resolved (`schedule.hpp:68`), as `note_completion` counts (`coordinator.cpp:1089`) | a wave calls the edges of a partition without a producer in authority unproduced before it looks at their outcome (`schedule.cpp:149`); when the `Completed` record was lost and the producer then withdraws, no wave that looks at every edge says `all_resolved` |
| `NodeDone.cfg` (of `MCNode`), `DoneIsTerminal` | "Every edge this node was required to move has reached a terminal outcome" (`tools/shuffle-fabric-node.cpp:971`) | a commit refused because the partition was produced again counts as terminal; the edge of the new generation stays open and the node ends |
| `ServiceStart.cfg`, `StartReturns` | (nothing said) | when a thread cannot be spawned, `start()` stores the stop flag and notifies without the mutex; a worker between its test and its wait misses it, and the join waits for ever (`service.cpp:747`) |

What the passing runs exclude because of these:

- `store` excludes the flush of the emptied journal from its two faults
  (`store_damage` includes it as a single one).
- `coordinator` compacts no finished shuffle (`CompactFinished`).
- `ledger`, and the theorems about it, keep generations below `KeySpan`.
- `CountersExact` states the count of completed edges as the code keeps it: short
  of the recount by exactly the edges that retention took off twice, modulo 2^64,
  until the next restart.
- `ResolutionAnnounced` promises nothing while a required partition has no producer
  in authority, and `ClosedFormsExact` takes `covering_consumers` to report the
  consumers that are not withdrawn.
- `WorkDoneIsResolved` excuses a consumer one of whose partitions was produced
  again since it took it.

The three that involve compaction concern a coordinator and store whose owner
compacts between calls; the process in `tools/` does not (section 5).

Three further configurations extend the runs and pass: `NodeWaves.cfg` grants to
both consumers in one wave, `NodeSuperseded.cfg` gives one consumer two partitions,
so that grants of a wave are left to resolve when its probe has superseded it, and
`SchedulerMoves.cfg` checks `InFlightExact` with two producers whose partitions
change hands and are produced again.

Other observations that limit what the passing runs say:

- With `Ordered = FALSE`, `AppliedOnce` fails: the window evicts in order of
  acceptance, so frames 1, 3, 2, 4, 5 let 3 be accepted again
  (`frame.cpp:440`). No client in the repository numbers frames this way.
- `decode()` does not restore the retention order, so records loaded from a
  snapshot are never purged (`ledger.cpp:697`).
- After a fallback to `.prev` over a newer journal the recovered state has a gap,
  and `LossIsReported` holds because the fallback is reported
  (`durable_store.cpp:730`).
- A demoted consumer that repeats its incarnation with another selection becomes
  Active (`topology.cpp:403`); `DemotedHoldNothing` counts that as registering
  anew.
- A superseded incarnation may register again (`topology.cpp:351`); the model
  assumes that it does not.
- A grant held by a consumer that died is never reclaimed: its slots of the
  limits stay taken until the shuffle is cancelled. `NoEdgeStarves` therefore
  leaves room beside them.
- `Coordinator::apply_failure` moves the clock to the retry's `ready_at`, so a
  retry wait never makes an edge wait (`policy.hpp:52` describes one).
- Pauses are kept by participant and not by incarnation; a returning participant
  inherits the pause of its predecessor.
- Interned patterns are never released, and `evaluate_policy` counts the fan-in
  of withdrawn consumers.
- The acceptor drains refused sockets itself, so connections behind a refused one
  wait for it; `ConnectedDecided` supposes that a refused client stops sending.
- The node's data server closes a connection that is idle for one read budget,
  though the comment at `tools/shuffle-fabric-node.cpp:719` says it is kept;
  `RunsEnd` depends on what the code does.
- `hand_back` reports a retriable failure, which uses up one attempt of the
  grant's owner.
- A grant whose answer was lost, or whose holder died, stays in flight.
  `NothingStranded` bounds these by one wave for each lost call and each consumer
  that died; attempts of a generation that was produced again are not counted,
  since they hold no edge of what is produced now.
- When an append fails and cannot be rolled back either, the journal may keep the
  refused record and the next `open()` finds it (`durable_store.cpp:816`). The
  refinement of `DurableLog` by `DurableStore` allows it as a crash that extends
  the log; `Host` leaves it out, so `ProcessKeepsLog` and `LiveIsDurable` speak of
  appends that fail cleanly.

## 5. What is proved

The theorems hold for every value of the constants that the named assumptions
allow; the bounds of the models are among these constants.

`LedgerProofs`, about the ledger:

- `TypeCorrect`: `Spec => []TypeOK`. Unsigned subtraction stays in `Nat` because
  no consumer list has `Word` or more members.
- `Covered`: `Spec => []AccountedIsCovered`, which is inductive together with
  `TypeOK`. It has three parts: no record is above the `latest_generation`
  watermark; the retention order lists distinct, recorded generations; and a
  generation whose bytes were counted is at or below the watermark, and recorded
  if it is the watermark. The second part is what makes the purge of the oldest
  record leave the newest alone.
- `ExactlyOnce`: `Spec => BytesCountedOnce`, from `Covered`: a first commit of an
  accounted generation is either superseded or finds its record.
- `Stand`: `Spec => CompletionsStand`, from `Covered` and the same purge lemma.
- `Counters`: `Spec => []CountersExact`. Each call changes a counter by as much as
  it changes the set that the counter counts; `Covered` says which records a call
  leaves alone, and `overdrawn` carries what retention takes off a second time, in
  arithmetic modulo `Word`.
- `Resolved`: `Spec => []ResolvedOnce`. Behind it and `Counters` are `OwnRecords`, a
  record is kept under its own key, and `FailuresApart`, no edge is in a commit
  record and has a permanent failure.

All but `TypeCorrect` suppose `SmallGenerations`: every generation is below
`KeySpan`, which makes `partition_key` injective (lemma `SmallKeys`). Beyond it a
lookup may find the record of another partition (`LedgerKeys.cfg`), and nothing is
claimed.

`LedgerAssumption` asks for finite sets, non-zero generations, positive byte
counts, at least one retained generation (`Limits::validate`) and fewer
consumers than `Word` (identifiers are 64-bit and non-zero); `EdgeCountAssumption`
for fewer than `Word` edges, which counts of 32 bits give; `NoRecordAssumption`
keeps the value for "no record" apart from records. `bytes_committed`
and the failure counters are taken as natural numbers, so a sum of 2^64 bytes is
outside the proof.

`DurableStoreProofs`, about the store, for any number of appends, compactions,
crashes and failing operations:

- `StoreInvariant`: `Spec => []StoreInv`. The journal is a run of records with
  consecutive sequences that continues the snapshot and ends with the last
  acknowledged record; at most one slot follows it, torn or not acknowledged. The
  invariant says where the writer stands at each step of an append and compaction,
  and that the caller's state is the snapshot and the records of the run after it.
- `KilledLosesNothing`: `Spec => []DirectoryIsCurrent`.
- `StoreImplementsLog`: `Spec => ImplementsLog`, the refinement of `DurableLog`: an
  append that was not acknowledged is the one record by which a crash may extend
  the log.
- `LossIsAlwaysReported`: `Spec => LossIsReported`.

The first and last suppose `NoStaleLength`: the flush of the emptied journal does
not fail (section 4). The other two suppose `SoundFaults`: that, and no damage to a
snapshot file.

`CoordinatorRecords`, `CoordinatorSteps` and `CoordinatorProofs`, about the
coordinator, if no finished shuffle is compacted (`~CompactFinished`):

- `Invariant`: `Spec => []Inv`. Its parts: the durable records rebuild the live
  state but for authority (`RecoveryInv`); a manifest never names an incarnation
  above the registered one, and every grant ever issued agrees with the manifest of
  its generation (`ManifestInv`); a grant of an earlier epoch names a producer that
  has lost authority or was replaced since (`EpochInv`); acknowledged completions
  are durable (`AckInv`); a cancelled shuffle has no grants (`CancelInv`); each edge
  has one grant at most, and none once it is resolved (`GrantInv`).
- From it: `Recovery` (`RecoveryReproduces`), `Recoverable` (`RecoverySucceeds`),
  `Acknowledged` (`AckedSurvives`), `Cancelled` (`CancellationSticks`), `ThisEpoch`
  (`CommitsOfThisEpoch`), `Demotion` (`DemotedHoldNothing`), `Once`
  (`ResolvedOnce`), `OneContent` (`AgreedContent`) and `Completion`
  (`CountedCompletion`). The last is a counting argument (`CountingSuffices`): a
  subset of the required edges with as many members is all of them.

The hard step is `Compact`: replaying the records of a snapshot must rebuild the
coordinator that wrote them (`SnapshotReproduces`). The records are a fold over
members and partitions in ascending order; `ReplayedStates` says what each prefix
has built, by an induction stated with sets of numbers (`LeastMember`) in place of
predicates. `CoordinatorAssumption` asks for finitely many numbered
members, producers and consumers disjoint, at least one partition, non-empty
selections and at least one attempt.

`SessionProofs` proves, for every window, cache size and number of frames:

- `Once`: if the peer numbers its frames one after the other (`Ordered`), then
  `Spec => []AppliedOnce`. The window evicts in order of acceptance, so
  `SessionInv` adds that it is an interval that ends at `highest_`, and that
  nothing was applied for a number above `highest_`. A number at or below
  `highest_` is then in the window (a duplicate) or below it (refused), and only
  the next number is fresh.
- `OwnAnswer`: under the same condition, `Spec => []ReplaysOwnAnswer`. `CacheInv`
  adds that the coordinator's answer to a frame is cached before every refusal of
  its duplicates, so that a search from the front finds it first.

`ServiceProofs` proves, for any number of clients, sessions, workers and calls of
`start()` and `stop()`:

- `Exact`: `Spec => []RegistryExact`. `Places` follows each connection: it is in
  the backlog, in the acceptor's hand or registered, in one of these only; a
  registered session is queued or with a worker, no two workers have the same one,
  and a connection not yet made is nowhere.
- `Quiet`: `Spec => []StoppedIsQuiet`. `Emptied` says where an open connection can
  be found (backlog, registry, the list `stop()` is closing, or the acceptor's
  hand) and which of these are empty at each step of `stop()`.

`ServiceAssumption` asks for finitely many clients, none of which is the value
that stands for no client, and for at least one session and worker thread. The
liveness of the service (`StopReturns` and the others) is only model-checked.

`HostProofs` proves, for every `--compact-every` and any number of records,
failing appends and crashes:

- `Live`: `Spec => []LiveIsDurable`. The property speaks of the moments between
  calls and is not inductive. `HostInv` adds what holds inside a call: before the
  append the coordinator at work equals the directory, after it the directory is
  exactly one record ahead, and the guard is taken.
- `NeverCompacts`: no snapshot is ever taken. The sink asks for one from inside
  the call whose record it has just appended; the guard refuses, as it must,
  because folding the journal there would lose that record (the mutant
  `SnapshotAlways` shows it). But the sink has no other occasion to ask, so the
  journal grows for as long as the process runs, whatever `--compact-every` says.
  The comment at `tools/shuffle-fabric-coordinator.cpp:221` promises "a periodic
  snapshot so recovery never has to replay an unbounded journal".
- `OnlyGrows`: every step leaves what a restart would rebuild as it is, or adds
  the one record of the call in progress.
- `Epochs`: `Spec => []EpochsRise`. `EpochInv` adds that the epoch records of the
  log are numbered 1, 2, 3 and so on, so that the epoch recovered is their number.
- `KeepsLog`: `Spec => ProcessKeepsLog`, the refinement of `DurableLog`. `BoundInv`
  adds that the log is never longer than the bounds of the model allow.

`HostAssumption` asks only that the three constants are natural numbers.

Only model-checked: topology, scheduler and node, and all liveness properties,
which are out of the prover's reach as is `ENABLED`. What a recursive function
computes for every input is proved only where the induction can be stated with
sets, as for the snapshot above.

## 6. Not modelled, and what could follow

Not modelled, because there is no state to check or TLC cannot say anything about
it:

- CLI: reads and prints; it changes a directory only through `open()`.
- Sockets, and the Windows branches of the store: wrappers of system calls.
- Codecs, hashes, digests, identifiers, frame and message layout: byte layout and
  pure functions, with known-answer tests in the repository.
- Validation of policies and manifests: predicates of one message. The limits and
  bounds that change what is dispatched are in `Topology` and `Scheduler`.
- Statistics, explanations and listings of the coordinator and scheduler:
  read-only.
- The node's role `both`, in which the producer's thread stops when its own
  consumer ends.

What could follow: proofs of `InFlightExact` of the scheduler and of `CachesAgree`
of the topology; a coordinator process whose append fails without a rollback.
