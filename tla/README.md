# A TLA+ verification of fakecloud

fakecloud is a local emulator of AWS: one process, some hundred services, each
a crate with an in-memory state behind a lock, opt-in snapshots on disk and
background tasks that deliver between services. This project models the parts
whose correctness depends on the order of concurrent steps: the SQS service with
its snapshots and its move tasks, the poller that feeds Lambda from SQS, the warm
pool of Lambda instances, and the EventBridge Scheduler. It checks the models
with TLC and proves theorems about them with TLAPS. Paths below are
relative to `src/crates/`.

## 1. Inventory

### The system and its parts

| Part | State it keeps | Operations |
|---|---|---|
| SQS queues (`fakecloud-sqs/src/service/messages.rs`, `queues.rs`, `helpers.rs`, `state.rs`) | per queue: `messages`, `inflight`, `receipt_handle_map`, `dedup_cache`, `receive_attempt_cache`, `next_sequence_number`, redrive policy | send, batch send, receive (long-polling), delete, change visibility, purge, create, delete, set attributes |
| SQS simulation endpoints (`simulation.rs`) | none of its own | expire messages, force messages to the dead-letter queue |
| SQS delivery from other services (`delivery.rs`) | the `dirty` flag | push a message; the flusher loop that saves when the flag is up |
| SQS message-move tasks (`service/moves.rs`, `service/mod.rs`, `helpers.rs`) | `message_move_tasks`, a cancel flag shared with a spawned mover, `driver_pid` | start with and without a rate, cancel, list, resume at start-up, the mover loop |
| Snapshots (`service/mod.rs`, `fakecloud-persistence/src/snapshot.rs`, `atomic.rs`) | the snapshot file, temporary files, `snapshot_lock` | save, load |
| SQS to Lambda poller (`fakecloud-server/src/sqs_lambda_poller.rs`) | `window_started_at` of each mapping, the batch in hand | poll: select and hide, hold, filter, invoke, acknowledge and release |
| Lambda warm pool (`fakecloud-lambda/src/runtime/facade.rs`) | `instances` with their `busy` locks, `retiring`, deploy ids and credentials; a startup lock per version | acquire a slot, launch, probe, invoke, retry, evict, retire, idle sweep, delete, IAM reset |
| EventBridge Scheduler (`fakecloud-scheduler/src`) | schedules and groups; the ticker's pending fires, retries and cron minutes; two snapshot locks | create, update, delete, forced fires; the tick in three phases; save, load |
| Server (`fakecloud-server/src`) | wiring; `reset/` | start-up, reset endpoints, Kinesis and DynamoDB pollers for Lambda, pipes |
| Other services | a state map each | request handlers; some spawn container work |

Every crate is listed, with its status and the reason, under `components` in
`PROJECT.json`.

### How the parts interact

- A handler runs under the write lock of `SharedSqsState`, so its effect on the
  state is one atomic step. It then saves the whole state and only after that
  answers.
- Deliveries from SNS, EventBridge, S3 and Scheduler push into the same state
  through a synchronous trait that cannot save: they raise `dirty`.
- A mover takes the state lock once per message, and in between saves and
  sleeps. It shares an `AtomicBool` with its task.
- The poller works on the queues' state directly, under the same lock, but not as
  a consumer: it hides messages in place, drops the lock, waits for the function,
  and takes the lock again.
- An invocation reserves an instance by its lock; sweeps, deletes and IAM resets
  change the pool under invocations that wait for those locks.
- The ticker collects due schedules under the state's lock and delivers without
  it; API calls change, delete and re-create schedules in between. Calls and
  ticker save the same file under different locks.
- The simulation and reset endpoints change the state from outside the service.
- After a restart the snapshot is loaded and unfinished move tasks are resumed.

### What is hard here

Interleaving: consumers, lapsing visibility windows, moves and administrative
calls between any two polls of a receive; a cancel between a mover's flag check
and its lock; a lock-free flush between a handler's clone and its rename; an IAM
reset or an update during the launch of an instance; a schedule re-created under
a tick.
Crashes: between mutation, save and answer; between a move and its checkpoint.
Retries: a send inside the deduplication window, a receive with its attempt id,
an invocation whose connection broke, a fire whose delivery failed.
Partial failure: a decrypt error after messages were popped, a failed save, a
queue deleted under a mover, a batch of which some items failed. Ordering: messages of a FIFO group that return
from flight at different times. The full list, line by line and with the
properties that answer each entry, is `hazards` in `PROJECT.json`.

### What makes each part correct

- Queues: a message is in exactly one place until it is deleted, purged or
  expired; a receipt handle acts only for the delivery it was minted for; FIFO
  groups are delivered in order and exclusively; deduplication and replayed
  receives are exactly-once; dead-lettering happens at `maxReceiveCount`.
- Move tasks: messages are conserved through crashes; one mover per queue; a
  cancel takes effect within one message; every task ends.
- Snapshots: an answered call is on disk; a save never takes a mutation off
  the disk; the file always parses; a delivery is eventually written.
- Poller: what the function has, no consumer has; failed messages come back in
  order; every message is handled; the batching window ends.
- Warm pool: the cap holds; an instance is used by one invocation, and by none
  once it was swept; nothing runs twice; every invocation ends;
  credentials are revoked with the launch or the instance they were issued for.
- Scheduler: each occurrence is fired once, retried within its budget and
  settled; a fired one-shot stays fired, one that is due is not forgotten.

## 2. Modules

| Module | Models |
|---|---|
| `SnapshotPersistence` | saves of the SQS state, at the level of lock, clone, file operations and crash |
| `SqsQueue` | the queues of one account and region, one action per API call |
| `MessageLease` | abstract: what a set of queues promises about each single message |
| `SqsQueueContract` | the refinement mapping from `SqsQueue` to `MessageLease` |
| `SqsMoveTask` | move tasks, their movers, cancels, saves, crashes, resume, reset |
| `SqsLambdaPoller` | the poller, composed with `SqsQueue` |
| `LambdaWarmPool` | the instances of one function version, invocations, sweeps and resets |
| `SchedulerTicker` | the schedules, the ticker, the API calls and both savers |
| `Deque` | `VecDeque::retain`, stable sort and `BTreeMap` order as selections of indices, without recursion |
| `SqsQueueProofs`, `SqsQueueDeliveryProofs`, `SqsLambdaPollerProofs`, `SnapshotPersistenceProofs`, `SqsMoveTaskProofs`, `LambdaWarmPoolProofs`, `SchedulerTickerProofs`, `DequeProofs` | theorems |
| `MCSnapshotPersistence`, `MCSqsQueue`, `MCSqsMoveTask`, `MCSqsLambdaPoller`, `MCLambdaWarmPool`, `MCSchedulerTicker` | instances for TLC |

### SnapshotPersistence

The state is the set of mutations it contains, which is what durability is
about; a file is a sequence of two chunks because `write_all` may take several
system calls. A request goes idle, mutated, locked, cloned, open, half,
written, renamed, ok; a failed save ends in `unsaved` (the code logs it and
answers anyway). The flusher swaps the flag and runs the same save without the
lock, as `persist_sqs_state` does. `CrashRestart` loses memory, lock and
temporary files and loads the file. Each call and delivery happens once, which
makes each one's fate visible. A save may fail at every file operation, also
after the rename (`fsync_parent`), with the new file in place.

### SqsQueue

Each API call holds the write lock throughout and is one action; a long poll
is a series of `ReceiveMessage` actions. A receive is the code's sequence:
drop what outlived the retention period, return lapsed in-flight messages
(`ReturnLapsed`: to the front of a FIFO queue and the back of a standard one,
forgetting their handles), prune the attempt cache, choose candidates (by the
group lock on FIFO queues, by in-flight load of the group on standard ones),
take them until the batch is full, dead-letter the exhausted ones, mint
handles. `Refreshed` is the part that precedes the choice. A handle is the
message id and the number of the mint, so it is unique as a UUID is.
`accepted`, `gone` and the `handle` of an attempt are history.

Abstractions: bodies, attributes and MD5s are left out; a batch has two
entries; the deduplication id is given (a body hash is an id too); the delay of
an entry is the one in force, its own (from `Delays`) or the queue's `DelaySeconds`
attribute (from `DefaultDelays`), which `SetQueueAttributes` may change between
any two sends; a single send to a FIFO queue can be delayed by the attribute only;
KMS is external, a key is usable or not at each call on an encrypted queue.

### MessageLease and SqsQueueContract

`MessageLease` is the contract of the queues seen one message at a time: unsent,
waiting in a queue, leased from a queue until some time, or ended. It knows no
order, no handles, no caches and no two lists. A message is leased, freed or
dead-lettered only when its time has come, dead-lettered only after
`MaxReceiveCount` leases, ended only by its consumer, its age or an operator;
what is leased stays put when an operator redrives. `SqsQueueContract` maps the
lists of `SqsQueue` to that state (`StoredState`): a message with two copies, or
with none although nothing ended it, has a status the contract does not know, so
that losing or copying a message violates `KeepsContract`, as does handing it out
early.

### SqsMoveTask

A mover is a record with a program counter: `CheckCancel` reads the flag
without the lock, `MoveOne` or `FindNothing` is the locked block,
`FinalizeMoveTask` takes the lock again, `Checkpoint` saves. A call changes the
state and owes a save (`unsaved`, then `SaveCall`), so that a crash can fall
between. Saves here are one step, although they are several in
`SnapshotPersistence`: under `snapshot_lock` only one is under way, a crash
before its rename leaves the old file, and what it writes is the state at its
clone; moving the rename up to the clone therefore yields only states that a
shorter save would reach. `late` is a history field: moves made after the task
was cancelled. Messages are numbers in the order they were sent; in-flight
messages are left out because the mover never touches them (`SqsQueue` has the
synchronous move, with in-flight messages, as `RedriveNow`). `PidStep` is what a
restart does to the process id.

### SqsLambdaPoller

The module EXTENDS `SqsQueue` and adds the poller's locals; its next-state
relation is a step of the poller or a step of the queues. A step of the poller is
one stretch under the write lock (`TakeBatch`, `HoldBatch`, `DropFiltered`,
`Settle`) or the invocation between two of them. Which messages a filter matches
and which the function reports as failed is free; `polled_at` is the `now` that
`poll` reads once. `ReceivedQueues` names the queues that have consumers of
their own.

### LambdaWarmPool

One function version. The access to the `instances` map is under a lock, so the
code between two such accesses or awaits is one step; `pc` of an invocation names
where it is in `acquire_slot` and `invoke_inner` (`invoke_streaming` has the same
loop). `Free` says when `try_lock` succeeds on a tokio mutex: when nobody holds it
and nobody queues for it. A dropped future is `Cancel`, at each await in
`CancelPoints`. `process` is the container or Pod: `Create` starts it during the
launch, and a launch that fails or is cancelled after that may leave it behind
(`LeftBehind`), in nobody's hands; it is `up` once the launch has returned it. Everything that comes from outside (an instance that dies, an
update, an IAM reset in its three steps, a delete) is a disruption and bounded by
`MaxDisruptions`. `swept` and `executed` are history.

### SchedulerTicker

A configuration is reduced to what decides when a schedule fires; one whose
expression does not parse, which create and update accept, is skipped (`Runs`). `Collect` is
phase 1 (a queued fire owns its schedule, a fresh one may be deferred by a flexible
window), the `Deliver` actions are phase 2, one schedule at a time and without the
lock, `DeleteCompleted` is phase 3, and the save is a clone and a write. An API
call mutates, clones and writes in the same way under its own lock, one call at a
time; either save may fail, before or after the rename, and is then only logged.
`DeadLetter` ends an occurrence whose retries are used up, also when there is no
dead-letter queue or the send to it fails and the code drops the event. `FireOnce` is
the forced fire of the simulation endpoint, whose delete comes later. `open`,
`tries`, `lit` and `spent` are history: which schedules have an unsettled
occurrence, how often it was tried, which one-shots fired and had that saved.

## 3. Runs

Passing runs (distinct states with the given bounds; each takes one to three
minutes):

| Run | Question | Properties |
|---|---|---|
| `persist` | two calls, two deliveries and the flusher overlapping, a crash, a failed save (537 thousand): does the file always parse, is the lock discipline enough, does the flag lose a delivery? | `TypeOK`, `SnapshotParses`, `AckedDurable`, `NewestStateWins`, `DeliveryFlushed`, `RequestAnswered` |
| `queue_standard` | a standard queue with its dead-letter queue: delays, retention, redrives; queues deleted, re-created, purged, reconfigured between the calls (99 thousand) | `TypeOK`, `OnlyCurrentHandle`, `FreshHistory`, `KeepsContract` |
| `queue_fifo` | FIFO queues with two groups: per-group deduplication, replays, dead-lettering by receives and by force, deliveries, KMS failures (143 thousand, up to symmetry) | `ReplayIsSameDelivery`, `DedupOnce`, `DeadLetterOnTime`, `FifoDelivery`, `KeepsContract` |
| `move_crash` | two tasks, cancels, a crash anywhere, saves that may fail (753 thousand) | `TypeOK`, `Conserved`, `OneMover`, `CancelStopsMover` |
| `move_ends` | two targets, a crash, queues deleted, re-created and reset under the mover, process ids that change (352 thousand) | `Conserved`, `EveryTaskEnds` |
| `poller` | a standard queue that also has direct consumers and a FIFO queue, a mapping each, failing invocations, filters, partial batch responses (165 thousand) | `PollerTypeOK`, `NeverTwice`, `NothingLost`, `HiddenFromConsumers`, `FunctionSeesGroupsInOrder`, `EveryMessageHandled` |
| `pool` | two invocations, two attempts each, room for one instance, any two disruptions, cancellation at every await (133 thousand) | `TypeOK`, `CapRespected`, `SweptNotInUse`, `AtMostOnce`, `RevokedWhenGone`, `EveryInvocationEnds`, `RetiringLeaves` |
| `scheduler` | a schedule that calls turn into a one-shot, a self-deleting one-shot, a rate, a deferred cron, a disabled one or one that does not parse, under ticks, failures, forced fires and a crash (1.0 million) | `TypeOK`, `OneFireEach`, `FiredStaysFired`, `RetryBudget`, `EveryFireSettled`, `OneShotFires` |

Every property of these runs has a mutant under `mutants`: a plausible slip in
the code (a handle map not cleared, an off-by-one at `maxReceiveCount`, a broken
connection retried, a launch outside the startup lock) under which TLC refutes it.

Runs that refute what a comment or another part of the code says:

| Run | What it shows |
|---|---|
| `move_same_pid` | in a container a restarted process has the old process id, and its move task is never resumed |
| `poller_window` | a partial batch is hidden while it is held, so the next polls find nothing and forget the batching window, which starts anew later |
| `pool_iam_reset` | an instance that is being launched during an IAM reset is not marked, and starts its invocation with a dropped session |
| `scheduler_lost_retry` | a self-deleting one-shot is removed in the tick in which its delivery failed: the queued retry never fires and nothing is dead-lettered |

`findings` quotes the line each of them contradicts. What leads to them is
switched off in the passing runs (`PidStep = 1`) or outside what the passing
properties claim (`EveryMessageHandled` is about mappings without a window,
`EveryFireSettled` excepts schedules that are gone).

More behaviours of the code are modelled and kept out of the runs whose
properties they would break, by the constants:

- The flusher saves without `snapshot_lock`: an older clone can replace a newer
  snapshot, and a delivery that was flushed disappears from the disk until some
  later call saves. `AckedDurable` and `NewestStateWins` are claimed until the
  first delivery (`AllSavesLocked`), `DeliveryFlushed` claims one write.
- `ChangeMessageVisibility` gives two messages of a FIFO group different windows;
  each goes to the front when its own lapses, and they return in the wrong order.
  It also leaves `receive_attempt_cache` alone, so that a retried receive can be
  answered with another consumer's handle. `NewTimeouts` is empty in `queue_fifo`.
- The early return on a decrypt error drops the exhausted messages that the same
  receive has popped. Only the dead-letter queue, which has no redrive policy, is
  encrypted in `queue_fifo`.
- `process_batch_send_entry` accepts a delay on a FIFO queue, and the delay that
  a FIFO queue has by its attribute (`messages.rs:251`) does not apply to a send with an
  explicit zero: a delayed message is overtaken by a later one of its group
  (`FifoDelivery` is checked with `Delays = DefaultDelays = {0}`).
- `force_dlq_in` keeps receive counts, and leaves the handles of in-flight
  messages in the source's map, where they resolve again when the message is
  redriven to it (`FreshHistory` and `OnlyCurrentHandle` are checked with
  `ForcedQueues = {}`).
- The reset endpoint does not stop movers; a second mover can start beside one
  that outlived a reset (`OneMover` is checked with `MaxResets = 0`).
- A direct receive of a FIFO queue does not see that the poller has hidden a
  message of the group: `FunctionSeesGroupsInOrder` is about FIFO queues without
  direct consumers, and without a batching window.
- An invocation that is cancelled while it terminates an instance it has taken
  out of the pool leaves instance and credentials to nobody. `pool` has these
  cancellations, and `RevokedWhenGone` excepts what they cut off (`CutOff`).
- Of a launch only the credentials have a drop guard. A container that
  was started before `query_host_port` failed (`docker.rs:222`, `346`), or whose
  launch was dropped (`facade.rs:748`), is left to nobody. It stays
  `"starting"` for ever in the model; no property claims that it goes.
- A call that cloned the scheduler's state before a fire may write it after the
  ticker has saved: `FiredStaysFired` excepts the one-shots of such a save.
- The ticker's maps are kept by name: a schedule that was updated or re-created
  inherits the queued fire, the attempts and the cron minute of its predecessor,
  and phase 3 or a forced fire may delete it. The properties say what remains
  true: it fires, within the budget, and occurrences are accounted for.

### Bounds

Two messages are enough for every property that relates two messages, and two
groups for the lock of one while the other is served. In `queue_standard` two mints
per message give a delivery, a lapse and a redelivery, which is what stale handles
need, and `MaxReceiveCount = 1` makes the second receive dead-letter. `queue_fifo` has
`MaxReceiveCount = 2`, so that a message can be forced out at its limit, and
`MaxMints = 3`, so that a delivery beyond the limit would show. A send whose
encryption fails uses up a sequence number only while a message is left to be
sent (`NumberToWaste`): later the number would be seen by nobody. Groups and deduplication
ids of `queue_fifo` are interchangeable (`Interchangeable`): only equality of them
matters to the model, and neither of its temporal properties is a liveness
property. The clock runs past the visibility timeout, the deduplication window
and, in `queue_standard`, the retention period. Two tasks suffice for a start
beside another task; one crash can fall at every step of a mover or a save.
`MaxCalls = 2` lets two calls be between change and save. `MaxLaunches` is the
number of attempts of all invocations, so that no launch is kept from happening. In `poller` two failed
invocations give a failure, a redelivery and another failure. In `pool` one
instance and two invocations make the second one wait, and two disruptions are a
cause and a complication (an update and a death, a reset and a cancel). In
`scheduler` four calls create a group and a schedule, and change or delete and
re-create it; the three instants of the clock (0 to `MaxTime = 2`) hold a fire, its
retry and a second occurrence. A
delivery that fails does so early enough for its retry to come within the clock.
Behaviours end when the bounds are used up, so deadlock is not checked, except in
`poller`, whose interval ticks for ever.

### Fairness

`SnapshotPersistence!FairSpec`: weak fairness of each step of a request, a
delivery and the flusher, because tokio runs every ready task, `snapshot_lock`
is a fair mutex, and file operations return. `SqsMoveTask!FairSpec`: weak
fairness of each mover for the same reason, its sleeps and saves being finite.
`SqsLambdaPoller!PollerFairSpec`: weak fairness of the poller as a whole, one task
whose interval keeps ticking and whose invocations return. `LambdaWarmPool!Fairness`:
weak fairness of each invocation's own steps (launches and requests have
timeouts), of the background teardown and of the idle sweep, and strong fairness
of taking the startup lock, because a tokio mutex serves its queue in order.
`SchedulerTicker!Fairness`: weak fairness of the ticker's phases, of saves and of
the clock. None assumes that a client calls again, that a save succeeds or that crashes
happen.

## 4. Proofs

Checked by TLAPS for every value of the constants.

- `SnapshotPersistenceProofs`. `TypeCorrect`. `AlwaysParses`: each writer's
  temporary file holds what it cloned (`TmpInv`), so what is renamed is whole;
  this needs the private temporary path and no lock. `LockedDurable`:
  until the first delivery, `AckedDurable` and `NewestStateWins`; the invariant says that the
  lock holder's clone contains everything on disk (`DurableInv`), which is
  inductive only together with `LockInv`.
- `SqsQueueProofs`: where messages are. What each operation on a queue does is
  stated once, as facts about the sets of messages (`Elems`) and of ids (`Ids`)
  of its lists; the actions then need no reasoning about positions.
  `QueueTypeCorrect`. `QueueNeverTwice`: the invariant `Accounts` says that every
  list is free of repetitions, that no id is in two lists or two queues, that ids
  not yet sent or already gone are in none. `QueueNothingLost`: with `Accounted`
  (every id sent and not gone is somewhere) and `Settings` (what `SetQueueAttributes`
  and re-creation cannot change). It assumes `NoEncryptedRedrive`: an encrypted
  queue has no redrive policy, since the early return on a decrypt error drops
  the exhausted messages (section 3). `QueueDedupOnce`: every accepted send
  younger than the window has its key in the cache of its queue until the window
  ends (`DedupInv`), which pruning, duplicates, failed encryption, deletion and
  purges preserve; the cache goes with a deleted queue, and `accepted` forgets the sends to it.
- `SqsQueueDeliveryProofs`: what happens to a message from its arrival to its last
  delivery. One lemma about every step, `StepEvolves`, says where each message
  that waits or flies after the step was before it (it stayed, changed its window,
  was handed out, came back, arrived or is new) and what happened to the handles;
  the invariants follow from it without looking at the actions again.
  `QueueOnlyCurrentHandle` (`HandleInv`: the handles in the map of a message in flight
  are its current one, a waiting message has none) assumes, if the force-dlq
  endpoint is used, `TwoLevel`: policies stay as they are, dead-letter queues
  have none, and nothing is redriven, so that what left a queue does not come back;
  `force_dlq_in` leaves the handles of what it moves in the source's map (`Away`).
  `QueueFreshHistory` assumes `ForcedQueues = {}`: `force_dlq_in` keeps the count.
  `QueueReplayIsSameDelivery` (`ReplayInv`: an entry of the attempt cache expires with
  the window of each delivery it names) assumes `NewTimeouts = {}`,
  because `ChangeMessageVisibility` leaves the cache alone, and `TwoLevel` with force-dlq.
  `QueueDeadLetterOnTime` assumes `TwoLevel`; the invariant (`Counted`, `DeadInv`) is
  that in its home queue a message's receive count is the number of its deliveries
  and at most `MaxReceiveCount`, and that one seen elsewhere has used them up.
  `QueueKeepsContract`: `SqsQueue` implements `MessageLease`. What is in one place has one
  copy, so by `Accounts` and `Accounted` the mapping `StoredState` shows every message as it
  stands in its queue, as ended or as unsent (`Shown`) and never as broken. Then one lemma
  per action (`ReceiveMessageKept`, `ForceDlqKept`, ...) compares the fields of each
  message's state before and after it. `HandleInv` gives that a handle found in the
  map is the current lease, `LeaseInv` (a message has been leased at least as
  often as its receive count says, since the count starts again when the message
  moves) that an exhausted message has had its leases. It assumes
  `NoEncryptedRedrive` and, with force-dlq, `TwoLevel`, for the reasons above.
- `SqsLambdaPollerProofs`. A poller step changes waiting messages in place and
  removes some (`InPlace`); that keeps the queues' invariants, and the queues' own
  steps keep them by the lemmas above. `PollerTypeCorrect` needs that `failed` is
  empty until the function has answered (`PollerInv`). `PollerNeverTwice`,
  `PollerNothingLost`. `PollerHiddenFromConsumers`: while the timeout of the poll
  runs, a matched message in the queue waits and is hidden until
  then at least (`HiddenInv`); no consumer can make it visible earlier because no
  handle acts on a waiting message (`HandleInv`), which is why that
  invariant is needed here. It assumes no force-dlq and no redrives, which take
  hidden messages too.
- `SqsMoveTaskProofs`. `TypeCorrect` and `CancelIsPrompt` rest on one
  invariant, `TypeOK /\ CancelInv`: a mover that still works has a task that has
  not ended, a task being cancelled has its mover's flag up, and a mover past
  its flag check has made no late move (`Stands`); the type of a finished task
  in turn needs the outcome its mover decided on. They hold with resets,
  crashes and failed saves. `NeverTwoMovers` assumes `MaxResets = 0` (see
  section 3) and adds `OneInv`: a working mover has an active task with its
  source, an active task is driven by this process, and active tasks have
  different sources, in memory and in the snapshot. It needs no assumption on
  `PidStep`. `MovesConserve`: `HoldInv` adds to `Conserved` that the numbers of the
  messages, in memory and in the snapshot, are below the next one to be sent.
- `LambdaWarmPoolProofs`. `TypeCorrect`, `CapHolds`, `NeverUsesSwept` and
  `RunsAtMostOnce` for any number of invocations, attempts, instances and
  disruptions. The invariant: the startup lock is held exactly from `recheck` to
  the end of a launch (`LockInv`), an invocation that uses an instance holds its
  lock (`HoldInv`), an instance that is being launched is known to its launcher
  only (`NewInv`). The cap needs all three: only one launch at a time can turn a
  count below the cap into a new instance. `OnceInv` says that the handler has run
  only for an invocation that will not try again. `AlwaysRevoked`
  (`RevokedWhenGone`, wherever invocations are cancelled) adds `OwnedInv`: a
  launched instance is in the pool, in somebody's hands, or without valid
  credentials and not up; by `NewInv` only its launcher can give it up before it is
  pooled, and failing or dropping the launch revokes.
- `SchedulerTickerProofs`. `TypeCorrect`; `NoFireForgotten`: a schedule that is
  being delivered has no second fire queued (`FireInv`); `RetriesBounded`: the
  ticker's count is within some policy and at least the number of attempts made
  (`BudgetInv`); `FiredOnceSaved`: every copy of the state that may still be
  written or loaded has the one-shot as fired (`FiredInv`), which is why a call's
  clone has to be excepted.
- `DequeProofs`: `Keep` and `Arrange` list exactly the chosen positions, each
  once (`KeepLists`, `ArrangeLists`), by a rank function instead of recursion;
  the positions of a concatenation (`ConcatIndices`).

The assumptions are the named `ASSUME`s of the modules, which say what the
constants are and nothing of the behaviour.

Only model-checked: liveness (`RequestAnswered`, `DeliveryFlushed`,
`EveryTaskEnds`, `EveryMessageHandled`, `EveryInvocationEnds`, `RetiringLeaves`,
`EveryFireSettled`, `OneShotFires`), which is beyond TLAPS together with
`ENABLED`; the order of deliveries (`FifoDelivery`, `FunctionSeesGroupsInOrder`),
for which the proofs would need the positions that `Elems` and `Ids` abstract from. What a recursive definition computes for
every input is out of the prover's reach too; the models avoid recursion.

## 5. Not modelled

This is a model of four parts of a repository of about a hundred services: the
map covers the state-changing code of `fakecloud-sqs`, the persistence code it
calls, the SQS poller, the Lambda runtime's pool and most of
`fakecloud-scheduler`. Most other crates are request handlers that edit one map
under one lock, or generated shapes; a model of them would restate assignments.

Request parsing, validation messages, pagination, tags, permissions and
policy evaluation; the clock as real time; more than one account or region
(each has its own state); the stream pollers and the other services; the
containers behind Lambda instances, of which only "created, answers, dies, is left
behind" is modelled; cron parsing, and what each kind of target does with an input. Some
comments are out of date without a run showing it: `state.rs` and `moves.rs` say
that a mover "is never re-spawned on load", which `resume_message_move_tasks` does.

## 6. Plan

Done: `SnapshotPersistence`, `SqsQueue`, `SqsMoveTask`, `SqsLambdaPoller`,
`LambdaWarmPool`, `SchedulerTicker`, the contract `MessageLease` and its
refinement, their runs, and the theorems above. Left, most important first:

1. Proofs: `FifoDelivery` (an invariant on the order of both lists, step by
   step); from it `FunctionSeesGroupsInOrder`.
2. The Kinesis and DynamoDB stream pollers with their checkpoints, beside
   `SqsLambdaPoller`.
3. SNS fan-out into SQS with its deduplication.
4. Secrets Manager rotation stages; DynamoDB transactions; S3 multipart uploads.
