# A formal model of Baldim's coordination and write protocols

Baldim is a document database in TypeScript over an object store (S3, the filesystem,
memory, SQLite, RedDB). It has no server: every process that opens a database runs the
same client code, and whatever must be exclusive, ordered or agreed upon between processes
rests on a few object-store calls (a put that may be conditional, get, head, list, delete).
The specifications here model the protocols built from those calls, at the granularity at
which they can interleave: one action per answer that the code awaits.

    ExclusiveLease        what a caller of a lock relies on (abstract)
      ^ implements
    LeaseLock             DistributedLock over PluginStorage
      ^ EXTENDS
    IncrementalSequence   ids from a counter under that lock, with local batches
    ResourcePersistence   the write path of a record and its partition references
    Coordinator           GlobalCoordinatorService and the CoordinatorPlugin that follows it
    QueueClaim            the workers of the S3 queue plugin and the messages they share
    Consolidation         the eventual consistency plugin: transactions, timer, tickets
    BoundedPool           what a caller of a task pool relies on (abstract)
      ^ implements
    TasksPool             TasksPool in its three modes
    LeaseLockProofs, IncrementalSequenceProofs, ResourcePersistenceProofs,
    CoordinatorProofs, QueueClaimProofs, ConsolidationProofs, TasksPoolProofs
                          theorems about the module each is named for
    MC*                   definitions for TLC (symmetry, a concrete ProcessOf, scenarios)

`PROJECT.json` maps each definition to the source lines it stands for, lists the runs,
the hazards of the code with the properties that cover them, and for each property a
plausible bug (defined beside the original and marked "mutant") that TLC finds with it.

To repeat a check: `tlc -workers 2 -config lock_recovery.cfg MCLeaseLock.tla` (module and
configuration of each run are in the table below), `tlapm LeaseLockProofs.tla`.

## 1. Inventory

Paths are relative to `src/`. "Awaits" means that other calls of the process, and other
processes, run between two steps.

### Coordination, `core/src/concerns` and `core/src/plugins/concerns`

| Component | State | Operations | Hard part | Correct means |
|---|---|---|---|---|
| DistributedLock | one lock object: token, `_expiresAt` | acquire, release, withLock, isLocked, getLockInfo | an expired lock is judged in one call and deleted by key in another; answers get lost; holders die | exclusive within the lease; a lock left behind goes away |
| PluginStorage | objects with expiry and a version (ETag) | get, set, setIfNotExists, setIfVersion, getWithVersion, deleteIfVersion, increment, sequences | head-then-write and head-then-delete are not atomic | a conditional write loses against any earlier one; no increment is lost |
| IncrementalSequence, DistributedSequence | counter object; `localBatches` per process | next, reserveBatch, reset, releaseBatch | two calls of a process reserve at once; a batch outlives a reset | no id twice, counter never back |
| StorageMutex | mutex object and its version | tryLock, lock, unlock, extend | `deleteIfVersion` is a compare followed by an unconditional delete | one holder |
| GlobalCoordinatorService | `state.json`, `checkpoint.json`, one entry per worker; cached leader and epoch in memory | start, stop, subscribe, unsubscribe, heartbeat (register, fetch, elect, notify, save) | stale cache, compare-and-set that loses silently, crash of the leader | all processes settle on one live leader; plugins follow it |
| CoordinatorPlugin | isCoordinator, leader, epoch of the last event | startCoordination, stopCoordination, on leader:changed, validateEpoch, periodic work | subscription races with a notification | coordinates iff its service leads; stale epochs rejected |

### Records, `core/src/core`

| Component | State | Operations | Hard part | Correct means |
|---|---|---|---|---|
| ResourcePersistence | one object per record | insert, upsert, update, updateConditional, replace, patch, delete, insertMany, deleteMany, deleteAll | read-merge-write over awaits; put and references are separate calls | a conditional update undoes nobody's write |
| ResourcePartitions | one empty object per partition value of a record | createReferences, deleteReferences, handleReferenceUpdates | jobs of successive calls overlap in setImmediate; clean-up lists, then deletes | a record is listed under its value and no other |
| Query, streams, content, hooks, middleware | none of their own | reads; user callbacks | read what the above leave | |
| Schema, validator, behaviors, encodings | none | pure functions of data | whether attributes go to the body decides what an ETag tells apart | round trip |
| Database and managers | resource map, metadata object, coordinators, plugins | connect, disconnect, createResource, recovery | order of stops on disconnect; creation of the coordinator service is check-await-set | nothing coordinates after disconnect |

### Within one process

| Component | State | Hard part | Correct means |
|---|---|---|---|
| TasksPool, TasksRunner | queue, active map, counters, waiters | a task that timed out goes on while its retry runs; a slot is freed on five paths; pause, drain and stop race with retries | no slot leaks; every task settles once; no task waits beside a free slot; pause is quiet; drain ends |
| ThreadPool, PartitionQueue, HighPerformanceInserter, CronManager, ProcessManager, event emitters | queues, timers, listeners | flush against close | nothing accepted is dropped |

### Plugins, `plugins/*`

| Component | State | Hard part | Correct means |
|---|---|---|---|
| S3 queue | queue entries, message locks, processed markers, tickets, dead letters | the claim's ETag refuses nothing; a marker is cleared outside the lock; visibility timeout against a slow handler; tickets that were not won | one handler at a time; at most maxAttempts deliveries; a final status stays; every message comes to one |
| Eventual consistency | transactions, tickets, target field, locks | write and marks are separate calls; scan before lock; leases that end; sets against late adds | each transaction counted once, none lost, and all applied in the end |
| State machine | entity state, transition log | state and log written one after the other under a lock | log and state agree |
| Scheduler, TTL | job objects; expiration index | several instances | a due job runs once |
| Tree, replicator, audit, backup, importer, cache | derived data | ordering of events against writes | follow the source |

### How they interact

Plugins that need exclusion take a `DistributedLock` (through `PluginStorage.acquireLock`).
Sequences use the same protocol and rewrite their counter under it. A plugin that
should run once per cluster subscribes to the `GlobalCoordinatorService` of its namespace,
and hears `leader:changed` synchronously from it. Every public method of a resource ends in
`ResourcePersistence`, which calls `ResourcePartitions` directly (asyncPartitions: false),
in `setImmediate` (the default), or in one transaction (a client with `runInTransaction`).
The adapters are only reached through the object-store calls. The models use their contract:
one call is atomic, `ifNoneMatch: '*'` and `ifMatch` are honoured, and an ETag is the digest of
the body alone (`adapters/memory/src/memory-storage.class.ts`).

## 2. The models

### LeaseLock (`distributed-lock.ts`)

`entry` is the lock object; `pc`, `goal`, `token`, `left` and `seen` are the local variables of
one call per worker. The `while` of `acquire` is cut at its four awaits: the conditional put
(`PutAccepted`, `PutRefusedGiveUp`, `PutRefusedRead`, `PutThrows`), the get (`Read`,
`ReadThrows`), the delete (`Delete`, `DeleteFails`) and the sleep (`WakeUp`). The answer of a
get is judged in a step of its own (`JudgeExpired`, `JudgeAcquire`, `JudgeRelease`,
`JudgeProbe`), because time passes before the continuation runs. `PluginStorage.get` and the
lock both delete an expired object, so release, isLocked and getLockInfo delete as well.
`SequenceStorage.get` does not; a lock of a sequence is still deleted when it is found expired, by
acquire itself.

Time is counted down, which keeps states finite: `left` is the number of ticks before a lease
ends and -1 afterwards. Clocks of processes are taken to agree.

- `Reclaimers`: workers that call `acquire` with a positive timeout, or isLocked. The others
  use `timeout: 0`, the default, and never look at the expiry of a lock.
- `Timely`: no live worker lets its lease, or the lease it has just read, run out inside a
  call. It is an assumption on the deployment (leases of 5 to 300 seconds against calls of
  milliseconds). `lock_recovery` runs without it.
- `ReadFaults`, `MaxFaults`: failing gets; crashes, lost answers and failed deletes.

The request of a worker that has crashed is not delivered after the crash, unless it is a put
applied with its answer lost (`PutThrows`).

**ExclusiveLease** has one variable, `holders`; the refinement mapping is the set of workers
between the end of `acquire` and the beginning of `release`.

### IncrementalSequence (`incremental-sequence.ts`)

A worker is one pending call, and calls of one process share `batch` (its `localBatches`). Each
step of the lock is a step of LeaseLock, followed by what `withLock` does next
(`AfterLockStep`): the model composes the two protocols rather than assuming exclusion.
`TakeLocal` is the synchronous path of fast mode. `ReadCounter`, `WriteCounter`
and `CounterThrows` are the two storage calls under the lock, `Unlock` is the `finally`, and
`ReturnId` puts the batch over whatever another call stored meanwhile. `BeginReset` drops the
batch before it waits, as the code does. A reset that moves the counter back asks for duplicates,
so only resets past all ids in use are taken. Steps that the sequence has no use for (probe,
crash, restart of a worker) are in LeaseLock's own runs; a dead holder is represented here by
the put that was applied and never answered.

### ResourcePersistence (`resource-persistence.class.ts`, `resource-partitions.class.ts`)

One record (`rec`, NoRecord when absent), the partition values it is listed under (`refs`), the
reference maintenance under way (`jobs`), and per caller where its call is (`pc`), which method
it is and what it has read. A record has the partitioned field, one other attribute and a
stamp that tells writes apart (updatedAt). `Write` is the put or delete together with what the
method does next in the same tick: start the job (`async`), wait for it (`sync`), or commit it
too (`atomic`). A job is what `handleReferenceUpdates` does: delete the old key, put the new one,
list the partition, delete every other key of this id. Calls of a job are separate steps.
`WriteFails`, `ReadFails` and `AbandonJob` are the error paths, among them `delete`, which goes on to
remove references after its own get or delete has failed. `alone` and `sound` are history
variables for the property.

`BodyHoldsData` says whether the behavior keeps the attributes in the body. When it does not,
the body is empty and all versions have the same ETag; the mutant of `ConditionalUndoesNothing`
shows what that costs. The resource of the S3 queue is in that case, and `QueueClaim` models what follows.

### Coordinator (`global-coordinator-service.class.ts`, `coordinator-plugin.ts`)

`state`, `workers` and `checkpoint` are the shared objects. A heartbeat is `Register`, `Fetch` (or
`FetchCached` within stateCacheTtl), then either `Adopt`, or `Check` whether a plugin can take
over from a service, or an election: `List`, `ReadForElection`, `Create` or `Swap`, and finally
`Save` of the checkpoint. `Believe` is what the code does after a create or a compare-and-set
whether it won or not, for a lost one returns null and does not throw. `Adopt` contains the
synchronous `leader:changed` and the plugin's reaction. `Start` restores the epoch and leaves the
service "starting"; it is "up" after the `Save` of its first heartbeat, since start() returns, and
getGlobalCoordinator with it, only then, and a plugin subscribes to what that returns. The first
election is therefore among services. `Subscribe`, `Unsubscribe`,
`StopService`, `StopPlugin`, `Crash` change who takes part; `AskAgain` is the second question a plugin asks after
its startup jitter or cold start, and is answered "nobody" by a stopped service. A failing `Start` (the checkpoint is not read), `FetchFails`, `CheckFails`, `ListFails`,
`ElectionFails`, `WriteFails` and a failing `Save` are the storage errors, each with the answer the code
substitutes. Workers are numbers, ordered as the ids of the code are: plugins before services, the
least of the listed ids first.

Abstractions: a start or a heartbeat takes less than a tick (`Due`, `Tick`), and an entry nobody refreshes
disappears after one to `Outlive` + 1 ticks. `Subscribe` is one step, though the code awaits
subscribePlugin and getLeader: neither makes a storage call, so the three continuations run in one turn of the
event loop, and a heartbeat resumes only when a storage call is answered, in a turn of its own. (A store that answers
within the turn, as the memory adapter can, is outside this argument.) Election retries are not counted (the code gives up after
eight). A process runs one heartbeat at a time, which the code guarantees unless one outlives
`_heartbeatMutexTimeout`.

### TasksPool (`tasks-pool.class.ts`)

The code runs on one thread, so a step is what happens between two turns of the event loop:
`ProcessNext` is processNext with its whole loop, part of every action that calls it (`Enqueue`,
`Resume`, `SetConcurrency`, `Finished`). A task that has a slot is `running` an attempt or in the
`delay` before the next; `Returns`, `Throws`, `TimesOut`, `WakeUp` and `DelayAborted` are how it moves
on, `Settle` is its `.then` or `.catch`, `Finished` the `.finally` that follows. The rich mode keeps an
active map (`active`), the light modes a counter (`light`); they free the slot in different
callbacks, and only the map is asked by `pause` and aborted by `stop`. `orphans` counts the functions of
timed-out attempts, which nobody stops. `Pause` and `Drain` are loops around a shared list of
waiters. `Spinning` is a drain with tasks queued and no slot in use: `_waitForActive` returns at
once, so the loop holds the thread, and every action of an outside caller is disabled (`Call`).

**BoundedPool** has one variable, `phase`, how far each task has come; the refinement mapping
is `Phase`. Left out: the order of the queue, tuning and metrics, listeners that throw or call back.

### QueueClaim (`plugins/s3-queue/src/index.ts`)

`entry` is the queue resource, `lock`, `marker`, `ticket`, `letters` the plugin's other objects, `local`
the processedCache of a worker; `pc`, `msg`, `todo`, `held`, `op`, `claim`, `next` are the local variables of
its loop. In mode `tickets` it takes a ticket (`TakeTicket`, `SetTicket`), in mode `direct` it queries or
recovers (`Query`, `StartRecovery`). attemptClaim is `LockMessage`, `CheckMarker` or `FindMarker`, `Mark`,
`GetEntry` or `NotClaimable`, `PutClaim`, `Load` or `LoadMissing`. A read of the marker that fails is taken for no marker
(`MissMarker`); a get of the entry that fails clears it (`GetEntryFails`). A handler (`Ack`, `Nack`), and the outcome is written by `Settle` or `TokenMismatch`, `Merge`,
`PutCompleted` or `PutReleased`, and `Clear`. `Write` is unconditional: the queue resource has the
behavior body-overflow (`index.ts:618`), so the body of an entry is empty and its ETag never differs.
The message lock is taken with timeout 0; the lock of a dead worker is `Abandoned` for good.

`renewal` is the renewLock a handler has called, `Renew`, `MergeRenewal`, `PutRenewed` or `RenewalFails`. It runs beside the
handler and is not part of the worker's loop: whether the handler waits for it is up to the handler (`EndHandler`, the fault "hasty").

Time: `Due` and `Tick` let storage calls under way end before the clock moves, so that only handlers take
time; `entry[m].wait` and the markers count down. Two histories: `exposed`, and `deliveries` until then. A message is exposed when a worker
goes to recover it, when its marker is not written, when its marker is there and the read of it fails, and when its handler
settles it while a renewal of its own is under way. From then on two claims, or a settlement and an older write, are
indistinguishable to the code: each of the four lets TLC find two handlers, a delivery too many or a final status undone. Only the weaker
properties (`DeadHasLetter`, `MessagesSettle`) are claimed.

### Consolidation (`plugins/eventual-consistency/src`)

One record and one field. Transactions are numbered in the order of their timestamps; `value[t]` is
how often `t` is counted in the field, so that one function stands for every reducer and amount.
`Consolidated` is the fold of consolidateRecord and processTicket: the last set of the batch and
what follows it, or everything on top of the value read. A worker begins with a lock
(`BeginLocked`, taken with timeout 0: the timer the field's, consolidate(id) the record's) or a ticket (`Claim`, `Check`), scans (`Scan`), the
timer takes the record's lock (`Guard`), reads (`Read`), writes (`Write`), marks one transaction at a time
(`Mark`) and releases what it holds (`Close`). `ScanFails`, `ReadFails`, `WriteFails`, `MarkFails` and `Crash` are
the error paths with what the code substitutes. The coordinator reclaims (`ReclaimStaleTickets`), lists twice
(`ListTickets`) and inserts (`CreateTicket`); `Expire` and `Lapse` are the ends of ticketExpiresAt and of
the processing lease. A lock is one variable
that at most one worker holds, which is the abstract ExclusiveLease. `LeaseLock` implements it under SafeUse: nobody reclaims these
locks (timeout 0), and that calls end within the 300-second lease and reads of the lock succeed is assumed here. `missed` and `excused` are histories: how often a
transaction was written and not marked, and whether the code was given a wrong picture.
`Scan` is one snapshot. The code reads pages, and the timer reads cohort by cohort; it walks from the newest to the oldest, so
that what a walk misses is newer than what it lists, as in a snapshot taken at its beginning.

## 3. Runs

| Run | Module | Expectation | Question |
|---|---|---|---|
| sequence_ids | MCIncrementalSequence | pass | LockInv (the inductive invariant), MutualExclusion and GrantsOneAtATime of the lock under SafeUse; UniqueIds and CounterNeverMovesBack of the sequence built on it |
| lock_recovery | MCLeaseLock | pass | AbandonedLockReclaimed when callers wait or probe, with failing reads and late calls |
| sequence_duplicate | MCIncrementalSequence | violation | UniqueIds when two waiters reclaim one dead lock |
| persistence_index | MCResourcePersistence | pass | SerialCallsKeepIndexExact, ConditionalUndoesNothing, in all maintenance modes |
| persistence_replace | MCResourcePersistence | violation | IndexFollowsRecord for replace, asyncPartitions false |
| coordinator | Coordinator | pass | PluginFollowsService, whatever starts, leaves and fails; Settles, after the last process came, left or crashed |
| coordinator_epoch | Coordinator | violation | OneCoordinatorPerEpoch when two plugins subscribe and their services' elections overlap |
| queue_claims | QueueClaim | pass | OneHandlerAtATime, AttemptsBounded, DeadHasLetter, FinalIsFinal, MessagesSettle, in both modes |
| queue_stuck | QueueClaim | violation | EveryMessageSettles when a worker crashes and there is a leader |
| tasks_pool | TasksPool | pass | SlotsExact, WorkConserving, PausedIsQuiet, BodiesBounded, PoolKeepsPromise, TasksSettle, DrainEnds, in the three modes |
| consolidation | MCConsolidation | pass | CountedOnce, NothingLost, Converges, TransactionsApplied, each entry point by itself |
| consolidation_twice | MCConsolidation | violation | CountedOnce when the timer and consolidate(id) work side by side |

### Bounds

- *sequence_ids*: two callers share a process in fast mode, a third runs in standard mode; batches
  of two; four calls are enough for a batch to be used up, reserved twice, and outlive a reset. For
  the lock three workers are needed: one to hold, one to reclaim (`Reclaimers`) and one to slip in
  between. One fault leaves one lock behind. Lease 1, so that a lease can be in its last tick
  and over. Four tokens: one per worker and one in an orphan; more add nothing, since a token nobody
  holds may be used again and tokens are compared for equality only. *sequence_duplicate* lets all reclaim.
- *lock_recovery*: lease 0 (it ends at the next tick) and two workers keep the liveness graph small;
  a longer lease only delays the same steps.
- *persistence_index*: two callers, two partition values, three writes (create, move, and a third
  that meets either), one failure; no value for the optional field is part of the
  two violating runs. Callers and values are interchangeable.
- *coordinator*: two processes and one failure of any kind. Two ticks, so that a lease ends, is renewed, and a
  dead leader may be elected once more before its entry disappears (`Outlive` 1). With three ticks and `Outlive` 2, where it may be elected
  twice more, the properties hold too: the instance is too large for one run and was checked for each kind of fault by itself, which with one fault
  is all of it (379,838 to 1,830,155 states). Processes and plugins
  come and go until tick 0 (`ChangeUntil`), which is any number of steps before the first tick. The clock
  stops at MaxTime; the lease of the last election has not ended then and heartbeats go on.
- *queue_claims*: two workers compete for one message, since nothing relates two messages; one ticket, published
  again and again; two attempts, so that there is a retry and an exhaustion; visibility of two ticks
  against a marker and a backoff of one, so that a retry comes due with the marker gone, and a claim outlives its marker; one crash, failed call or
  handler that does not wait for its renewal. The strategies are hybrid and
  dead-letter; *queue_stuck* uses retry, and `failMessage` differs from `moveToDeadLetter` by the letter only.
- *tasks_pool*: three tasks for two slots, so that one waits beside a full pool; one retry; a limit that moves between 1 and
  2; a threshold at which a retry is sometimes given up. One caller pauses or drains while others do the rest.
- *consolidation*: three transactions, the middle one a set, so that an add is overridden and another is not;
  two workers, two ticket slots (a ticket and one created while a worker still holds the memory of the
  first), one retry, one fault. `MCConsolidation` lists the scenarios: one entry point at a time, each with
  the faults it is supposed to survive. Two workers with tickets exclude failed reads and writes and a missing record; see the
  observations after the findings.

### Deadlock

Deadlock is checked in *lock_recovery*, *sequence_ids* and *sequence_duplicate*, which never stop. The others set `CHECK_DEADLOCK FALSE`:
their calls, writes or clock are bounded and a behaviour ends when the bound is used up; in
Coordinator all processes may have left.

### Fairness

- *LeaseLock*: weak fairness of the clock and of the event loop of each worker: a pending
  continuation runs, a held lock is released (`withLock` releases in a `finally`), a caller comes
  back (queue pollers and cron timers call acquire again), a dead process is restarted. Strong
  fairness of `PutRefusedRead`: the timeout of a caller that comes back for ever is not over
  before its first refused put every single time. Nothing makes storage calls succeed or fail.
- *TasksPool*: weak fairness of the end of an attempt (its timeout at the latest; in the bare mode, which
  enforces none, its function), of timers and of promise callbacks. Nothing makes a caller resume.
- *QueueClaim*: weak fairness of the workers' steps together (one live worker is enough), strong
  fairness of polling, of recovery, of the dispatch and of the end of each handler; time passes.
- *Consolidation*: weak fairness of the timer, of the worker loop, of coordinatorWork, of each worker's storage calls and of the end of
  a dead worker's lease. Nobody has to call consolidate(id).
- *Coordinator*: weak fairness of every storage answer (or of `StopPlugin`, which ends them), of the expiry of entries and of the
  clock; strong fairness of `RegisterLate`: the interval timer fires for ever, and time and again later
  than stateCacheTtl after the last read. Nothing makes a process start or a plugin subscribe.

## 4. Proofs

### LeaseLockProofs

| Theorem | States | Assumes |
|---|---|---|
| LockTypeCorrect | LockSpec => []LockTypeOK | LeaseLockAssumption |
| LockInvariant | LockSpec => []LockInv | and SafeUse |
| LockIsExclusive | LockSpec => []MutualExclusion | and SafeUse |
| LockImplementsLease | LockSpec => GrantsOneAtATime, i.e. ExclusiveLease!Spec | and SafeUse |

They hold for every set of workers (finite or not), tokens, lease, and number of faults.

`SafeUse` is `Timely`, no failing gets, and either no fault that leaves a lock behind
or at most one worker that deletes expired locks. The findings below show that the last part cannot
be dropped: two reclaimers and one orphan break exclusion.

*Types.* `LockTypeOK` alone is not inductive: an accepted put stores `token[w]`, which is a token only
because every acquiring worker has one. `LockTyped` adds that.

*Exclusion.* `MutualExclusion` is not inductive either: from a state with one holder and no object
another put would be accepted. The invariant is `LockInv`, whose parts are
- `PhasesOK`: what a call of each kind can be doing, and that only reclaimers judge a lock that is not theirs;
- `TokensOK`: tokens of live workers differ, and the stored token is not one of a worker that is still acquiring;
- `OwnersOK`: a worker between acquire and the end of release still has its object, and object and handle
  agree on when the lease ends;
- `RemovalsOK`: a worker about to delete an expired lock is about to delete that very lock. This is
  where there being one reclaimer is used: nobody else can have removed it since it was judged;
- `OrphansOK`: without faults an object always has an owner, so that under Timely nothing ever expires.

`Exclusive` in the proofs is `LockInv` without the types; `LockTypedStep` and `ExclusiveStep` have one step per action, plus the stutter. The run *sequence_ids*
checks `LockInv` on a small instance. The implementation theorem adds `LeaseStep`: an accepted
put is `Grant` (no object, hence no owner, hence no holder), the start of a release or the crash of a holder is `End`,
everything else leaves `holders` alone.

### IncrementalSequenceProofs

| Theorem | States | Assumes |
|---|---|---|
| SequenceUsesLock | Spec => LockSpec: sequences drive the lock by its own operations alone | SequenceAssumption |
| SequenceTypeCorrect | Spec => []TypeOK | SequenceAssumption |
| SequenceLockInvariant, SequenceIsExclusive, SequenceImplementsLease | LockInv, MutualExclusion and GrantsOneAtATime for the lock as next, reserveBatch and reset use it | and SafeUse |
| CounterIsMonotone | Spec => CounterNeverMovesBack | and SafeUse |
| IdsAreUnique | Spec => []UniqueIds | and SafeUse |

They hold for every set of callers, any map of callers to processes, every set of processes in fast mode, every increment, batch size
and number of calls. *sequence_duplicate* violates UniqueIds without SafeUse.

`SequenceUsesLock` carries what is proved of LeaseLock over to its user. The inductive invariant then has
- `BoundsOK`, for the types: the counter and what a call has read are at most `Reach(Spent)`, where `Spent` counts the calls
  that no longer have a put ahead of them. A call that writes becomes spent, so that it may go one step further.
- `StepsOK`: a call that has read the counter and not yet written holds the lock. This ties the two modules together.
- `CounterOK`: what such a call has read is still the counter, since another call in between would hold the lock as well.
- `ResetsOK`: one reset may wait at a time, and finds the counter below what it asks for. `ResetTo` lies above all the calls before it can
  reach (SequenceAssumption): a reset that moves the counter back does issue ids again, as the code says it will.
- `ClaimsOK`: the ids in the hand of a call that has reserved them and not returned (`Hand`), those of the batch of a process (`Stock`) and
  those returned (`Given`) are below the counter and apart. UniqueIds needs this because ids of a batch are
  returned without the lock, long after it was released.

### CoordinatorProofs

| Theorem | States |
|---|---|
| CoordinatorTypeCorrect | Spec => []TypeOK |
| PluginsFollow | Spec => []PluginFollowsService |

They assume `CoordinatorAssumption` only, and hold for every number of processes, lease, clock bound, and every choice and number of faults.
`TypeOK` needs `HeartbeatOK` (a heartbeat compares with, or bids for, a state only at places of its code where it has one) and
`ClockOK`. The lemma `LeastExists` is about `Min`, by which an election picks its worker: a set of numbers that is not empty has a least one.
`PluginFollowsService` needs one more fact, that no plugin is subscribed before its service is up. The rest is that each
change of the leader a running service knows goes through `Adopt`, where the plugin hears of it in the same step, and that a
plugin that subscribes, or asks again, hears what the service holds.

### QueueClaimProofs

| Theorem | States |
|---|---|
| QueueTypeCorrect | Spec => []TypeOK |
| DeadLettersAreKept | Spec => []DeadHasLetter |
| OneHandlerPerMessage | Spec => []OneHandlerAtATime |
| FinalStatusStays | Spec => FinalIsFinal |
| AttemptsAreBounded | Spec => []AttemptsBounded |

They hold for every finite set of workers and messages, every set of tickets, both modes, all strategies, every limit of attempts, every
length of the times and any number of faults. They assume `QueueAssumption` and that `NoEntry` is no entry. Workers and messages are
finite so that a claim finds a token in no entry and in no worker's hand.

*Types* need that a busy worker has a message and knows what it is about to do (`PhaseOK`), and that every message
someone has heard of has an entry (`KnownOK`): merging is the code's read of an entry that must be there.

*Dead letters*: `Lettered(w)` says that a worker about to write "dead" is past the insertion of the letter, and that a renewal or a recovery of
a dead entry merges what already has one.

*One handler.* The conditional put of a claim refuses nothing, so exclusion is the work of three other objects, and the
invariant says how they hand over. For a message that is not exposed, `Shield` is
- `ClaimsFirst`: whoever is about to write a claim finds the entry pending still;
- `Marked`: while the entry is pending and a worker is between its marker and its claim, the marker is there, and no other worker is past it.
  The worker writes the marker under the message lock (`LockOK`) and then releases the lock; a second worker that takes the lock finds the marker;
- `Owned`: one worker at most has the claim, and the entry says processing as long as it does. From here on it is the status that excludes;
- `Renewed`: a renewal under way is of the claim of the worker that asked for it, the entry says processing, and what it will write says so
  too. A handler that waits for its renewals is what keeps this;
- `GivenUp`: when the marker is cleared the entry is neither pending, which waits for the backoff, nor in the hands of the worker that clears.

OneHandlerAtATime, FinalIsFinal and AttemptsBounded all follow from it. The last adds `Count`: deliveries are at most the attempts the
entry counts, a claim goes with the count it has written, and an entry that counts to the limit is not pending.
An exposed message is outside `Shield` from then on: recovery, a marker not written or not read, and a settlement beside a renewal are what
the argument cannot bear, and nothing else is (crashes, and every other failed call, are).

Each of these proofs goes through three lemmas instead of one step per action and part: `WhereTo` (what leads to a place of
the loop), `RoleOrigins` (how a worker comes to what it is to a message) and `WritesOf` (who writes an entry, and what).

### TasksPoolProofs

| Theorem | States |
|---|---|
| PoolTypeCorrect | Spec => []TypeOK |
| PoolSlotsExact | Spec => []SlotsExact: what the code counts as active is the set of tasks that have a slot |
| PoolWorkConserving | Spec => []WorkConserving: no task waits beside a free slot of a running pool |
| PoolPausedIsQuiet | Spec => []PausedIsQuiet: in the rich mode, after pause has returned no task has a slot, until resume |
| PoolBodiesBounded | Spec => []BodiesBounded: the functions of one task that run at once, timed-out ones included, never outnumber the attempts begun, at most retries + 1 |
| PoolImplementsPromise | Spec => PoolKeepsPromise, i.e. BoundedPool!Spec under the refinement mapping |

They assume `TasksPoolAssumption` only (tasks finite, limits and thresholds numbers of the right sign), and
hold in all three modes. The inductive invariant `Inv` has the properties above and two parts of its own:
- `WithinLimit`: slots in use are at most `MaxLimit`. They may be more than the present limit, since
  `setConcurrency` can lower it under running tasks; this is why no property says "at most concurrency".
- `AttemptsFit`: a task that has not started has made no attempt, and one in a delay has an attempt left, which is what bounds its next one.

The argument rests on `ProcessNextFills`: after the loop of processNext either the queue is empty, or the
pool is paused or stopped, or every slot is in use. Every action that frees a slot, adds a task, raises the limit or
resumes ends in that loop, which is what keeps `WorkConserving`. `PromiseStep` maps each action to a step of
BoundedPool or a stutter.

### ResourcePersistenceProofs

| Theorem | States | Assumes |
|---|---|---|
| PersistenceTypeCorrect | Spec => []TypeOK | PersistenceAssumption |
| PersistenceIndexExact | Spec => []SerialCallsKeepIndexExact | PersistenceAssumption |
| PersistenceConditional | Spec => ConditionalUndoesNothing | and BodyHoldsData |

They hold for every set of callers, partition values and methods, and every number of writes and faults.
Without `BodyHoldsData` all records have one ETag and ConditionalUndoesNothing fails, so the hypothesis is needed.

*Types* need `CallsFit`: what a call has been passed and has read at each place of its method.

*Optimistic concurrency* rests on `StampsGrow`: each write makes a version later than all that were read, a call
has not read the future, and two readings of one version are the same record. A put whose ifMatch is the present
version therefore starts from the present record.

*The index* has the invariant `Inv`. `Solo` says what "no company" gives: one caller at work or one job of the last one, and
a writer that has read the present record. `Leads` says where the references are going: `Outcome(j)`, what job j will leave
if it runs to its end, is the set of keys of the record. From an unsound state (after a replace or a failure) this holds only
once the job has listed the partition; that is the step at which an update puts the index right. `JobsFit` keeps a job
from deleting what it puts.

### ConsolidationProofs

| Theorem | States | Assumes |
|---|---|---|
| ConsolidationTypeCorrect | Spec => []TypeOK | ConsolidationAssumption |
| ConsolidationCountsOnce | Spec => []CountedOnce | and OneAtATime |
| ConsolidationLosesNothing | Spec => []NothingLost | and OneAtATime |
| ConsolidationConverges | Spec => []Converges | and OneAtATime |

They hold for every number of transactions, any of them sets, and every set of workers and number of faults.
`OneAtATime`: in each scenario there is one entry point under one lock (`UnderOneLock`: the timer or consolidate(id), any workers, any
failures), or one worker (`OneWorker`: any entry points, any failures), or tickets alone, and none is released for a retry (`UnderOneTicket`:
no failing read, write or mark, a record that exists, and workers that end within their tickets; crashes, expiries and
partial scans may happen). All scenarios of *consolidation* are of one of these kinds. What is left out breaks CountedOnce: the timer beside
consolidate(id) is finding 5, and a ticket released between the two lists of the coordinator is in the observations after it.

- `Serial`: a worker that is not idle holds the lock of its entry point, if it has one.
- `OneTicket`: at most one ticket is live, and a worker past its check has it. The coordinator makes a ticket after two lists that are not
  one step; the invariant says what it knows between them. After the first nothing live is available, so that
  what is live then is in processing until it is deleted, and the second list would show it.
  Together these say that who is at work is alone (`Alone`); a second worker is idle or about to find its claim void.
- `Fresh`: what it has listed is not applied, and what it has read is at most the value.
- `Counted`: the value counts a transaction at most as often as it was missed, and once more if it is applied or about to be
  marked. This is what CountedOnce needs to be inductive.
- `Ordered`: what is pending and not listed came after the scan and is later than what is listed, where sets are concerned; and
  a writer starts from the present value. `excused` is what remains of the runs where this fails.
- `Kept`: what counts is in the value or under a later set in it, and pending sets are later than all that counts. The second
  part is why the first survives the write of a batch with a set.
- `Exactly`: the value is the consolidation of what counts. Its step is the lemma `BatchesAddUp`: two batches applied one
  after the other are one batch applied at once, if the sets of either are on the right side of the other.

### Model-checked only

Every invariant, action property and refinement of a passing run is a theorem. What stays with TLC:
- *liveness*: AbandonedLockReclaimed, Settles, MessagesSettle, TasksSettle, DrainEnds, TransactionsApplied;
- *the findings*: each is a counterexample, found by TLC on a small instance.

## 5. Findings

1. *sequence_duplicate*. The delete of an expired lock names the key alone. Two waiters that
   judge the same dead lock both delete, and the second removes the lock the first has just taken;
   both read the same counter.
2. *persistence_replace*. replace passes `{}` as old data: the old reference is not known, and the
   clean-up is skipped as for a new record.
3. *coordinator_epoch*. An election computes its epoch before it reads the state, replaces a running lease
   of another leader with the same epoch, and a lost bid counts as won. A service leads under epoch 1 when two plugins
   subscribe; both of their services start a re-election, and both plugins coordinate under epoch 2. `Settles`, in the run *coordinator*, shows the state to be temporary.
4. *queue_stuck*. Where there is a leader the workers take tickets, and tickets are published for pending
   messages only. A worker that dies in a handler leaves its entry in processing, and recovery of such entries is
   reached from the direct mode alone: the message is never delivered again.
5. *consolidation_twice*. consolidate(id) takes the lock of the record. The timer scans the transactions under
   the lock of the field and takes the lock of the record afterwards, so what it counts may be
   what consolidate(id) has counted in between.

Further observations, reproduced with the same modules by changing the constants named; they are not runs:

- *LeaseLock*, `Reclaimers = {}` (everyone passes timeout 0): AbandonedLockReclaimed fails. acquire returns null at a refused put
  before it looks at the expiry, and nothing else deletes the object. The scheduler, the S3 queue and consolidation pass 0.
- *ResourcePersistence*, `Methods = {"insert", "update"}`, `Modes = {"async"}`: IndexFollowsRecord fails. Maintenance jobs
  of successive calls are not ordered: an insert's put may land after the clean-up of the update that followed it.
- *Consolidation*, scenario `{"ticket"}` with both workers and a failing read or a missing record: CountedOnce fails.
  getActiveTicketRecords lists twice; a ticket released between the two lists is handed to two workers, one of which has
  checked it before the other began.
- *QueueClaim*, direct mode: the conditional put of a claim compares the ETag of an empty body and refuses nothing. What makes a handler
  exclusive is the message lock and the processed marker; after a recovery a slow worker's write overwrites its successor's. Dropping
  `Expose` from `MissMarker` violates OneHandlerAtATime, AttemptsBounded and FinalIsFinal: one failed read of the marker is enough for two handlers.
  The comment of a skipped test (`plugins/s3-queue/tests/concurrent.test.ts:597-600`) says 'ETag-based atomicity + distributed locking +
  deduplication cache = zero duplicates'. Dropping it from `EndHandler` violates FinalIsFinal: a renewal nobody waited for puts processing over completed.

## 6. Not modelled

- *Pure functions of data* (schema, validator, encodings, behaviors, calculators): no
  interleaving; what the protocols depend on is a constant.
- *Adapters*: only their contract. Whether the filesystem's conditional put is atomic across
  processes is a question about a module that does not exist yet.
- *Query, streams, content, hooks, middleware, audit, backup, importer, replicator, cache*: readers
  and followers, dominated by input and output.
- *ResourcePersistence*: multipart insert and patch by copyObject, insertMany and deleteMany (the
  same calls for several ids), history, size limits; partition rules and orphaned partitions.
- *Coordinator*: the circuit breaker, metrics, contention and the 'timestamp' strategy of elections; validateEpoch
  and the phases of a cold start; creation of the coordinator service; overlapping heartbeats.
- *TasksPool*: the order of the queue (priority, aging), tuning, metrics, memory checks, listeners that throw or call back into
  the pool. A task enqueued after stop is accepted and never settles; the model has it, and TasksSettle is about tasks enqueued before.
- *QueueClaim*: the ordering lock and FIFO or LIFO order, maxAttempts per message, a change of mode while a leader comes or goes,
  purge, statistics and events.
- *Consolidation*: recalculateRecord and getConsolidatedValue, garbage collection of applied transactions, analytics, the cohort window of the
  scan, pending transactions kept in memory in sync mode, two coordinators at once.
- *StorageMutex, PluginStorage's counters, ThreadPool and the other queues of a process, state machine, scheduler, TTL*: stateful and
  within reach; see the plan. The rest of the plugins are clients of remote services or derive data.

## 7. Plan

Done: the lock and its abstraction, sequences on top of it, records and references, elections, the task pool
and its abstraction, the S3 queue, consolidation; and for each of them the theorems of section 4. The order of the rest:

1. `StorageMutex` with the non-atomic `deleteIfVersion`, and PluginStorage's counters and sequences
   (`increment` without a lock; callers behind the in-process gate). Abstract specification: ExclusiveLease
   again. Run: two processes, one lease that ends during an unlock.
2. In Coordinator the fence of validateEpoch and overlapping heartbeats; in ResourcePersistence multipart insert and
   patch; in QueueClaim a leader that comes and goes.
3. The state machine and the scheduler on top of LeaseLock and Coordinator.
4. Theorems: an abstract specification of the queue (a message is waiting, in one hand, or settled), and QueueClaim
   shown to implement it.
