# WeaverDB: a verification project in TLA+

WeaverDB is PostgreSQL 7 made embeddable: one process, one thread per connection,
and writer threads that commit transactions in groups through a *shadow log*. This
directory models the parts of the server where threads, crashes and the disk meet:
how ids are reserved, how a commit becomes durable, what a restart finds, what a
snapshot sees, how locks, buffers and cached catalogues are shared, and how a scan is
handed to helper threads. Paths below are relative to `mtpgsql/src/backend/`.

## 1. The system

| Part | State | Operations | Hard behaviour |
|---|---|---|---|
| Id generator (`access/transam/varsup.c`) | `ShmemVariableCache`, page 0 of `pg_variable` | `GetNewTransactionId`, `GetNewObjectId`, `ReadNewTransactionId`, refills | the spin lock is released during a refill; crash between reservation and use; the page is written from a shadow that depends on `buffer_generation` |
| Buffer I/O (`storage/buffer/bufmgr.c`) | per buffer: data, shadow, generation, dirty and logged flags | `BufferGetBlock`, `LogBufferIO`, `WriteBufferIO`, `DirtyBufferIO`, `AdvanceBufferIO` | pages change while their earlier image is logged; the generation decides which image is taken |
| Write groups (`env/dbwriter.c`) | ring of two `WriteGroup`s, `sync_group`, `sync_buffers` | `RegisterBufferWrite`, `CommitDBBufferWrites`, `FlushAllDirtyBuffers`, `DBWriter`, `SyncWriter`, `ShutdownDBWriter` | order of log, status bits, wake-up, page writes, sync; condition variables and time-outs |
| Shadow log (`storage/smgr/vfd.c`) | `pg_shadowlog`, `pg_shadowlog.old` | `vfdbeginlog`, `vfdlog`, `vfdcommitlog`, `vfdexpirelogs`, `vfdreplaylogs`, `vfdshutdown` | crash at any write; torn blocks; crash during replay |
| Transaction log (`access/transam/trans*.c`) | two bits per transaction in `pg_log`, checkpoint id | `TransBlockSetXidStatus`, `TransRecover`, `TransactionIdDidCrash` | soft commits; recovery; a test of the log that races the commit it asks about |
| Transactions and snapshots (`access/transam/xact.c`, `storage/ipc/sinval.c`, `storage/lmgr/multithread.c`) | xid and xmin of each thread | `StartTransaction`, `CommitTransaction`, `AbortTransaction`, `GetSnapshotData` | an xid is published after it was handed out; slots change under a running scan |
| Row versions (`utils/time/tqual.c`, `access/heap`, `env/vacuumlazy.c`) | xmin, xmax and hint bits of the versions of a row | `HeapTupleSatisfies*`, UPDATE, the two heap passes of lazy vacuum | waiting updaters, hints set from a racing test, vacuum by an old checkpoint id |
| Lock manager (`storage/lmgr/lock.c`, `lmgr.c`, `multithread.c`) | lock entry, reference count, counters, holders, queue, wait mask | `LockAcquire`, `LockRelease`, `LockReleaseAll`, `ThreadEnqueue`, `ThreadLockWakeup`, cancellation | the entry is used outside the table's guard; several grants in one walk; a cancel that comes after the grant |
| Shared invalidation (`storage/ipc/sinval*.c`) and caches (`utils/cache`) | ring of messages, read positions, cached descriptors | `SIInsertDataEntry`, `SIGetDataEntry`, `SIDelExpiredDataEntries`, `DiscardInvalid`, `DiscardAllInvalids`, relation open | stale descriptors; full ring; the DBWriter reads for idle connections |
| Buffer pool and content locks (`storage/buffer`) | descriptors, lookup table, free list | `ReadBuffer`, `BufferAlloc`, pins, `LockBuffer`, `BiasBuffer`, dropping a relation's buffers | sections under different guards; one condition variable for several kinds of waiters |
| Delegated scan (`env/delegatedscan.c`, `env/dolhelper.c`, `executor/nodeDelegatedSeqscan.c`) | helpers of a connection, a `Delegate` per scan | hand-over, early end, errors, cancellation and shutdown, join | two parties that wait for each other; requests that are overwritten; memory of one party used by the other |

A backend takes a transaction id from the id generator, publishes it in its slot, takes
a snapshot, opens relations under locks from its caches, reads pages through the buffer
pool, changes them, registers each with the current write group and appends its
transaction to the group. The DBWriter takes the group over, starts a new one, writes
the pages to the shadow log, sets the status bits in `pg_log`, resets the slots of the
committed threads and wakes the careful committers, writes the pages to their files,
syncs these and expires the log. With `max_logcount > 0` the page writes of several
groups are collected in the sync group and written ahead by the SyncWriter. After a
crash the shadow log is replayed, then soft commits are turned into aborts.

## 2. Modules

| Module | Models | State and actions |
|---|---|---|
| `BufferIO` | buffer flags, shadow, generation | a record `[data, shadow, generation, dirty, logged]` and one operator per function of `bufmgr.c` |
| `IdGen` | id generator | the cache (`next`, `count`, `prefetch`), buffer and disk image of `pg_variable`; `Enter`, `Take`, `StartFetch`, `LockVariableRelation`, `Bump`, `Flush`, `Install`, `FetchError`; the writer's `LogGroup`; `Evict`, `Crash`. `FlushSpec` adds the two steps of an early flush, `FlushGroupLog` and `FlushGroupSync` |
| `DurableCommit` | what a client is promised | per transaction whether it asked, is durable, acknowledged or cut off; a crash never takes back a durable one |
| `GroupCommit` | pages and commits through the writers | a page image is the set of transactions whose change it holds (`Junk`: bytes of another page). The steps of a backend, of the DBWriter and SyncWriter page by page; flushes, evictions, `Crash`, `Restart` |
| `ShadowLog` | the log file and its replay | the file as a sequence of header and segment blocks with the part that was synced; `Crash` chooses for every unsynced block and page whether it is kept, lost or torn |
| `WriteGroup` | group states and waits | one step per critical section of a group's mutex; `gate` and `asleep` are the condition variables, `tstate` is `THREAD.state`, `fatal` collects assertions that fail and `elog(FATAL)`s that are reached |
| `Snapshot` | transactions, snapshots, the versions of one row, vacuum | the slots of the `procState` array and a scan that passes them one at a time; status bits; versions with `xmin`, `xmax`, hints and `t_ctid`; `HeapTupleSatisfies*` as operators; the updater's wait and walk; `lazy_scan_heap` and `lazy_vacuum_heap` |
| `LockTable` | one lock | entry with `refs` and `removing`, `holds` per thread and mode, `lock` with the counters and the mask as the code keeps them, the queue with the masks of its members, `waitMask`; `twice` counts threads that were dequeued although they had left the queue; one step per section of `lock->protection`. `Asserts` says whether the build has assertions |
| `SharedInval` | the message ring | message numbers, ring, positions, reset flags; one action per call under `SInvalLock` |
| `Catalog` | `LockTable` and `SharedInval` composed the way transactions use them | version of one relation, what each thread has cached of it, its transaction, and the DBWriter's rounds |
| `BufferPool` | pool, lookup table, free list, content locks | descriptors with `refCount`, `pageaccess`, flags, `freeNext`, bias; `table`; head and tail; `put` (frames on their way to the list); one step per critical section |
| `DelegatedScan` | helpers and delegates | `DolState`, place and mailbox of each helper, place of the main thread, the `Delegate` with its two flags, arrays of tuples on each side; `cancel` is a cancel of the connection from outside or the shutdown of the server, `Freed` a pointer read from memory that was given back |
| `MC*` | instances | values for function-valued constants |
| `*_proofs` | theorems | section 4 |

`GroupCommit` and `WriteGroup` look at the same functions from two sides: the first
keeps the disk and takes the waiting as given, the second keeps the waiting and forgets
page contents. `GroupCommit` empties its log when recovery ends and takes a committed
log as one step; what the file really does then is `ShadowLog`'s subject. `Snapshot`
takes the order in which the DBWriter records and resets a transaction from the same
functions, without pages or groups.

Definitions under a comment `Mutant:` are deliberate faults (a dropped guard, a missing
wake-up, a swapped order) of a definition that follows them; no specification uses
them. Each property of a passing run is violated when the fault listed for it in
`PROJECT.json` replaces the definition.

## 3. Runs

`tlc -config <cfg> <module>` with the pairs of `PROJECT.json` repeats any of them.

### Passing

| Run | Shows | Bounds |
|---|---|---|
| `ids` | ids strictly increase across crashes (`IdsIncrease`); `IndInv`, the invariant of the proofs, holds, and with it `NoIdAboveNext` (every id handed out is covered by `pg_variable` on disk) and `HorizonAboveGranted`; a busy mark is taken away unless the read of `pg_variable` failed (`FetchCompletes`) | 2 threads, both kinds of ids, refills of each, any number of crashes and evictions, read errors; no early flush |
| `commit_default` | with a warm server and `max_logcount = 0`, acknowledged commits survive a crash (`CommitDurable`) and do so whole (`CommitAtomic`), no change leaves the pool unwritten (`NoLostUpdate`), soft commits stay visible while the server runs (`SoftVisible`), and `GroupCommit` implements `DurableCommit` (`KeepsPromise`) | 2 transactions on 2 pages with one in common, all commit types (only one of the two soft), one crash, one eviction |
| `commit_live` | every careful committer is answered | with SyncWriter and a flush |
| `log_recovery` | after any two crashes recovery has restored the pages of every completed log it could reach (`RecoveryRestores`), data files are synced before their log expires (`WriteAhead`), and every index page that a crash may have damaged is listed for checking (`RiskyIndexListed`) | 2 pages, 3 logs of which several may be in the file, 1 page per segment so that segments fill up, 2 crashes, 1 clean shutdown |
| `group_states` | no assertion of `dbwriter.c` fails (`AssertionsHold`), no sleeper is forgotten, a transaction put in a group is recorded before it leaves it, no thread is reset after its release, a shutdown hardens soft commits | 2 backends, careful and soft, 2 transactions each, one flush, groups of one transaction so that they overflow |
| `group_live` | committers that wait for the log or for the sync are answered after they are recorded (`AnsweredRecorded`), every request is answered, a shutdown ends both writers | 2 backends, careful and synced, groups of two, one deferred log, one flush |
| `snapshot` | the outcome of what a snapshot takes for finished can no longer change (`SnapshotDecides`); a committed update was made to the version it superseded and is superseded by at most one (`NoLostUpdate`); hint bits tell the truth for good (`HintsTruthful`); the checkpoint id stays below the xmin of every snapshot; vacuum removes nothing that an open snapshot sees (`VacuumKeepsVisible`) | a serializable writer, a soft read-committed writer with two commands and a sweeper, ids up to 5, after a crash that left one deleter unfinished; start-up sets the checkpoint id to any number from the next id to the end of the reserved batch |
| `locks` | conflicting modes are never held together until a sleeper that was already granted the lock is dequeued a second time (`NoConflictingHolders`); the entry outlives whoever holds, awaits or is about to use it, also after that (`EntryOutlivesUsers`) | 3 threads: two that ask for AccessShare without waiting and for AccessExclusive, one for RowExclusive; up to 2 holds, at most 4 references, one thread whose statement may be cancelled, one second dequeue, no assertions |
| `catalog` | while the queue has not overflowed, whoever holds the lock of a relation (other than without waiting) uses its newest description (`CatalogFresh`); no unread message is overwritten (`UnreadKept`) | 2 connections with 2 transactions each and the DBWriter, a ring of 3, message numbers lowered by 3, 3 versions, one second dequeue, no assertions |
| `buffers` | a reader has the block it asked for (`ReadsItsBlock`); lookup table, frames in transit and free list are sound (`PoolSound`); a page of a write group keeps its frame (`RegisteredKept`); content locks exclude (`LockExclusion`); nobody is left asleep on a free page while nobody waits for a reference-exclusive lock of it (`NoLostWakeup`) | 3 threads: a writer with an exclusive lock, a writer with a shared lock whose read may fail and who biases the frame, a dropper with a reference-exclusive lock; one operation each, 3 warm frames, 4 blocks, lingering buffers |
| `scan` | the executor gets every tuple once and in order, and the end only after all of them; pointers from freed memory it gets only after its helper dropped the scan, and then no end (`ScanExact`); a `Delegate` outlives its helper's use of it; a transaction ends with its helpers stopped; waits for tuples, for the end of a scan, for helpers to stop and to be joined come to an end, except where the property names the case in which the code waits on | 2 helpers, hand-overs of 2, relations of 3 and 0 tuples, 2 scans, errors of the helper, errors and cancels of the statement, shutdown |

The bounds let every case of the code occur: two of everything that is interchangeable
(threads, transactions, groups; the ring of groups has exactly two), three where two
waiters and a holder are needed, enough ids, logs, messages and page writes for each
limit to be reached and passed once, and two crashes where a crash during recovery is a
case of its own.

Deadlock is checked except in `locks`, `catalog`, `buffers` and `scan`. There a thread
that has used up its operations stops, and sleepers can really be stuck: a lost wake-up
of the lock manager, a signal that reaches the wrong waiter of a page, a helper waiting
for room. For the same reason no liveness is stated of locks, catalogues and buffers;
the cases are below and in the hazards of `PROJECT.json`.

Every module with state has a type invariant (`TypeOK`, `LockTypeOK`, `InvalTypeOK`)
that documents the values of its variables; it holds in the instances above and can be
added to any configuration. That of `IdGen` is a conjunct of `IndInv`, and the types
that the other proofs need are conjuncts of their invariants.

### Violations

`sinval_overflow` states what `SIInsertDataEntry` says of a full queue, that all the
backends discard all invalidatable state, and finds a backend that goes on with a stale
relation: `SISetProcStateInvalid` never sets a reset flag. The finding quotes the line.

Further configurations, which TLC refutes in the same way, are kept for reference:

| Configuration | Module | Property | What happens |
|---|---|---|---|
| `IdGen_flush.cfg` | `MCIdGen` | `NoIdAboveNext` | an early flush sets `buffer_generation` to that of the sync group, 0; the next flush of `pg_variable` writes the old shadow. The comment above `TransRecover` states the property |
| `GroupCommit_flush.cfg` | `MCGroupCommit` | `CommitDurable` | a flushed group keeps its generation: a second change in the same group is logged from the first copy |
| `ShadowLog_obstructed.cfg` | `ShadowLog` | `RecoveryComplete` | replay stops at an uncompleted header that nobody removes |
| `WriteGroup_flush.cfg` | `WriteGroup` | `FlushWrites` | a time-out of the gate overwrites the request to flush, and the flush returns early |
| `Snapshot_order.cfg` | `MCSnapshot` | `SeesOneVersion` | the DBWriter resets a slot without `SInvalLock`: a snapshot sees the second of two dependent updates finished and the first one running, and two versions of the row |
| `LockTable_wakeup.cfg` | `MCLockTable` | `NoSleeperOnFreeLock` | the walk of `ThreadEnqueue` clears bits of `lock->waitMask`; `LockReleaseAll` tests the mask and leaves a sleeper on a free lock |
| `LockTable_twice.cfg` | `MCLockTable` | `NoConflictingModes` | a sleeper whose timer ends is granted the lock before it has the mutex back and then finds its statement cancelled (`multithread.c:471`); it is dequeued a second time and counted off (`lock.c:870`), and the counters no longer cover the holders. Only without assertions |
| `BufferPool_lost.cfg` | `MCBufferPool` | `NoBufferLost` | `PutFreeBuffer` does nothing for a frame still marked free that is on no list, and the frame is lost to the pool |
| `DelegatedScan_freed.cfg` | `MCDelegatedScan` | `NothingFreed` | a helper that fails deletes `dol_cxt`, in which the array of the `Delegate` lies (`dolhelper.c:236`); an executor that looked for errors before, or finds one without a code, copies the freed array (`delegatedscan.c:310`) |
| `DelegatedScan_args.cfg` | `MCDelegatedScan` | `ArgsOutlive` | after `DelegatedDone` the helper frees an array through the arguments of the scan (`nodeDelegatedSeqscan.c:448`), which the executor may have freed (line 285) |

### Preconditions of the passing runs

Where one of these is lifted, TLC finds a counterexample in the same module:

| Setting | Property that fails | Why |
|---|---|---|
| `FlushSpec` in `IdGen` | `NoIdAboveNext` | above; the theorems are about `Spec`. It has `max_logcount = 0` as well: with more, the SyncWriter sets the generation back in the same way (`dbwriter.c:438`) |
| `MaxFlushes = 1` in `GroupCommit` | `CommitDurable`, `NoLostUpdate` | above; also, a page registered between the log and the sync of a flush is written from an old shadow and loses its pin before `DirtyBufferIO` |
| `FirstGeneration = 0` | `CommitDurable` | the first group after start-up has generation 0, as have all buffers: no shadow copy is made (`bufmgr.c:256` has the comment, not the copy) |
| `MaxLogCount = 2` in `GroupCommit` | `CommitDurable` | `WriteBuffer` registers a page before it marks it dirty; the page passes to the sync group unlogged and its transaction commits in the next group |
| `Logging = FALSE` | `CommitAtomic` | status bits are flushed before data pages |
| `MaxLogCount = 2` in `WriteGroup` | `AssertionsHold` | at shutdown the SyncWriter marks the sync group FLUSHING (`dbwriter.c:434`) while the DBWriter resets it |
| `Spurious = TRUE` | `AssertionsHold` | `CheckWriteGroupState` waits without a loop |
| `twice = 0` in `NoConflictingHolders` | `NoConflictingModes` | above. With `Asserts` the two properties are the same: `SHMQueueDelete` stops the server at the second dequeue |

The default build is a debug build with assertions; `include/c.h` says that they should
not be defined in releases, so `LockTable` has both. With the two threads of `catalog` a
second dequeue does not lead to conflicting holders, and `CatalogFresh` holds; with three
and no assertions it rests on a lock that no longer excludes, and the theorem about it
assumes `Asserts`.

Some properties name their exceptions in their text. `SnapshotDecides` and
`VacuumKeepsVisible` leave out ids in `late`: those that a scan passed before they were
in their slot, the window between `GetNewTransactionId` and its publication.
`CatalogFresh` leaves out an overflowed queue and locks taken without waiting.
`NoConflictingHolders` leaves out an entry at which a thread was dequeued twice.
`ScanExact` allows freed pointers where the helper dropped the scan (`Dropped`).
`NoLostWakeup` leaves out pages somebody wants a reference-exclusive lock of. The liveness
properties of `scan` leave out a helper that dropped its scan after an error, one that
waits for room after an early end, and a request to stop that was overwritten
(`Overlooked`). The hazards of `PROJECT.json` that fall under one of the exceptions of
locks, pages and scans say so in their notes.

### Fairness

- `IdGen`: weak fairness of each thread in a refill. The spin lock and the relation
  lock are held for bounded time. No fairness of callers, and none of errors.
- `GroupCommit`, `WriteGroup`: weak fairness of the DBWriter, the SyncWriter and, in
  `WriteGroup`, of each backend inside a request: they are operating-system threads
  that are runnable. Time-outs of the gate are part of the DBWriter's fairness,
  because `pthread_cond_timedwait` returns. Nobody is obliged to begin a transaction,
  a flush or a shutdown.
- `DelegatedScan`: weak fairness of each helper and of the main thread where it is
  inside a call (`MainGoesOn`). Nobody is obliged to start a scan, fetch a tuple, fail
  or cancel.

## 4. Theorems

The theorems hold for every value of the constants: any number of threads, helpers,
backends, ids, tuples and any size of ring, prefetch and hand-over, under the named
assumptions of the modules, which the runs evaluate. Those about `GroupCommit` assume
`SafeSettings` as well (below).

| Module | Theorem | Statement |
|---|---|---|
| `IdGen_proofs` | `IndInvariant` | `Spec => []IndInv` |
| | `IdsNeverReissued` | `Spec => []IdsIncrease` |
| | `RecoveryConstraint` | `Spec => []NoIdAboveNext`, the constraint stated above `TransRecover` |
| | `HorizonSound` | `Spec => []HorizonAboveGranted /\ HorizonMonotone` |
| `Snapshot_proofs` | `SnapshotsDecide` | `Spec => []SnapshotDecides` |
| | `CheckpointBelowSnapshots` | `Spec => []HorizonBelowSnapshots` |
| | `UpdatesNotLost` | `Spec => []NoLostUpdate` |
| | `HintsStayTruthful` | `Spec => []HintsTruthful` |
| | `VacuumSafe` | `Spec => []VacuumKeepsVisible` |
| `ShadowLog_proofs` | `LogInvariant` | `Spec => []LogInv` |
| | `PagesLoggedFirst` | `Spec => []WriteAhead` |
| | `RecoverySound` | `Spec => []RecoveryRestores` |
| | `RiskyIndexesListed` | `Spec => []RiskyIndexListed` |
| `LockTable_proofs` | `LockInvariant` | `LockSpec => []LockInv` |
| | `HoldersCompatible` | `LockSpec => []NoConflictingHolders` |
| | `AssertedHoldersCompatible` | `LockSpec => []NoConflictingModes`, assuming `Asserts` |
| | `EntryKeptForUsers` | `LockSpec => []EntryOutlivesUsers` |
| | `HoldsAsAsked` | `LockSpec => [][HoldsChange]_lockVars`: who may be given a mode, and who may lose one |
| `Catalog_proofs` | `UnreadSafe` | `InvalSpec => []UnreadKept` |
| | `UsesQueue` | `Spec => InvalSpec`: the composed system implements the queue |
| | `CatalogUnread` | `Spec => []UnreadKept`, from the two theorems before |
| | `UsesLocks` | `Spec => LockSpec`: the composed system implements the lock manager |
| | `CachesFresh` | `Spec => []CatalogFresh`, assuming `Asserts` |
| `DelegatedScan_proofs` | `ScansExact` | `Spec => []ScanExact` |
| | `DelegateKept` | `Spec => []DelegateOutlives` |
| | `HelpersLeave` | `Spec => []HelpersStopped` |
| `GroupCommit_proofs` | `CommitInvHolds` | `Spec => []CommitInv`, this and the following under `SafeSettings` |
| | `CommitDurableHolds` | `Spec => []CommitDurable` |
| | `CommitAtomicHolds` | `Spec => []CommitAtomic` |
| | `SoftVisibleHolds` | `Spec => []SoftVisible` |
| | `NoLostUpdateHolds` | `Spec => NoLostUpdate` |
| | `KeepsPromiseHolds` | `Spec => KeepsPromise`: the refinement of `DurableCommit` |

**IdGen.** `NoIdAboveNext` is not inductive: a step may take an id only because the
installed range was flushed before. `IndInv` adds `WriterInv` (without early flushes
`buffer_generation` is never behind a buffer's generation, so `AdvanceBufferIO` copies
the page and a direct write puts the page as it stands on disk), `PageInv` (memory and
disk differ only while the holder of the relation lock is between `Bump` and `Flush`),
`FetchInv` (at most one thread refills a kind of id, and what it will install is
reserved) and `CacheInv` (`next + count` stays within what the disk reserves). `Spec`
has no early flush; under `FlushSpec` the theorem is false, as `IdGen_flush.cfg` shows.

**Snapshot.** `SnapInv` adds to the two properties what a scan in progress has already
secured: `SlotInv` ties the slot of each thread to its place in the transaction, and
`ScanInv` says of every slot behind the scan that its transaction is counted as running
or as one to come unless it is finished or `late`, and that the horizon collected so far
is not above the xmin published there. Without it the last step of a scan, which
publishes the snapshot and the checkpoint id, proves nothing.

The row-version theorems rest on `RowVersionInv`, three more layers on top of `SnapInv`.
`XactInv` ties slot, place and log entry of each transaction together and says that ids
are not shared. `HorizonInv` is about every number that a vacuum or a crash test may go
by, wherever it was copied to (`Horizons`: the checkpoint id, the minimum of a scan under
way, the xmin a thread published, what a vacuum read at its start): a transaction below
it that is still running is known to be, or is `late`. The checkpoint id of start-up is
no such number, because it lies above ids yet to be handed out; `CheckpointInv` says that
it is one as soon as anybody has a snapshot, before which nobody goes by it. `RowInv` says of each version that
its hints are true and its deleter settled when it has a successor, and of each thread in
the middle of a decision (`OpOf`) what its earlier reads still tell it: after the slots
were searched in vain, a transaction in doubt stays dead, because a status or a slot that
changes later belongs to a newer id. The step lemmas use two frame relations,
`Forward` (what a step may do to transactions) and `VersionsKept` (versions are only
appended, hinted or given a deleter), instead of one lemma per pair of step and conjunct.

**ShadowLog.** What a recovery restores is decided long before it starts, so `LogInv`
says at every step what a recovery would find if the server stopped there. `FileInv` is
the shape of the file (`Whole`: a completed log has all its segments; `Chain`: the next
header has the next id, so a reader does not stop in between). `WriteInv` and `SyncInv`
follow the log that is being written through the three syncs of `LogBuffers`: what the
header buffer, the file and the disk hold at each of them. `PageInv` is the heart: for
every page either the newest image in the completed logs on disk is the safe one, or no
completed log has the page and file and disk agree; once the completed header may have
reached the disk, the same with the attempted images instead of the safe ones.
`ReplayInv` says what the replay of the blocks read so far has put back, which makes a
crash during a replay harmless.

**GroupCommit.** `SafeSettings` is the assumption of all its theorems: logging on,
`MaxLogCount = 0`, no early flush, a first generation above 0. These are the settings of
`commit_default`, and the table of preconditions in section 3 has the counterexample for
each conjunct that is dropped; transactions, pages, crashes and evictions are arbitrary.
That a commit survives follows from the order of `DBWriter`, but at no single step: what
a crash finds depends on where the writer stands, on which of the two groups a page is
pinned by, and on whether its descriptor was copied before a later change. `CommitInv`
says all of it at every step. `PinInv` and `CartInv`: a change that is not in its file is
pinned by the group at work or by the current one, and if its transaction is on its way
to `pg_log`, by the group at work. `DirtyInv`, `LoopInv` and `PendingInv`: what
`LogBuffers` has passed is in the pending log or in the file, what it has yet to pass is
dirty. `ShadowInv`: a copy is an earlier state of its page and no descriptor is ahead of
`buffer_generation`, so that the copy that is written still has every change of the
group. `RecoverInv`: what `pg_log` commits can be recovered from the shadow log and the
files. `BitInv`, `UnsetInv` and `StatusPinInv` follow the `pg_log` page, of which memory,
copy and disk may show three different states, and `SoftInv` the soft commits on it. The
refinement maps `durable` to the commits in `pg_log` on disk that can be recovered; every
step but the write of `pg_log` leaves that set alone. `GroupLog_proofs` has the invariant
and the first half of a write group, `GroupCommit_proofs` the second half, crash and
restart, and the theorems.

**LockTable.** Neither property is inductive. `HASH_REMOVE` looks at two counters, not
at the threads; `TableInv` therefore gives each thread a claim on `lock->refs` (what it
may still give back with `HASH_FIND`) or a share in `lock->removing`, and says that the
counters cover the sums. `ThreadInv` ties the place of a thread to its holder and holds;
a sleeper that another thread's walk granted the lock is still at the same place, and
only its absence from the queue says that its claim became a hold. `LockAcquire` and the
walks go by the counters of the lock, not by the holders: `CountsInv` says that the
counters are exact as long as nobody was dequeued twice, and everything that needs them is
proved under that condition; what is said of the entry and its references is not, and so
`EntryKeptForUsers` holds in either build. With `Asserts` the condition always holds. The
module begins
with the lemmas about operators: the sums of holders, and what the walks of
`ThreadLockWakeup` (it grants no mode in conflict with a holder or with an earlier grant
of the same walk), `ThreadEnqueue` and `ThreadDequeue` leave.

**SharedInval and Catalog.** `InvalInv` is `UnreadKept`, every reader between the oldest
and the newest number and these no further apart than the ring, with the types; it is
inductive. `JoinInv` says that a connection of `Catalog` that runs, and the DBWriter,
are readers of the queue and send only its messages, which makes every step of the
composed system a step of the queue.

`CatalogFresh` takes the cache, the ring and the locks together. `CatInv` says of each
cache entry that it shows what its thread sees, or that a message about it is in the ring
and unread by the thread, or that another thread has committed the change and has yet to
send the message (`Fresh`); that such a thread still holds AccessExclusive (`Client`); and
that a thread that works under a lock it waited for has read the ring to its end
(`ReadInv`). For such a thread the second case is out because it has read everything, the
third because its own lock conflicts with that of the sender. Two facts about the locks
are used: conflicting modes are not held together (`AssertedHoldersCompatible`, hence the
assumption), and a thread is given a mode only while
it asks for it (`HoldsChange`), so that nobody comes to rely on the ring by a step of
somebody else. `UsesLocks` shows that `Catalog` implements `LockSpec`; the theorems of
`LockTable_proofs` are then taken over through the instance `Locks`, whose definitions
`SameOperators` and `SameStep` show to be those of `LockTable`.

**DelegatedScan.** `ScanInv` describes the tuples of a scan as one run of consecutive
numbers cut into what the executor got, what its marker still holds, what lies in the
hand-over, what the helper has collected and what the heap scan returns next (`Content`),
with the flags of both sides. Once the helper has dropped the scan (`Lost`), any of the
pointers that it left may be `Freed` (`Right`), and the mark that would end the scan is no
longer set, which is why no end is reported after a freed pointer. `StopInv` adds, for the helpers, what each `DolState` says
of the helper's place and of a signal on its way, and how far `CancelDolHelpers` has
come. Its step from one state to the next uses both invariants: a `Delegate` is freed when
its helper has said that it is done, which is a fact about the hand-over.

The proofs have one lemma per action or group of actions that change the same
variables, frame lemmas for those that leave an invariant's variables alone, and lemmas
about the operators (`AdvanceBufferIO`, runs of sequences, the minimum of positions,
sums and walks, log files).

Only model-checked: everything about `WriteGroup` (its waits, time-outs and assertions)
and `BufferPool`, for which no inductive invariant has been worked out; the settings of
`GroupCommit` outside `SafeSettings`, where the properties fail; and all liveness
properties (`FetchCompletes`, `CommitAnswered`, `RequestsAnswered`, `ShutdownCompletes`,
`ExecutorReturns`, `StopReturns`, `HelpersJoined`), because fairness is out of the proof
system's reach. Induction theorems that take an operator are, too. The sums and walks of
`LockTable` are folds over finite sets; `SubsetInduction` in `LockTable_proofs` stands in
for the missing induction, by the least cardinality of a subset that would fail.

## 5. Abstractions and limits

- Mutex-protected sections are single steps; unprotected reads and writes
  (`buffer_generation`, `log_group`, `currstate` of the sync group, the slots of threads
  under a scan) are steps of their own. A backend's change of a page is one step; torn
  shadow copies are not modelled.
- Integers do not wrap: transaction ids are 64 bits wide and `generation` is a `long`.
  Message numbers of the invalidation queue are lowered as the code lowers them.
- A file keeps, loses or tears every block that was not synced; what `fsync` covered is
  kept. I/O errors are left out, but for failed reads of `pg_variable` and of a buffer.
- `ShadowLog`: the replay of a segment is one step, and images are not compressed
  (`compress_log` is off by default).
- `WriteGroup`: the writer has the mutex of the first group from the start, where
  `DBWriter` waits for the first time without having locked it. `CleanupWriteGroup` is one
  step, since every backend is kept out of the group. The branch of a request made by the
  DBWriter itself is left out.
- `WriteGroup` assumes `0 < wait_timeout <= sync_timeout` (defaults 400 and 5000).
- `Snapshot`: one row on one page. SELECT FOR UPDATE, DELETE, `XACT_USER` and
  `SnapshotAny` are left out. The crash test of a reader or updater is two steps with the
  slots in between, that of a vacuum, which holds the page, is one.
- `LockTable`: one lock. The returns of `LockRelease` for a lock that is not found or not
  held are not reached by the callers. `proc.c` with its deadlock detection is not part of the build.
- `Catalog`: one relation with a descriptor and a catalogue tuple; building a descriptor
  is one step. `InvalidateAllCaches`, the answer to a reset flag, is called from nowhere.
- `BufferPool`: the pool is warm and does not grow. A write group is the set of frames
  registered for a block.
- `DelegatedScan`: rescans are left out, and the use of the scan's arguments after
  `DelegatedDone` is the subject of `DelegatedScan_args.cfg` only: the other properties go
  on as if it did no harm. An `elog` stops the helpers twice, itself and in
  `AbortTransaction`, with nothing that could start one in between; the model does it once.
- `DelegatedScan`: a command goes to any waiting helper or the first free slot; a helper
  that dropped a scan is not reused before the scan ends; spurious wake-ups, a
  connection with no helper slot left and a helper that finds no room in the
  invalidation queue are left out.

## 6. Not modelled

- `RequestSnapshot` (the copy of a running database) and `FlushAllDirtyBuffers(false)`.
- `SetTransactionLowWaterMark`, `VacuumTransactionLog` and the status cache of
  `transam.c`: they need `pg_log` as a file of blocks, and run with the server to
  themselves.
- Transaction-block states (BEGIN, END, ABORT): sequential.
- The job list of the pool sweep (`env/poolsweep.c`), index clean-up, truncation and the
  free-space map: the vacuum itself is part of `Snapshot`.
- Deadlocks over several locks: nothing in the build detects them, so there is no
  behaviour to state but that the threads wait until cancelled.
- The delegated index scan, which hands over in the same way as the delegated
  sequential scan.
- Heap and page layout, index access methods, storage-manager switch and virtual file
  descriptors, parser, optimizer, executor and catalogue commands, ports and utilities,
  the Java bindings: inherited sequential code, data layout or thin bindings. They are
  most of the repository's lines and have no shared state of their own that a model
  could interleave; the few places where they meet it are actions of the modules above.
