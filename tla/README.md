# Apache Cloudberry: verification of the distributed core

TLA+ models of the parts of Cloudberry that make a cluster of PostgreSQL
instances behave as one database: distributed commit and its recovery,
distributed transaction ids and snapshots, the order of writers, the global
deadlock detector, the fault tolerance service and the UDP interconnect. TLC
checks them on small instances; TLAPS proves the theorems of section 4 for every
instance. Paths below are relative to `src/src/backend` unless they begin with
`contrib`.

## 1. The system

A cluster has one coordinator and many segments. A client's session runs in a
backend of the coordinator, the QD; it works through QEs, backends on the
segments, that form the session's gangs. One writer gang per session changes
data. The components:

| Component | State it keeps | Operations | Talks to |
|---|---|---|---|
| Distributed transaction manager (`cdb/cdbtm.c`) | `MyTmGxact` (gxid, `includeInCkpt`), `MyTmGxactLocal` (state, `dtxSegments`, `writerGangLost`); in a QE the DTX context | activate, prepare, one-phase commit, commit prepared, forget, rollback, retries; in a QE `performDtxProtocolCommand` | dispatcher, log, process array |
| DTX recovery process (`cdb/cdbdtxrecovery.c`) | `shmCommittedGxidArray`, `shmDtmStarted`, the table of in-doubt transactions | `recoverTM`, the two passes of `recoverInDoubtTransactions`, the orphan check, redo routines | segments (own gang), process array, log |
| Coordinator log and checkpoints (`access/transam/xact.c`, `xlog.c`, `storage/ipc/procarray.c`) | WAL, control file, `delayChkpt` | commit and forget record, `CreateCheckPoint` with `getDtxCheckPointInfo`, replay | all of the above |
| Prepared transactions of a segment (`access/transam/twophase.c`) | prepared parts, durable | prepare, finish | QEs |
| Gxids and distributed snapshots (`cdb/cdbtm.c`, `storage/ipc/procarray.c`, `cdb/cdbdistributedsnapshot.c`, `cdb/cdblocaldistribxact.c`) | `nextGxid`, `GxidCount`, `latestCompletedGxid`, snapshots | `bumpGxid`, `CreateDistributedSnapshot`, mapping to local xids | log, checkpoint, visibility |
| Distributed log (`access/transam/distributedlog.c`) | local xid to gxid | set committed, truncate | snapshots |
| Dispatcher and gangs (`cdb/dispatcher`, `cdb/cdbutil.c`) | idle QEs, dispatch results | create, recycle and destroy gangs, dispatch and wait | QEs, FTS |
| Global deadlock detector (`utils/gdd`) | wait graphs of one round | collect, reduce, choose victims, cancel | segments, backends |
| Fault tolerance service (`fts`) | per-segment probe state, `gp_segment_configuration` | probe, syncrep off, promote | primaries, mirrors, dispatcher |
| Interconnect (`contrib/interconnect`) | sender windows, receive queues | send, ack, retransmit, tear down | executors |
| Resource groups (`utils/resgroup`) | slots, wait queues | assign, wait, wake, bypass, drop | backends |
| Shared snapshot (`utils/time/sharedsnapshot.c`), endpoints (`cdb/endpoint`), synchronous replication (`replication/syncrep.c`) | slots, cursors, wait queues | | |
| Planner, ORCA, executor, storage formats | | sequential | |

What is hard, and what makes each part correct:

* **Commit** is a two-phase commit over connections that break under a command,
  with QEs that outlive their QD and run a command late. Correct: the segments
  agree, the client's answer agrees with them, nothing stays prepared for ever.
* **Recovery** decides from the coordinator's log. The checkpointer cuts that
  log while backends commit. Correct: no commit record is lost or invented, and
  no committed transaction is taken for an orphan.
* **Gxids and snapshots**: ids must not be reused after a crash; a snapshot must
  not see half of a distributed commit.
* **Deadlock detector**: the graph is gathered piecewise; a victim must be part
  of a deadlock, and every deadlock must lose a member.
* **FTS**: never promote a mirror that was not in sync, never have two primaries.
* **Interconnect**: exactly-once, in-order delivery over UDP with a bounded window.
* **Resource groups**: never more slots than the limit, nobody waits for ever.

`PROJECT.json` lists the components with their status and, as hazards, the lines
where each of these can go wrong.

## 2. Modules

| Module | What it is |
|---|---|
| `DtxLog` | The coordinator's log, checkpointer, crash, replay, and the log side of commit and recovery |
| `Dtm` | The whole commit protocol: QDs, QEs, messages, failures, recovery process. Extends `DtxLog` |
| `AtomicCommit` | The promise of `Dtm`, in terms of parts, decisions and answers only |
| `GxidGen` | Batches of distributed transaction ids, their log records, checkpoints and restarts |
| `GxactOrder` | Writers of a row: the order on the segments and the order of their ends on the coordinator |
| `DistSnapshot` | Distributed snapshots, local snapshots, the distributed log and visibility |
| `GddGraph` | Wait graphs, the reduction rules of the detector, and what a deadlock is |
| `GddReduce` | The detector's algorithm on an arbitrary graph, step by step. Extends `GddGraph` |
| `Gdd` | The detector's rounds among running transactions. Extends `GddGraph` |
| `Fts` | The prober, a primary-mirror pair, its handlers and synchronous replication |
| `IcUdp` | One connection of the UDP interconnect over a network that loses and reorders |
| `DtmInvariant`, `DtmProofs` | Proofs about `DtxLog` and `Dtm`; the inductive invariant of `Dtm` |
| `GxidGenProofs`, `GxactOrderProofs`, `DistSnapshotProofs`, `GddReduceProofs`, `GddProofs`, `FtsProofs`, `IcUdpProofs` | Proofs about `GxidGen`, `GxactOrder`, `DistSnapshot`, `GddReduce`, `Gdd`, `Fts` and `IcUdp` |
| `MC...` | Instances for TLC: symmetry sets and the module a run names |

Operators under a comment `Fault:` or "Plausible fault" are deliberately wrong
variants of the definition that follows them. No specification uses them.
Replacing the definition by its variant must make TLC report the property named
in `PROJECT.json` ("mutants"): this is how the properties are tested.

### DtxLog

An LSN is a record number; `wal` holds the commit and forget records, `ckpt` the
checkpoint the control file names: its REDO pointer and its list of committed
transactions (`TMGXACT_CHECKPOINT`). Everything after `flushLsn` may be lost in
a crash, and `Crash` cuts the log anywhere from there on.

| Action | Code |
|---|---|
| `SetDelayChkpt`, `insertingDistributedCommitted`, `insertedDistributedCommitted`, `FlushCommitRecord` | `RecordTransactionCommit()` and `XactLogCommitRecord()` in steps another process can observe |
| `RecordDistributedForgetCommitted`, `ClearIncludeInCkpt` | `doInsertForgetCommitted()`; the forget record is not flushed |
| `XLogBackgroundFlush` | the WAL writer or anybody else's flush |
| `CkptSetRedo`, `CkptGetDelaying`, `CkptWaited`, `getDtxCheckPointInfo`, `CkptWrite` | `CreateCheckPoint()` in its order |
| `Crash`, `StartupXLOG` | loss of shared memory; `ReadCheckpointRecord()`, the redo routines and the end-of-recovery checkpoint. `ReplayFits` is the FATAL of `redoDistributedCommitRecord()` |
| `RecoveryForget`, `RecoveryClear`, `RecoveryRestart` | `recoverInDoubtTransactions()` and its FATAL |

`SetDelayChkpt` admits at most `MaxConnections` transactions at a time: a QD has one
transaction in commit.

### Dtm

One record per gxid stands for the QD that runs it and for its writer gang.
`msgs` are commands that a QE has received and not yet run. A message is `live`
while its sender waits for the answer; `LoseConnection` ends the wait and leaves
the message behind, to be run at any later time (or never, `AbandonCommand`).
`ResetAllGangs` abandons the QEs. `local[g][s]` is the part of g on segment s,
`qe[g][s]` the DTX context of the gang's QE there.

Each QD action is one function of `cdbtm.c` up to its next wait: for example
`doPrepareTransaction` dispatches, `PrepareSucceeded` continues when all answers
are in. The steps that write the log are conjoined with the action of `DtxLog`
they perform, so every `Dtm` step is a `DtxLog` step or leaves the log alone.
Errors start the rollback where `AbortTransaction()` can be entered
(`Rollbackable`); FATAL in a prepared state is a PANIC (`elog.c`) and is part of
`CoordinatorCrash`, as is the PANIC after `dtx_phase2_retry_second`. The retry loops
may stop at any failed attempt, since that setting may be 0.

A statement is abstracted to "segment s takes part, and writes or not".
`FinishPreparedTransaction()` may fail (`FinishPreparedError`), because two QEs can hold
the same command at once (`LockGXact`). The recovery process gathers the prepared
transactions one segment at a time, so that the result is stale when it is used.
The minimum age of an orphan (`gp_dtx_recovery_prepared_period`) is left out: the
model allows more than the code.

History variables: `told` (the answer to the client) and `onePhase`.

### GxidGen

`nextGxid` and `GxidCount` are the batch in shared memory; its end is `nextGxid + GxidCount`.

| Action | Code |
|---|---|
| `StartActivate`, `TestCount`, `TakeGxid`, `EndGxact` | `currentDtxActivate()` (`cdb/cdbtm.c`): the recovery process is woken when the batch runs low; in the loop the count is tested without a lock, with `bumpGxid()` when it is 0, and tested again under the spinlock |
| `bumpGxid` | `BumpBlocked`, `BumpWaited`, `BumpLimit`, `PutNextGxid`, `FlushNextGxid`, `BumpCount`: the conditional lock, the second test, the record, its flush, the growth of the count, each visible to others |
| `DtxRecoveryWakes`, `ResetDtxRecoveryEvent` | the recovery process prefetches when woken |
| `CkptSetRedo`, `CkptReadGxid`, `CkptWrite` | the checkpointer; it reads the counter under `GxidBumpLock` |
| `Crash`, `ShutdownCheckpoint`, `StartupXLOG` | a crash cuts the log anywhere after the flush pointer; a shutdown gives the unused part of the batch up |

A backend that finds `GxidBumpLock` taken waits for it and returns without the lock
(`LWLockAcquireOrWait`). The ids handed out are kept in the history variable `handed`.

### GxactOrder

A QE that finds a row locked looks the updater up (`FindBlocker`), reports its gxid into
`waitGxids` and sleeps (`ReportWait`, `XactLockTableWait()` in `storage/lmgr/lmgr.c`), and
writes when the updater has ended (`EndWait`, `WriteRow`). The updater may have moved from
the process array to the distributed log in between, which
`LocalXidGetDistributedXid` distinguishes. With its commit the QE sends `waitGxids` to the
QD; the QD gathers the lists of all results (`GatherWaits`), waits for the
lock of each gxid (`GxactLockTableWait`), leaves the process array
(`ProcArrayEndTransaction`) and releases its own lock (`ReleaseLocks`). One-phase and
two-phase commits, failed and retried dispatches, and the width of the int that
carries a gxid are modelled. The commit protocol itself is the subject of `Dtm`.

### DistSnapshot

`TakeSnapshot` is the QD's `GetSnapshotData()` with `CreateDistributedSnapshot()`
(`storage/ipc/procarray.c`), refused while the recovery process still holds commits. The
distributed snapshot reaches the segments of the statement (`Dispatched`) at any later time: `GetSnapshotData(t, s)` makes
the local snapshot under `ProcArrayLock`, `FinishSnapshot` computes `globalxmin` and advances
`oldestXmin` of the distributed log. A commit becomes visible on a segment in three steps:
distributed log, `pg_xact`, process array. `CommittedTest` is
`DistributedSnapshotWithLocalMapping_CommittedTest()`, `Sees` the visibility check on top
of it, `SetIgnoreHint` the hint that makes later readers skip the distributed snapshot.

The QD commits in two ways (`prepareDtxTransaction()`). After a prepare on all segments it
records the commit (`RecordCommit`, state `committing`); after a crash this commit is left to the
recovery process (`recovering`), which finishes it (`RecoverCommitted`) before new snapshots
are made. Or it notifies in one phase, without prepare and without record
(`doNotifyingOnePhaseCommit`): when the notification fails (`FailOnePhase`) or the coordinator
crashes (`CrashAndStartup`), the gxact has ended for the coordinator (`lost`), nothing holds
snapshots up, and each QE commits or aborts by itself at any later time. The QEs of a transaction
that was rolled back abort late too (`AbortOnSegment`). A transaction whose QD has ended
no longer uses its snapshots. History: `due`, the transactions a snapshot has to see, and
`unsure`, the one-phase commits given up by their QDs whose segments had not come to one end when
the snapshot was taken.

### GddGraph, GddReduce, Gdd

An edge is `<<segment, waiter, holder, solid>>`. `Reducible` is what `gddVertReduce()` deletes
at one visit of a vertex. `Deadlocked` and `Core` say what a deadlock is without
reference to the algorithm. `GddReduce` builds any graph, then visits vertices in any
order until nothing is deleted (the code's order depends on the order of the
answers), removes the youngest vertex, and goes on.

`Gdd` puts the detector beside transactions: one row per segment, with its tuple lock
and the updater's transaction lock, and one relation lock on the coordinator with its
queue. The detector reads segment after segment (`CollectSegment`, `CollectCoord`), keeps the
edges of transactions that still run (`buildWaitGraph`), looks up the backend of each
victim (`GetPidByGxid`) and signals it (`Signal`), while the others go on. `SegmentRows` and
`CoordRows` are what `gp_dist_wait_status()` reports, which is less than the true waits
`WaitEdges`.

### Fts

`cfg` is the pair in `gp_segment_configuration`. The prober goes through the states of
`FtsMessageState` (`fts/ftsprobe.c`): `ftsSend`, `ftsReceive`, `ftsCheckTimeout`, the retries, and
`processResponse()` as `RecordStatus`, `MirrorGone`, `FailOver`, `ResendPromote` and so on. A
request is a handler on the segment (`fts/ftsmessagehandler.c`): `live` while FTS waits for its
answer, and run later or not at all when FTS has given it up. `conf` is the
configuration file with `synchronous_standby_names`, `sync` the flag in shared memory that the
checkpointer copies from it (`UpdateSyncStandbysDefined`); a commit waits in `waits` while
`sync` is set and is released by the mirror's flush. Segments crash and restart, WAL senders
connect, catch up and break, FTS restarts. A mirror reaches archive recovery some time after its
start (`StartReplay`); until then, and as a primary, it ignores a PROMOTE (`HandlePromote`). History: `acked`;
`late`, the file of a segment is empty because of a request that FTS had given up, or
since before the pair was recorded as in sync; and `exposed`, the commits that `NoLostCommit` excepts: not
flushed yet by the mirror when the pair is recorded as in sync, or acknowledged by the primary alone
while the mirror may take over and the file is `late`, or on and not reloaded yet. A commit that
the primary acknowledges alone for any other reason has to be with the mirror when it takes over.

### IcUdp

The sender fills buffers, sends as much as the capacity allows, waits for acks and
resends (`SendChunk`, `GetBuffer`, `SendEOS`, `Expire`, `StatusQuery`, `HandleAck` of
`contrib/interconnect/udp/ic_udpifc.c`). The receiver has a receive thread (`Receive`,
`ReceiveQuery`: `handleDataPacket()` with its ring of `Cap` slots, the cache for packets that
come before the set-up, the answer to packets of a connection already torn down) and a
main thread (`RecvTupleChunk`, `ProcessChunks`, `PutRxBuffer`, `SendStopMessage`, `Teardown`).
Packets and acks are sets: delivery in any order, and a resent packet may arrive
at any time. A resend happens at any time (`Expire`), so no timer is modelled.
The report of a gap names the first `MaxSeqs` missing packets (`Lost`). `disorder` are the static variables of `handleAckForDisorderPkt()`, which survive from one
connection to the next (`StaleSeq`).

## 3. Runs

| Run | Instance | Shows |
|---|---|---|
| `log_commit` | 2 gxids, 2 checkpoints, 2 crashes, 1 recovery restart | `LogTypeOK`, `CommitNotLost`, `NoPhantomCommit`, `PendingCommitKept` |
| `log_overflow` | 4 gxids on 2 connections, array of 3 | finding: `ReplayNeverOverflows` is violated |
| `dtm_failures` | 1 gxid, 2 segments, 1 crash, 1 checkpoint, 2 faults | `TypeOK`, `Atomicity`, `AnswerHolds`, `ContextAccepted`, `NoAbortOfCommitted`, `InProgressUntilCommitted`, `DtmInv`, `ImplementsAtomicCommit` |
| `dtm_live` | 1 gxid, 2 segments, 1 crash, 1 fault, no symmetry | `InDoubtResolved`, `CommitEnds` |
| `gxid_unique` | 2 backends and the recovery process, batches of 2, 1 checkpoint, 1 crash or shutdown | `TypeOK`, `RestartAbove`, `GxidUnique`, `ActivateEnds` |
| `gxact_order` | 2 transactions, 2 segments, gxids 3 and 4 in an int of 3 bits (`SignBit = 4`), 2 failed dispatches | `WaitedOrder`, `NoWaitCycle` |
| `snapshot_exact` | a writer on 2 segments, one on the first, which reads too, a reader there, 2 snapshots, 1 crash | `SnapshotExact` |
| `gdd_reduce` | every graph of up to 5 edges among 3 transactions on 2 segments, every order | `NoFalseEdge`, `NothingMissed`, `ReduceKeepsCore`, `VictimDeadlocked`, `Broken` |
| `gdd_round` | 3 backends, coordinator and 1 segment, exclusive locks | `VictimRuns`, `NoFalseAlarm`, `DeadlockBroken` |
| `gdd_faults` | 2 backends; shared and upgraded locks, savepoints, cancels, slow aborts | `VisibleDeadlockBroken` |
| `fts` | 1 pair, 1 retry, 1 commit, 2 faults | `NoLostCommit`, `ResendSound`, `PromotionEnds`, `CommitsUnblocked`, `SyncRepRestored` |
| `ic_udp` | 4 packets, 3 slots, 3 send buffers, reports of 1 packet, 1 loss | `InOrder`, `NothingLost`, `NoOverrun`, `SenderEnds`, `ReceiverEnds` |

The type invariants of the other modules (`TypeOK`, `ReduceTypeOK`) document the
values of the variables and hold on the same instances; the runs spend their time on
the other properties.

Deadlock is checked in the `log_`, `dtm_` and `fts` runs: `MaxRecRestart` is at least `MaxFault`
where faults can make the recovery process fail, so the bounds never stop the
system. The other runs end: all transactions have run, all packets have been
received, the graph is empty, or no gxid is left. There the liveness properties, or
for `snapshot_exact` nothing, say that the end is not reached too early.

*Bounds.* Two segments are needed for disagreement and show it; the protocols treat
segments independently.

* `dtm_failures`: two faults allow a broken connection and a second failure of the
  retry, or a zombie command and a segment restart. One crash with faults before
  and after it exercises every recovery path; two crashes matter to the log alone
  (a crash during recovery from a crash), which `log_commit` has. One transaction is
  enough for every property but those about another one's flush; these are
  proved for any number.
* `log_commit`: a checkpoint must overlap a commit; two show that a checkpoint never
  relies on an older one.
* `gxid_unique`: ids up to 4 with batches of 2 give a bump by a backend and one by the
  recovery process, with the checkpoint and the crash between any two of their
  steps; `GxidUnique` is proved for all bounds.
* `gxact_order`: the second gxid does not fit in the int, the first does.
* `snapshot_exact`: the wide transaction may have committed on the first segment and not on the second, because of a
  late QE or a crash, when a snapshot is taken that must not see it. Of two snapshots one stays in use while
  the other, taken later, moves `oldestXmin` past the writer (when `xminDistributedSnapshot` is not recorded, TLC
  shows the older one change its mind). The second writer is there for xids and gxids in different orders,
  without which no hint is set. Reading on one segment is enough: visibility is decided on each
  segment by itself, with what is due taken from the coordinator. The run starts after a first transaction
  (`FirstGxid = 2`), since the first after a start-up is excepted.
* `gdd_reduce`: a deadlock over two segments with a bystander needs three vertices; five
  edges leave room for parallel solid and dotted ones. The first three properties
  have proofs.
* `gdd_round`, `gdd_faults`: gxids up to 3, so a backend runs another transaction after a
  victim has ended in the two-backend run.
* `fts`: two faults are a failure during the handling of the first one. `NoLostCommit` and `ResendSound` are
  proved for any number.
* `ic_udp`: four packets through three slots reuse a slot, so that a late copy of packet 1
  competes with packet 4; `MaxAcks` bounds the acks in flight when a packet is delivered. It is 1, which
  keeps the state graph small enough for the liveness properties and leaves out a report of a gap that is handled
  after the missing packet has arrived and been acknowledged; the theorems cover it. `MaxSeqs` is 4
  in the code; it is 1 here, so that reports are cut although the queue has only three slots.

*Symmetry* is used in safety runs only.

*Fairness.* All the processes below are scheduled by the operating system and
restarted by the postmaster; their waits have a time-out or a wake-up. Nothing is
assumed of users, of checkpoints, or of failures other than that they end (`MaxFault`,
`MaxCrash`, `MaxLoss`): with failures for ever the retry loops go on for ever too.

* `dtm_live`: each QD outside of `ACTIVE_DISTRIBUTED` (it waits for its user there), each QE
  with a command or without client, the recovery process, the restart of the coordinator.
* `gxid_unique`: each step of a backend that wants a gxid, the end of transactions, each
  step of a bump, the recovery process, the start-up.
* `gxact_order`: the segments' commits and the steps of the QD once the commit is recorded.
* `gdd_reduce`, `gdd_round`, `gdd_faults`: the detector, the progress of each backend that
  ends or can have the row, and the lock manager's grants. A transaction need not end by itself.
* `fts`: FTS, handlers FTS waits for, a connected WAL sender, the checkpointer's reload,
  the start of replay and the end of a promotion. Nobody need restart a segment, recover it or connect a mirror.
* `ic_udp`: the steps of the sender and the receiver's two threads, delivery of each packet
  and ack that is not lost, each retransmission timer, the set-up and the end of the slice.

### Finding

`log_overflow`. The list in a checkpoint record can name transactions whose commit
records lie after REDO. The replay loads the list first and then meets the commits of
older transactions before it meets their forget records, so it can need up to twice
the number of connections. `redoDistributedCommitRecord()` then raises FATAL ("It should
not happen"). All connections have to be in their second phase twice between REDO
and the collection of the list.

### Known limits of the properties

Each of these is an exception written into a property or a constant of a run. Without
the exception TLC shows the behaviour, and the code has it too.

| Property | Exception | Code |
|---|---|---|
| `WaitedOrder` | `p.second \notin failed`: the retry of a failed commit dispatch goes to QEs that do not know whom the lost ones waited for | `cdb/cdbtm.c:1310` |
| `WaitedOrder` | `Fits`: a gxid of 2^31 or more does not survive the list of ints | `storage/lmgr/lmgr.c:704`, `cdb/cdbtm.c:1360` |
| `WaitedOrder` | `Waited` excludes "prepared": a prepared transaction has its xid in a process array entry without gxid and no entry in the distributed log, so nothing is reported | `storage/ipc/procarray.c:6265` |
| `WaitedOrder` | speaks of those who waited only: an update of a row whose updater has just committed does not wait, so reports nobody | `access/heap/heapam.c:3643` |
| `SnapshotExact` | `gxid[u] # startGxid`: start-up sets `latestCompletedGxid` to `nextGxid`, one more than any id handed out, so a snapshot taken before the first transaction has its gxid counts that transaction as completed | `access/transam/xlog.c:8443` |
| `SnapshotExact` | `u \notin unsure[t]`: after a failed notification of a one-phase commit, or a crash in it, the coordinator no longer knows the gxid while a QE may still commit, so a snapshot taken in between sees the transaction appear | `cdb/cdbtm.c:549`, `:944` |
| `NoFalseAlarm` | `Savepoints = FALSE`: a lock that is called held until the end of the transaction is released by a rollback to a savepoint | `utils/gdd/gddfuncs.c:58` |
| `VictimRuns` | `UserCancels = FALSE`: the victim can end for another reason between the check and the lookup, against the `Assert(pid > 0)` | `utils/gdd/gddbackend.c:411` |
| `VictimRuns`, `NoFalseAlarm` | `SlowAbort = FALSE`: when the abort of a victim outlasts `gp_global_deadlock_detector_period`, its QEs still wait when the next round reads them, and it is taken for a victim again; by the time of the lookup or the signal its transaction has ended, or its backend runs another one | `utils/gdd/gddbackend.c:180` |
| `DeadlockBroken` | one exclusive mode, no upgrades: a waiter that already holds the lock counts as granted, and a wait behind another waiter is not reported | `utils/gdd/gddfuncs.c:46`, `:242` |
| `Broken` | ids fit in the int of `gddCtxGetMaxVid()`; with `IntBits = 2` the youngest vertex is not found and the loop does not end | `utils/gdd/gdddetector.c:255` |
| `NoLostCommit` | `exposed` by `updateConfiguration`: a WAL sender is "streaming" once all is sent, not flushed, so the pair can be recorded as in sync while the mirror lacks a commit that the primary has acknowledged alone | `replication/walsender.c:2441` |
| `NoLostCommit` | `exposed` by `AckAlone` with `conf`: the probe answers in sync when the file is written, and the primary acknowledges alone until the checkpointer has reloaded it | `replication/gp_replication.c:601` |
| `NoLostCommit` | `exposed` by `AckAlone` with `late`: a SYNCREP_OFF (or PROMOTE) that FTS had given up empties the file of a pair that is recorded as in sync by then, or the file was empty and its flag still set when the pair was so recorded | `fts/ftsprobe.c:809`, `replication/gp_replication.c:601` |

Two more observations. A comment in `RecordTransactionCommit()` (`access/transam/xact.c:1640`)
says that the checkpointer holds off obtaining the REDO pointer while a backend is
between its commit record and its state change. It does not: REDO is taken first
(`xlog.c:9601`) and only the list of committed transactions waits; `CommitNotLost` shows that
this is enough. And the ERROR "global xmin is higher than transaction xmin"
(`procarray.c:3249`) can be reached, because processes without xid are skipped before
their xmin is looked at; in `FinishSnapshot` the transaction is then rolled back.

## 4. Proofs

The first part of `DtmProofs` proves, for every set of gxids and all bounds, that `CommitNotLost`,
`NoPhantomCommit`, `PendingCommitKept` and `LogTypeOK` are invariants of `LogSpec`. The
only assumption is `LogAssumption` (the bounds are natural numbers).

None of the three is inductive. `LogInv` adds

* `LsnOrder`: REDO is not after the flush pointer, the flush pointer not after the
  end, and nothing is in shared memory while the coordinator is down;
* `MemoryLogged`: what shared memory claims is in the log. `includeInCkpt` implies a
  commit record, the array of the recovery process only durable ones;
* `CkptComplete`: a commit record before REDO is listed by the checkpoint or durably
  forgotten, and what is listed is durable;
* `RunningCkptComplete`: the same for the checkpoint in the making, where "listed" is
  what it would list if it went on now (`RunningCkptSources`): once the delaying
  backends are known, each commit before REDO belongs to one that is waited for,
  to one with `includeInCkpt`, or to the recovery process.

The argument: `CkptGetDelaying` comes after `CkptSetRedo`, so any backend that had
inserted its record before REDO is either still delaying and waited for, or has
set `includeInCkpt`; this flag is cleared only after the forget record is in the log;
the checkpoint record is inserted after all of these records, so its flush makes
them durable. `CommitNotLost` follows from `CkptComplete`, since the replay reads the
rest of the log.

Each conjunct has a lemma `...Step` with one case per action it depends on.

The rest of `DtmProofs` proves, for every set of gxids,
every finite non-empty set of segments and all bounds (`DtmAssumption`):

| Theorem | Statement |
|---|---|
| `ImplementsLog`, `DtmCommitNeverLost` | `Spec => LogSpec`, so the theorems about the log hold of the whole system |
| `TypeCorrect` | `Spec => []TypeOK` |
| `DtmInvariance` | `Spec => []DtmInv` |
| `AtomicCommitment` | `Spec => []Atomicity` |
| `AnswerAlwaysHolds` | `Spec => []AnswerHolds` |
| `CommittedNeverAborted` | `Spec => []NoAbortOfCommitted` |
| `CommittedStaysInProgress` | `Spec => []InProgressUntilCommitted` |
| `RefinesAtomicCommit` | `Spec => ImplementsAtomicCommit` |
| `ContextAlwaysAccepted` | `Spec => []ContextAccepted` |

`Atomicity` says nothing of why a late command is harmless, so it is far from
inductive. `DtmInv` relates the state of a backend to everything else:

* `StateLogged`: the commit record is in the log exactly in the committing states,
  and it is durable once `delayChkpt` is cleared, hence before any segment is told;
* `StatePrepared`: with a commit record all segments have prepared; a segment no
  longer waited for, no failure being noted, has done what the command asked;
  a forget record means all have committed. The last needs the same for the
  broadcasts of the recovery process;
* `Outcome`: a segment commits only what is durably committed or chose one phase;
  one phase means at most one writer (`OneWriter`, the cardinality test of
  `prepareDtxTransaction()`);
* `LiveCommands`, `PendingSent`: the sender of a command that is waited for is still
  in the state in which it sent it, so that an answer is never taken for the
  answer to another command;
* `LateCommands`: a command left in a QE agrees with the decision for ever. For the
  orphan check this is where everything meets: `PendingCommitKept` and the order of
  recovery (`RecoveryOrder`) say that a transaction neither running nor in the
  recovery's array, yet with a commit record, has been forgotten, and
  `StatePrepared` that all its segments have then committed.

Most steps leave most transactions alone. `OtherState` and `OtherLog` say so once, and
each part of the invariant is then shown per transaction: steps of its own backend,
of anybody else, crash. `LocalMoves`, `AnswerMoves`, `RecoveryAnswers` and `Origin` say once
how a part of a transaction changes, what a missing answer means and where a
command comes from.

For the refinement a transaction is decided when its commit record is flushed,
which any backend, the checkpointer or a crash that happens to keep the record
may do, for several transactions at once (`LogDecides`).

`ContextAccepted` is about the receiver of a command, of which `DtmInv` says nothing. `ContextInv` adds

* `GangContext`: the gang is in the context that the next command of its backend needs;
* `OwnCommands`: while a backend waits for its first COMMIT_PREPARED or ABORT_PREPARED, nobody else
  ends the prepared part. A command left behind by an earlier broadcast is in a QE that was
  abandoned, recovery commands are sent only for transactions that nobody runs, and a retry goes
  over a new gang, whose QEs are in no transaction.

It is inductive relative to `DtmInv`.

`GxidGenProofs` proves, for every set of backends, every batch size and all bounds
(`GxidAssumption`), that `TypeOK` and `RestartAbove` are invariants of `Spec` and that
`GxidUnique` holds. `RestartAbove` says where a restart would begin, `GxidUnique` that no step
hands out an id of `handed`; neither is inductive. `GxidInv` adds

* `LsnOrder`, `LimitsGrow`, `LimitsKnown`: after REDO the limits in the log grow with the LSN,
  and none is beyond the batch and the bump that is running;
* `BumpLogged`: at most one process bumps, and past its insert (its flush) the limit it
  is about to use is in the log (durably);
* `RestartReserved`: wherever the log is cut after the flush pointer, the replay begins
  at or above the end of the batch, or above the ids handed out when the
  coordinator is down;
* `CkptReserved`: the same for the checkpoint that is being made;
* `HandedBelow`: what was handed out is below `nextGxid`.

The argument: the record is flushed before the batch grows. The checkpointer reads the
counter under `GxidBumpLock` and after it has fixed REDO, so the counter is either the end of
the batch or the record of the bump comes after REDO. The replay takes the last
limit, not the largest, which is the same since limits grow after REDO. Before REDO
they need not: a shutdown gives the rest of a batch back, and its checkpoint is
after all the limits that were never used up.

`GddReduceProofs` proves for every set of segments, transactions and edges:

| Theorem | Statement |
|---|---|
| `ReductionKeepsDeadlocks` | `ReduceSpec => ReduceKeepsCore` |
| `ReductionMissesNothing` | `ReduceSpec => NothingMissed` |
| `ReductionExact` | `ReduceSpec => []NoFalseEdge` |
| `AnyVictimIsDeadlocked` | in a fully reduced graph every vertex with an edge is deadlocked |
| `VictimsAreDeadlocked` | `ReduceSpec => VictimDeadlocked`, if `AsInt(v) = v` for all ids |

A closed set of edges (one in which every holder waits where it must, and every
waiter is waited for) contains no edge that a visit deletes, as degrees only grow
with the graph (`ClosedIrreducible`), so every visit keeps the core. A set that merely
persists can lose the edges of a waiter nobody waits for, and what is left still
persists (`VisitKeepsWait`). When nothing can be deleted the graph is itself closed
(`IrreducibleIsCore`). `NothingMissed` also needs that a vertex once taken for a victim has no edge
(`VictimsGone`). Only `VictimDeadlocked` needs that the rows are finitely many: the victim is the largest
id, which exists because the ids of the graph have a bound (`Bounded`, kept by every step). Its hypothesis
on `AsInt` is the one of the table above (`Broken`): an id that does not fit the int is no vertex at all.

`GddProofs` proves `DetectorInvariance`, `VictimAlwaysRuns` (`Spec => []VictimRuns`) and
`DetectorRaisesNoFalseAlarm` (`Spec => NoFalseAlarm`) for any backends, segments and transactions and both lock
modes, upgrades included. The hypothesis `Undisturbed` is the exceptions of the table above: no rollback to a
savepoint, no cancellation by a user, no abort longer than the detector's sleep, and ids that fit
their int. Each of the first three is needed: when it is dropped TLC shows a violation of one of the two properties.

What the detector reads is never one state: the segments answer at different times, and the coordinator
is read last. The heart of `GddInv` is `RowsInv`. A collected wait that no longer exists is over because of
its holder: the holder ends, or it has got the row that its tuple lock was for (`Over`). Either way the holder
waits for nothing that would keep this wait alive, then or later in the round, so no set of such waits
persists. A deadlock among the collected waits therefore consists of waits that still exist (`Lasting`), for as
long as the detector does not interrupt one of them itself, and `BreakInv` says so of the graph. `VictimInv`
follows the victims from the graph to the signal: each one is in a deadlock that avoids the younger
victims, and these are the ones signalled before it, so it still runs and still waits when its turn comes.
`LockInv` and `XactInv` are what the lock manager and the process array contribute: a backend is queued once,
a queued one does not hold the lock exclusively, a wait ends with its transaction, and a running gxid
belongs to one backend.

`GxactOrderProofs` proves `OrderingInvariance`, `WaitedOrderHolds` (`Spec => []WaitedOrder`) and
`OrderTypeCorrect` for any transactions and segments, and any width of the int that carries a gxid
(`OrderAssumption`). A transaction that waited overwrote the row of the other, which says nothing about
the time between. `OrderingInv` follows the reported gxid: `Tracked` says where it is, in the QE's list
while the transaction is active or prepared there, in the dispatcher's result once that segment has
committed, in the QD's list while it waits, and that its transaction has ended once the wait is over.
`GxidInv` says that the lock on a gxid is held until its only owner has ended, so that taking the lock
means the end. `PhaseInv` bounds the progress on a segment by that on the coordinator: without a failure
no segment commits a transaction that the coordinator aborts.

`DistSnapshotProofs` proves `SnapshotAlwaysExact` (`Spec => []SnapshotExact`) for any finite set of sessions, any
segments, and any number of snapshots and crashes (`SnapshotAssumption`: sessions are dispatched to segments; finiteness is needed because
`latestCompletedGxid` is the largest of the gxids that ended, `NoSnap` is only kept apart from the snapshots).
`SnapshotExact` relates three things that move at their own pace: the distributed snapshot, the local
snapshot taken under it later on each segment, and what a segment has stopped asking the distributed log
about. The parts of `SnapshotInv`:

* `GxidInv`, `PhaseInv`, `XidInv`: what has ended is not after `latestCompletedGxid`, a part on a segment is where
  the coordinator's progress allows it to be, and xids and gxids name one transaction each;
* `LiveInv`: only a running transaction holds a snapshot, nobody does while commits wait for recovery, and the
  holder's `xmin` is published as long as it does;
* `KnownInv`: what a distributed snapshot says of a gxid is what `due` says: a transaction that it does not take for
  running is over on the coordinator, and the snapshot has to see it, or no segment will ever commit it (`Dead`), or
  it is in `unsure` (`Settled`). This is where `startGxid` has to be excepted, and where a one-phase commit that
  outlives its gxact shows;
* `HorizonInv`: below the `xminAll` of any one snapshot every transaction is settled for all snapshots. A session
  publishes its `xmin` under the lock under which it reads those of the others, so no later snapshot can fall
  below a horizon that has already been sent out;
* `LocalInv`: the local snapshot was taken after the distributed one, so it never hides a commit the distributed
  one has to see;
* `ForgottenInv`: once `oldestXmin` has passed an xid, or a hint says not to ask, the transaction is settled for
  all snapshots in use, or aborted on that segment.

The proof needed one correction of the model: `RecordCommit` was possible while a QE of the same transaction
still had its local snapshot in the making, and `FinishSnapshot` could then roll back a transaction whose commit
was recorded. The dispatcher waits for all results of the last statement before the commit starts, so
`StartCommit` requires the local snapshots to be finished.

`FtsProofs` proves `FtsNoLostCommit`, `FtsResendSound` and `FtsTypeCorrect` for all bounds and any pair
(`FtsAssumption`: two segments). The parts of `FtsInv`:

* `MirrorHas`: while the configuration says in sync, the mirror has what was acknowledged
  (and is not `exposed`), which makes the promotion safe;
* `AskedAlone`, `LateInv`: SYNCREP_OFF and PROMOTE are sent only when the pair is recorded as not in sync, so while it
  is recorded as in sync the primary's file is on, or was emptied late. Hence the primary acknowledges nothing alone then but
  what is `exposed`. `AskedAlone` is the order of `MirrorGone`: the catalog first, then the request;
* `WaitsLogged`: a commit that waits is in the log of its segment;
* `RequestsCurrent`: a request that is waited for was sent to the primary of the configuration in this
  cycle; late ones are ignored;
* `AnswerHolds`, `UnpromotedAlone`: the answer FTS holds is still true when it is used, since
  only FTS changes the roles, and a primary that still acts as a mirror has none.

`IcUdpProofs` proves `IcInOrder`, `IcNothingLost`, `IcNoOverrun` and `IcTypeCorrect` for every queue depth,
length of a report, number of packets, acks and losses (`IcAssumption`: all positive). The parts of `IcInv`:

* `QueueWindow`, `QueueShape`: the queue is a window of `Cap` packets after `extraSeq`, each in its own slot
  modulo `Cap`, full up to `seq` and empty there. `InOrder` is the first slot of the window;
* `FlowInv`: `capacity + sentSeq = consumedSeq + Cap`, and the receiver has consumed at least what the
  sender thinks. With `QueueWindow` this is `NoOverrun`;
* `AckInv`: an ack in flight, however late, understates the receiver's progress; a `disorder` ack names
  all that is missing up to the last packet it names (`LostFirst`). This is why a freed packet is never needed again (`NothingLost`);
* `MainInv`, `SentInv`: where the main thread is, and that all that is received or told was sent.

The slots need some arithmetic (`x % Cap` over a window of `Cap` numbers), proved by induction on the
well-founded order of the naturals over a set, which needs no operator parameter.

## 5. What is not shown

Only model-checked, on the instances above:

* liveness: `InDoubtResolved`, `CommitEnds`, `ActivateEnds`, `NoWaitCycle`, `Broken`, `DeadlockBroken`,
  `VisibleDeadlockBroken`, `PromotionEnds`, `CommitsUnblocked`, `SyncRepRestored`, `SenderEnds`,
  `ReceiverEnds`. Fairness and ENABLED are beyond the prover.

Every other property of the passing runs has a theorem. Those about `VictimRuns`, `NoFalseAlarm` and
`VictimDeadlocked` have the hypotheses named in section 4.

Abstracted inside the models:

* `Dtm`: the QD's own part of a transaction (its local xid), subtransactions, restore points
  (`TwophaseCommitLock`), the minimum age of an orphan;
* `Dtm` takes a gxid to be used once, which is `GxidUnique`, and `GxactOrder` and `DistSnapshot` take
  a prepared and recorded commit to be decided, as `Dtm` shows (failed one-phase commits are modelled in both);
* `DistSnapshot`: a QE that outlives the transaction of its QD does nothing more with its snapshot;
* `DistSnapshot`: pages and truncation of the distributed log, the cache of the local mapping
  (it only remembers answers), subtransactions;
* `Gdd`: a round that fails, which only starts the next one later;
* `Fts`: several pairs in one cycle, the external prober, the coordinator's standby;
* `IcUdp`: one connection. The buffers and the congestion window that connections of a motion
  share are a free choice; the cursor history of the QD, round trip times, TCP and proxy
  are left out.

Not modelled:

* resource groups, shared snapshots, endpoints, gangs and the asynchronous dispatcher:
  state machines of their own, see the plan;
* planner, ORCA, executor, access methods, append-only and PAX storage, commands, client
  tools, contrib: sequential code over large data, by far the greatest part of the
  repository, in which there is no protocol to check at the size of a model.

## 6. Plan

1. Proofs: weaker hypotheses for `Gdd` (what a false alarm under `SlowAbort` can still not do).
2. `ResGroup`: slots, wait queue, wake-up, bypass, drop while waiting.
3. `Gang`: the idle QE pool, creation under failures, reset, with the dispatcher's wait loop.
4. `SharedSnapshot`: slots between the writer and its readers.
5. `Fts` with two pairs in one cycle, and the coordinator with its standby.
