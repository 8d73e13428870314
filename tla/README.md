# The distributed core of WarehousePG in TLA+

WarehousePG is a PostgreSQL-based MPP database. A *coordinator* accepts clients;
for each session a backend on it, the *query dispatcher* (QD), runs statements
through *gangs* of *query executors* (QEs) on the *primary segments*. Every
segment may have a mirror, the coordinator a standby. This directory specifies
the protocols on which the correctness of the rest depends: distributed commit and
its recovery, distributed snapshots, the global deadlock detector, failover of
segments, admission by resource groups, and the UDP transport between executors.
They are a small part of the code by size (WarehousePG contains all of PostgreSQL,
two planners and many tools; the definitions here stand for a few thousand of its
two million lines) and the part where processes of several machines meet.

Paths below are relative to the repository; `cdbtm.c` and `cdbdtxrecovery.c` are
in `src/backend/cdb/`, `xact.c` and `xlog.c` in `src/backend/access/transam/`,
`procarray.c` in `src/backend/storage/ipc/`, `ftsprobe.c` in `src/backend/fts/`,
`resgroup.c` in `src/backend/utils/resgroup/`, `ic_udpifc.c` in
`src/backend/cdb/motion/`.

## Inventory

| part | state | operations | what is hard |
|---|---|---|---|
| gxid allocation (`cdbtm.c`, `xlog.c`) | `nextGxid`, `GxidCount`, the WAL's next gxid | `currentDtxActivate`, `bumpGxid`, checkpoint, redo | batches logged ahead; crash, shutdown in the middle of a batch, promotion |
| 2PC on the QD (`cdbtm.c`, `xact.c`) | `MyTmGxactLocal`, the ProcArray entry, the commit and forget records | prepare, commit, retry, rollback | lost answers, give-up, PANIC, FATAL exit |
| 2PC on a QE (`cdbtm.c`) | `DistributedTransactionContext`, the local or prepared transaction | `performDtxProtocolCommand` | commands that meet the wrong context, or outlive their QD |
| recovery worker (`cdbdtxrecovery.c`) | `shmDtmStarted`, `shmCommittedGxidArray`, the in-doubt table | `recoverTM`, orphan check, bump | stale table, running transactions, restarts |
| distributed commit in WAL (`xlog.c`, `procarray.c`, `cdbdtxrecovery.c`) | commit, forget and checkpoint records, `includeInCkpt`, `delayChkpt` | `CreateCheckPoint`, `getDtxCheckPointInfo`, redo | redo starts after commit records; flags change without a lock |
| distributed snapshots, DistributedLog | in-progress gxids, map of local xids | `CreateDistributedSnapshot`, visibility, truncation | a commit half broadcast |
| anchor snapshots (`anchorsnapshot.c`) | registry and files on a hot standby | export, import, retire, sweep | restart before the anchor, promotion |
| shared snapshots (`sharedsnapshot.c`) | slot per session | add, sync, look up | reader ahead of its writer |
| global deadlock detector (`utils/gdd/`) | wait graph of all segments | reduce, choose, cancel | the graph is stale when used |
| FTS (`src/backend/fts/`) | probe state per segment, segment configuration | probe, promote, sync off | answers older than the decision |
| resource groups (`resgroup.c`) | slot pool, wait queue | acquire, release, alter, move | cancelled waiters |
| interconnect, UDP (`ic_udpifc.c`) | sequence numbers, queues, ack state | send, ack, resend | loss, duplication, disorder, full queues |
| interconnect, TCP and proxy | connections, routes | route, backpressure | late peers |
| dispatcher and gangs | gangs, idle QEs | allocate, dispatch, cancel, recycle | partial failure |
| endpoints (`cdb/endpoint/`) | endpoint state | declare, retrieve, cancel | two sessions, one state |
| append-only segment files | file state, visibility map | choose, write, vacuum | concurrent writers |

`PROJECT.json` lists every part with its status, and the hazards of this code at
the line where each one bites, with the properties that cover it.

The parts interact like this. A QD takes a gxid from the allocator (`GxidGen`)
and drives 2PC with it (`Dtm`). What of its commit and forget records survives a
crash, and what redo makes of them, is `DtxCheckpoint`; what recovery does with
the result is `Dtm` again. The two meet in `shmCommittedGxidArray`: `Dtm`'s
`Restart` lets redo leave any set between "committed and not forgotten" and
"committed", and `RedoFindsCommitted` of `DtxCheckpoint` says that redo does.
`Dtm` identifies transactions by gxid, which `NoGxidReuse` of `GxidGen` allows.
`DistSnapshot` takes the order of a commit from `Dtm`: Commit Prepared reaches the
segments at different times, and `ProcArrayEndGxact()` on the QD comes after all of
them (a QD that cannot finish a commit ends with PANIC). `GddDetector`
cancels transactions, which for `Dtm` is an abort before Prepare. `Fts` changes which
instance is a segment; that a promoted mirror has what its primary acknowledged
(`CommitInSyncSurvives`) is what lets `Dtm` treat the crash of a segment as the loss of
its connections only. `ResGroup` and `UdpIfc` stand beside the transactions: they
decide when a transaction may run and how the slices of its plan exchange tuples.

## Modules

| module | models | checked by |
|---|---|---|
| `GxidGen` | gxid allocation | `MCGxidGen`, `GxidGenProofs` |
| `Dtm` | QD, QEs, recovery worker, standby as far as 2PC uses it | `MCDtm`, `DtmProofs` |
| `AtomicCommit` | what 2PC promises, with a fail-over as the only failure | through `DtmRefinement` |
| `DtmRefinement` | the mapping of `Dtm` to `AtomicCommit` | `MCDtm`, `DtmProofs` |
| `DtxCheckpoint` | commit, forget and checkpoint records, redo | `MCDtxCheckpoint`, `DtxCheckpointProofs` |
| `DistSnapshot` | distributed and local snapshots, the distributed log, visibility | `MCDistSnapshot`, `DistSnapshotProofs` |
| `GddGraph` | wait graphs, the reduction of a vertex, what a deadlock is | through `GddReduce` and `GddDetector` |
| `GddReduce` | the detector's computation on one graph | `MCGddReduce`, `GddReduceProofs` |
| `GddDetector` | the detector beside running transactions | `MCGddDetector`, `GddDetectorProofs` |
| `Fts` | the prober, one primary/mirror pair, its commits | `MCFts`, `FtsProofs` |
| `ResGroup` | slots, wait queues, statements on groups, moved queries | `MCResGroup` |
| `UdpIfc` | one connection of the UDP interconnect | `MCUdpIfc`, `UdpIfcProofs` |

### GxidGen

Backends are at a `pc` inside `currentDtxActivate()` and `bumpGxid()`; the latter is one
action per step that another process can see (lock, test, limit, WAL insert, flush,
synchronous replication, count). `wal` keeps only next-gxid values, from `XLOG_NEXTGXID` and
shutdown checkpoints. A crash keeps all that was flushed and any prefix of the rest.
`CkptGxid` reads the end of the batch under `GxidBumpLock`, after the redo pointer was
fixed. `synced` is what the standby has flushed. A bump's wait for it ends when it has the
record (`BumpSynced`) or without that (`BumpUnsynced`): `SyncRepWaitForLSN()` returns at
once if no walsender is streaming or synchronous replication is off, and cancels the wait of
a backend that is told to die; `bumpGxid()` is not told. `Promote` may come at any time. Two
histories follow what this can cost: `unwaited` has the gxids of batches whose wait ended
without the standby, `lost` those of them that were handed out and that a promoted standby
did not know of. `LastGxid` stands for the end of the 64-bit range, where `bumpGxid()` ends
with PANIC (`BumpPanic`).

### Dtm

`dtxState[t]` is the QD's `DTX_STATE_*`. The state names the protocol command
that is out, so the connection to a segment is described by three variables: the
context of the QE (`qe`), how far the command is (`ans`), and what QEs of broken
connections may still do (`late`). `CommandEffect`, `CommandFatal` and
`CommandError` are the switches of `performDtxProtocolCommand()`. `xact[t][s]` is
what the segment has of the transaction.

The QD's actions follow `CommitTransaction()` and `AbortTransaction()`:
`Prepare`, `InsertCommitted`, `FlushCommitted`, `NotifyCommitPrepared`,
`RetryCommitPrepared`, `InsertForgetCommitted`, `EndCommit`; the branches of
`rollbackDtxTransaction()`; `RetryAbortPrepared` and `GiveUpAbort`. A FATAL ends
the QD in every state that does not hold interrupts off (`QDExit`). The worker
commits the entries of the array (a failed broadcast is FATAL, and it starts
over), aborts what is left prepared, lets backends in, and from then on looks for
orphans, which it aborts if `IsDtxInProgress()` does not find them. Since its
table comes from a query that is over, `GatherInDoubt` and `GatherOrphans` take
any subset of what is prepared.

`Crash` loses every process of the coordinator and any of the commit records not
flushed. `Promote`, at any time, keeps the records the standby had flushed.
`NotifyCommitPrepared` comes after `SyncRepWaitForLSN()`, with or without the standby having
the record (see `GxidGen`); the recovery worker does not wait for the standby at all.
`unconfirmed` has the transactions whose Commit Prepared went out before the standby had the
record, until it gets it, and `lost` those of them that a promotion caught.

Abstractions: statements are one step (`Begin`) that says which segments take
part and which wrote; subtransactions are left out; a segment's crash is the loss
of its connections and of the commands running there, since prepared and
committed transactions survive it; `retryAbortPrepared()` makes all segments
members of `dtxSegments`, which nothing reads afterwards and the model leaves
alone.

### DtxCheckpoint

`wal` is the whole sequence of commit, forget and checkpoint records. A
checkpoint is eight steps: the redo pointer, the scan for `delayChkpt`, the wait,
the array, the backends' flags one by one, the record, the control file. Redo is
one action per record. `Promote` starts redo from any checkpoint of any flushed
prefix, which covers every restartpoint. After a crash, redo ends with an
end-of-recovery checkpoint; after a promotion or a clean shutdown it does not.

### DistSnapshot

A transaction has a backend on the QD and a QE on each segment. `SnapshotScan` and
`SnapshotPublish` are the two halves of `CreateDistributedSnapshot()`: the lock is held
in shared mode, so several backends are between them at a time. `SetDistributedLog`,
`SetClog` and `RemoveCommitted` are the steps of `RecordTransactionCommitPrepared()` and
what follows. A QE takes a local snapshot (`TakeLocalSnapshot`) and, after the lock is
released, moves the horizon of the distributed log (`AdvanceOldestXmin`). `CommittedTest`,
`XidInMVCCSnapshot` and `Visible` are the functions that decide; `SetIgnore` leaves the
hint bit. The cache of distributed xids (`LocalDistribXactCache`) is over-approximated:
any look-up may hit. The history `seen` is the set of transactions that had committed on
the QD at the scan, and `ConsistentSnapshot` compares every answer with it. Left out: hot
standby snapshots, restarts of a segment, subtransactions, transactions that are local to
a segment, `inProgressMappedLocalXids`, visibility on the QD itself.

### GddGraph, GddReduce, GddDetector

`GddGraph` has the graph as a set of edges, `VertReduce` (`gddVertReduce()` for one vertex
of one segment), and two references that are not code: `Core`, the largest part that cannot
be reduced, and `Deadlocked`, the largest set of waits none of which can end before another
of them. `GddReduce` visits vertices in any order, pass by pass, and chooses victims.
`GddDetector` runs beside transactions that wait, release, end and roll back; each segment's
edges are collected at a time of their own. `gp_dist_wait_status()` skips a lock entry whose
`holdMask` is not empty (`isGranted()`), and with it a transaction that waits for a stronger
mode of a lock it holds: these waits are in `upgrading`, and `Reported` leaves them out.
Rounds use `Core` directly, which `ReduceIsConfluent` justifies; breaking the deadlock is
one action per victim (`BreakDeadLock`), and `left` is what is left of the graph so far. A
wait behind another waiter of the same lock, whom nobody else blocks, has no row in
`gp_dist_wait_status()` and is not modelled. The QD is a segment like the others, as in
`gddVertReduce()`. A holder that waits on a segment releases nothing there; on the QD, which
has dispatched the statement, nothing as long as it waits anywhere. Looking up the pid of a
victim and signalling it is one step.

### Fts

`config` is `gp_segment_configuration`; the prober works on one message at a time (`st`,
`to`, `retry`, `req`, `reply`). `Handle` runs one of the three handlers on the segment;
messages that the prober has given up may still be handled (`late`). A commit is flushed
(`Insert`), waits or not (`SyncRepWaitForLSN`), and is acknowledged. It counts as `"sync"`
if, at the decision, the catalog had the pair in sync or the instance was no longer the
primary. Turning synchronous replication on and off writes a file that the checkpointer
reloads, at once or later (`Reload`). The history `timely` says that no reload was delayed
and no handler has outlived its connection. Abstractions: handlers are atomic; an instance
under promotion refuses connections or answers as a mirror; a reset of the postmaster is a
crash and a restart; a walsender in `catchup` that has sent nothing is `"none"`; streaming
means that all there is was sent, not that it was flushed; there is one pair, and the
prober's copy of the catalog equals the catalog; the answers to SYNCREP_OFF and PROMOTE are
not looked at, as in the code.

### ResGroup

`groups` is `pResGroupControl->groups[]`, `slots` the pool, `resSlot` what a waiter was
granted. What the code does while it holds `ResGroupLock` is one action; between
`decideResGroup()` and `groupAcquireSlot()` the lock is free, so that a session works with
an entry that may have been dropped, and used again, meanwhile. `Begin`, `AcquireSlot`,
`Enqueue`, `Woken`, `CancelWait`, `Unassign` are the life of a transaction,
`IncBypassedRef` and `CheckAndUnassign` that of a bypassed one. CREATE, ALTER and DROP are
their catalog part, with the locks on `pg_resgroupcapability` and on the row that order
them, and their callback at commit or abort. `MoveQuery`, `SignalTarget`,
`CheckTargetReady` and `HandleMove` are `pg_resgroup_move_query()` and the target's signal
handler. Two histories mark what the statements do to each other: `breached` once a
statement has unlocked or granted slots of a group that another one is dropping, and
`orphaned` once one side of a move ended before the other knew; a behaviour ends there.
Left out: QEs on the entry db and on segments, cgroups and memory, statistics, the check in
`resgroup_assign_hook()`, superusers' fallback to `admin_group`, groups of concurrency 0,
the administrators' own slots. The handler of a moved query runs inside the SIGUSR1 handler;
the model delivers it between critical sections only.

### UdpIfc

A packet is its number; the last one is the end of the stream. The sender's variables are
those of its `MotionConn` (`sndQueue`, `unackQueue`, `capacity`, `consumedSeq`,
`receivedAckSeq`; `unackQueue` is a set, since the list is always in the order of the
numbers); the receiver's `conn` is the ring `pkt_q` with its head, tail, size, sequence
numbers and flags. `SendPacket`, `GetSndBuffer`, `HandleStopMsgs` and `EosSent` are the
sender's executor in `SendChunkUDPIFC()` and `SendEosUDPIFC()`; `HandleAck`, `HandleDupAck`
and `HandleDisorderAck` are `handleAcks()`; `Resend` and `CheckDeadlock` its timers.
`RxThread` is the receiver's background thread: `handleDataPacket()`, the answers to status
queries, `handleMismatch()` before the set-up (`CacheFuturePacket`) and after the teardown
(`AckThePast`). The main thread sets up, reads cached packets, receives, waits, gives
buffers back, stops early or is torn down at any point. `LossFC` is
`gp_interconnect_fc_method`. With capacity based flow control a connection has
`SndQueueDepth` buffers of its own; with loss based flow control all `Conns` connections of
the sender share a pool (`PoolSize`, one more than their depths if the depth is one). Of the
other connections the model keeps that they hold some of the pool, and that acks and stop
messages of this connection are read, and under loss based flow control expired packets are
sent again, while the executor is busy with another one (`ElsewhereBusy`). Congestion window
and timer ring only say when something is sent, which is left open. The list of missing
packets in a disorder message has no limit here; the code cuts it at
`MAX_SEQS_IN_DISORDER_ACK` (`ic_udpifc.c:4937`), and from a cut list the sender learns less.
Only the third disorder message in a row counts, and the counter is shared by all
connections, so any may be ignored. The branch for packets outside the window only drops
them, and `NoOverrun` says that it is not reached. No data packet with the flag STOP leaves
the sender, because `handleStopMsgs()` returns the buffer it has just queued, and the
receiver's branch for it is left out. Also left out: network time-outs
(`checkNetworkTimeout()` raises an ERROR), exhaustion of receive buffers, checksums, errors
of the sender, the next statement on the same socket, and the QD's history of cursors.

## Runs

| run | instance | shows |
|---|---|---|
| `gxid` | 1 backend and the worker, batches of 2, gxids up to 8, 1 shutdown | `TypeOK`, `RestartAboveAssigned`, `NoGxidReuse` |
| `dtm` | 1 transaction, 2 segments, standby | `TypeOK`, `Agreement`, `ForgetIsSafe`, `OutcomeIsTrue`, `StartedMeansRecovered`, `ImplementsAtomicCommit` |
| `dtm_live` | 1 transaction, 2 segments, no standby | `PreparedIsResolved`, `RecoveryEnds` |
| `dtx_checkpoint` | 2 backends, 2 transactions, 2 restarts | `TypeOK`, `RedoFindsCommitted`, `OwnedUntilForgotten` |
| `snapshot` | 3 transactions, 1 segment, 2 snapshots each | `TypeOK`, `ConsistentSnapshot`, `HorizonBelowSnapshots`, `GlobalXminInSnapshot` |
| `gdd_reduce` | all graphs of up to 4 edges, 3 transactions, 2 segments | `ReduceIsConfluent`, `FindsDeadlock`, `Terminates` |
| `gdd` | 2 transactions, the QD and 2 segments, 3 waits, 1 of them an upgrade | `TypeOK`, `NoFalseAlarm`, `DeadlockIsBroken` |
| `fts` | 1 pair, 1 commit, 1 retry, 2 faults | `TypeOK`, `CatalogConsistent`, `CommitInSyncSurvives`, `InSyncWaits`, `CommitReleased`, `PromotionCompletes` |
| `fts_lag` | the same | an acknowledged commit can be lost by a failover (finding) |
| `resgroup` | 2 sessions, 2 administrators, 2 groups, limits 1 and 2, 3 statements | `SlotsAccounted`, `RunsInItsGroup`, `NoLostWakeup` |
| `resgroup_drop` | the same | a group is dropped under a running transaction (finding) |
| `udpifc` | 4 packets, receive queue of 2, loss based flow control, 2 connections with send queues of 1 (a pool of 3), 2 messages in flight | `TypeOK`, `InOrder`, `AckedIsHeld`, `NoOverrun`, `NoLostWakeup`, `SenderFinishes`, `AllDelivered` |

Bounds. Three batches and a shutdown in the middle of one are enough for every order of
bump, checkpoint, crash and promotion in `gxid`; the backend and the worker are the two that
compete for `GxidBumpLock`. Transactions interact in `Dtm` only through the worker's array
and table, so one transaction exercises the protocol; the loops over several are covered by
the proofs, which hold for any number. Two segments are the least on which Prepare or Commit
Prepared can succeed in part. Nothing in `Dtm` is counted, so crashes, retries and worker
restarts are unbounded. In `dtx_checkpoint` two restarts let a checkpoint or a crash
interrupt recovery; `MaxWal` stops new checkpoints and the worker's records beyond 5
records, and the run may stop there and when transactions and restarts are used up, so it
does not look for deadlock. The symmetry sets (transactions, segments, backends) are never
told apart by an action.

In `snapshot` three transactions are a writer whose commit is half done, a reader with an
old snapshot, and one that moves the horizon between the two; `ConsistentSnapshot` compares
each segment with the QD by itself, so one segment is enough. Transactions and snapshots are
used up in the end, and the run does not look for deadlock. `gdd_reduce` starts from every
graph within its bounds; the proofs cover all others. Two transactions that wait on three
local graphs make the deadlocks of `gdd` span segments; the third wait is one that is not
part of the cycle, or an upgrade that closes a cycle nobody reports. Two faults in `fts` let
a primary fail while the mirror's trouble is being handled. Three statements in `resgroup`
are what two DROPs and an ALTER ROLE, or a move that meets a CREATE in a dropped entry,
need. In `udpifc` four packets wrap the ring of two twice over; the network loses, copies
and reorders without bound, and `MaxInFlight` only limits what it holds at once (older
packets are lost first). A send queue of one with a second connection is the smallest pool
in which the depth of the queue and the size of the pool differ, and the only depth with an
extra buffer. Runs that check deadlock show that nobody is stuck: in `udpifc` without
`CheckDeadlock` TLC reports one.

Fairness. In `Dtm` (`LiveSpec`) each QD, each segment and the worker takes a step if it
can: they are processes of an operating system, and dispatch waits for an answer
or an error. A QD may wait for its client for ever. `PreparedIsResolved` and
`RecoveryEnds` assume that failures stop at some time (`FailuresStop`), as every
retry in the code does: no crash, no lost connection, no error but those a
command must raise. They also assume that the dispatch topology file does not
gate the worker for ever. `GddReduce` runs by itself. `GddDetector` assumes that its rounds
go on and that a signalled backend serves its interrupt, nothing of other transactions.
`Fts` assumes that the prober, the handlers, the checkpointer, replication and recovery go
on; nothing of clients, of the operator or of a dead instance. `UdpIfc` assumes that threads
run and timers expire, that the receiver tears down when its statement is over, that the
receivers of the other connections take what they are sent, so that of the pool each of these
keeps one buffer in the end (`SndBuffersLeft`), and that
the network, though it may lose for ever, does not lose every copy of a packet that is sent
again and again (strong fairness). Acks have no such guarantee one by one; it is assumed
of an ack that tells the sender something new, because `handleAcks()` reads all there is.

Environment. An operator may promote the standby at any time, whatever it has received. The
models do not follow the state of its walsender: `SyncRepWaitForLSN()` on the coordinator may
always return without the standby, so that whether it waits for a standby that is connected,
catching up or away makes no difference to what is proved.

## Findings

`fts_lag`. The catalog records a pair as in sync as soon as the walsender streams, which
says that everything was sent. Commits that were acknowledged before synchronous
replication was turned on may not have been flushed by the mirror; if the primary fails
then, the mirror is promoted without them. The documents say "Synchronized = data is up to
date on both" and "FTS promotes its mirror, only if it was in-sync with the primary".
`CommitInSyncSurvives` is what does hold.

`resgroup_drop`. `DropResourceGroup()` registers `ResGroupDropFinish()` before
`ResGroupCheckForDrop()`, and the callback unlocks the group whether or not its statement
had locked it. If two DROPs of one group run and one is cancelled, the other goes on with a
group that is no longer locked, and removes it under a session that decided on it before.
`ALTER ... SET CONCURRENCY` that commits while a DROP waits for its capability lock grants
slots of the locked group too. Both are what `breached` marks; `RunsInItsGroup` and
`SlotsAccounted` hold otherwise.

Other things seen while modelling, which no run claims:

- A promotion is safe for what the standby has confirmed, and for no more. If
  `SyncRepWaitForLSN()` returned without the standby having the record and the standby is
  promoted before it gets it, a commit record whose Commit Prepared was broadcast is gone, and
  the new coordinator aborts what is still prepared of a transaction that other segments have
  committed; likewise gxids of the batch are handed out again. `Agreement`, `NoGxidReuse`,
  `RestartAboveAssigned` and `AtomicCommit`'s `FailOver` name this exception (`lost`); the
  client of a transaction so split has been told nothing, or of a commit that every segment
  had finished (`OutcomeIsTrue` has no exception).
- `bumpGxid()` (`cdbtm.c:249`) says that the limit is a multiple of the batch size; the
  first gxid is 1, so it is one more. Nothing relies on it.
- Comments in `tmShmemInit()` take one entry of `shmCommittedGxidArray` per connection to be
  enough ("limited by max_connections since one QD should only have one 2pc one time"), and
  redo ends with FATAL when it is full ("It should not happen.", `cdbdtxrecovery.c:537`). A
  checkpoint's list is collected after its redo pointer is fixed, so it can hold
  transactions whose forget records redo will not see; these stay in the array while redo
  adds others. Recovering such a transaction again is harmless (`RedoFindsCommitted`, and
  `Dtm` for any such array). It takes more such entries than the difference between
  `MaxBackends` and the connections in use to hit the FATAL.
- A wait for the xid lock of a subtransaction counts as solid, but ends with ROLLBACK TO
  SAVEPOINT; a round during which this happens may report a deadlock that is none, which
  `NoFalseAlarm` excludes (`rolledBack`).
- `Assert(pid > 0)` in `breakDeadLock()` (`gddbackend.c:436`) can fail: the victim may have
  ended. Dotted edges of the QD are reduced like all others, unlike a comment at
  `gddfuncs.c:176`: a deadlock that has a dotted wait on the QD for a transaction that is
  blocked on a segment only is reduced away and lasts.
- A wait for a stronger mode of a lock that the waiter holds is not reported
  (`gddfuncs.c:43`, `gddfuncs.c:224`), so two transactions that upgrade against each other on
  different segments are never found. `DeadlockIsBroken` is about the waits that are reported,
  and `Deadlocked` about the rule of `gddVertReduce()`; for other deadlocks it says nothing.
- A probe answers that synchronous replication is on when it has only asked for the reload
  (`ftsmessagehandler.c:283`), and a handler of SYNCREP_OFF that outlives its connection may
  run after a later probe: both windows are what `timely` excludes.
- `pg_resgroup_move_query()`: when the target takes the slot and ends before its caller
  looks, the caller waits for its timeout and releases a slot that was released before; when
  the caller is terminated in that wait, the slot is lost and the target cannot be moved any
  more. These are the two ways to `orphaned`. A waiting mover that is cancelled as it is
  granted a slot calls `groupReleaseSlot()` in a way its assertion does not expect. A mover
  holds two slots of a pool sized by connections.

## Proofs

`tlapm` on each of the modules `*Proofs.tla` checks everything from nothing in a few
minutes each. The theorems hold for all values of the constants that satisfy
the modules' assumptions (for `Dtm`: any set of transactions, any finite set of
segments; for `DistSnapshot`: any finite set of transactions, any set of segments, any
number of snapshots; for the deadlock detector: any finite graph).

`GxidGenProofs`: `TypeCorrect`, `RestartSafe` (`RestartAboveAssigned`),
`GxidsUnique` (`NoGxidReuse`). `RestartAboveAssigned` is not inductive: that the
end of the batch is covered by flushed WAL must hold in the middle of a bump and of
a checkpoint. `GxidInv` adds that one process at a time is inside `bumpGxid()` and
what it has done so far (`BumpMutex`, `BumpProgress`), that every cut of WAL that a
crash may leave is a safe start, above all assigned gxids that were not lost and above
the batch (`WalSafe`), that what a standby may have is above all of these but the gxids it was
not waited for (`StandbySafe`), that a value that the control file or a checkpoint in progress
holds was good at its redo pointer (`ControlSafe`, `CkptSafe`), and that the counter
is above all assigned gxids that were not lost (`AssignedBelow`). All three theorems are for
any number of backends and restarts; the exception for `lost` is part of the properties.

`DtmProofs`: `TypeCorrect`, `Atomic` (`Agreement`), `ForgetSafe`, `ClientToldTruth`
(`OutcomeIsTrue`), `StartedRecovered`. The inductive invariant `DtmInv` says, besides the
type: what each state of the QD implies about the commit record and the answers (`QDInv`);
for each transaction and segment what the transaction, the QE's context, the command and the
late commands can be together (`SegInv`; above all that a commit of a prepared transaction
is under way only if the standby has the commit record, or is known not to have been waited
for (`MayCommit`), and an abort only if there is no record or the transaction is already
committed on all its segments); and what the worker may be broadcasting (`WorkerInv`; its
table is stale, and still an entry that it aborts has no commit record or is already
committed on all its segments). Every action is a lemma; steps that touch a single row go
through lemmas about unchanged rows.

The same module has `Refinement` (`ImplementsAtomicCommit`). `RefInv` adds to `DtmInv`
only that a client is told at the end (`ToldAtEnd`). Every step of `Dtm` is of one of these
kinds: it changes nothing `AtomicCommit` speaks of, or it begins a transaction, fixes a
decision or backs it, lets one segment commit or abort, tells one client, or fails over. A
transaction is decided when the standby has its record or Commit Prepared goes out without
that, whichever is first; a crash of the coordinator keeps all decisions, `Promote` those that
are backed; `DtmInv` before and after
the step shows that `AtomicCommit` allows it.

`DtxCheckpointProofs`: `TypeCorrect`, `RedoComplete` (`RedoFindsCommitted`) and
`NeverOrphaned` (`OwnedUntilForgotten`), for any number of backends, transactions, restarts
and records. The properties speak of the end of redo and of a coordinator that is up; what
carries them through a crash is `WalInv` of `DtxInv`: every checkpoint record in WAL is one
from which redo can start, since each transaction committed before its redo pointer is
listed in it or was forgotten before it (`Usable`). This depends only on the records up to
it, so that any cut of WAL keeps it. For the checkpoint in progress `CkptInv` says where such
a transaction is (`SeenTo`): forgotten, listed, in the array not yet copied, or with a
backend that the checkpoint is still to meet, which for a backend inside the commit critical
section means that it was seen delaying the checkpoint or is not scanned yet. `OwnerInv`
says who has each commit that is not forgotten, also in the middle of redo.

`DistSnapshotProofs`: `TypeCorrect`, `SnapshotsConsistent` (`ConsistentSnapshot`),
`HorizonSafe` (`HorizonBelowSnapshots`) and `GlobalXminBounded` (`GlobalXminInSnapshot`).
`ConsistentSnapshot` is about an answer, and an answer may come from a distributed snapshot,
from a local one, or from a hint, so `DistInv` says of each that it agrees with `seen`. A
distributed snapshot tells what it sees by gxid: below its xmax and not in progress, and a
transaction that has a gxid now cannot slip under it (`SnapInv`). A local snapshot is taken
after the distributed one beside it, so what that one sees has left the segment's proc array
before (`LocalInv`). A row whose writer the segment has forgotten, or marked to be ignored,
belongs to a commit that all snapshots see, those that exist, those in creation and those
still to come (`BelowInv`). The last is the hard part: what a segment forgets follows from
the smallest xminAll it was sent, and that was computed on the QD by a scan that runs at the
same time as others. `PubInv` has the two facts that make it right: a transaction advertises
an xmin that is at most that of its snapshots, and a snapshot that is scanned but not yet
advertised has the xmin which any other scan would compute now, because no transaction can
end while `ProcArrayLock` is held. `CountInv` and `QDInv` are about numbers: gxids and xids
are given out once, a decided transaction has given up its gxid. The set of transactions must
be finite for `Cardinality`, which numbers the local xids, to mean anything.

`GddReduceProofs`: `Confluence` (`ReduceIsConfluent`) rests on one lemma, that a visit never
removes an edge of an irreducible part (`VisitKeepsIrreducible`), so that every order keeps
the whole of `Core`. `ReduceInv` adds that in a pass that has removed nothing so far the
vertices already visited are ones a visit does not change, so that where it stops is
irreducible. `DeadlocksFound` (`FindsDeadlock`) has two halves. What is left is a deadlock,
since an irreducible graph is self-blocking. And no deadlock is missed: take a smallest
self-blocking set of waits; all its transactions wait for each other, and none of its edges
can be dropped by a visit, so it is irreducible and part of `Core`.

`GddDetectorProofs`: `TypeCorrect` and `FalseAlarms` (`NoFalseAlarm`). `DetectorInv` is
about sets of collected reported edges in which every dotted edge is for a transaction that
waits on the same segment: as long as all their transactions live, these waits are still
there, since none of them can be the first to end. An irreducible graph is such a set.

`FtsProofs`: `FailoverKeepsCommits` (`CommitInSyncSurvives`), `PairInSyncWaits`
(`InSyncWaits`), `CatalogAsserts` (`CatalogConsistent`) and `TypeCorrect`. The catalog's
assertions hold always; the first two while `timely`. For these the invariant `FtsInv` adds:
whoever may have its peer promoted, or had it promoted, has synchronous replication on
(`WaitsInv`); the prober talks to the primary of the catalog (`ProberInv`); an answer "in
sync" stays good until it is recorded (`AnswerInv`); a commit in progress is on an instance
that acts as a primary (`PendingInv`); and the primary, the mirror of a pair in sync and
whoever acts as a mirror have every commit acknowledged in sync (`CoverInv`).

`UdpIfcProofs`: `DeliveredInOrder` (`InOrder`), `AckedArrived` (`AckedIsHeld`),
`RingNeverOverrun` (`NoOverrun`), `WakeupNotLost` (`NoLostWakeup`) and `TypeCorrect`, for
any number of packets, any depth of the two queues, either flow control and any number of
connections that share the send buffers. None of the four is inductive, since the two ends
know of each other only from messages that may be old, and `UdpInv` has to say what an old
message is still good for. `QueueInv`: `sndQueue` has the last numbers given out, in order,
and `unackQueue` only earlier ones. `ReceiverInv`: a packet lies at the place its number
gives it, the ring is full from its head to its tail and empty at the tail, and what was
delivered is what came before the head; the latch is set exactly when a waiting main thread
has something to read. `WindowInv`: every ack in flight speaks only of packets that have
been stored (`Held`), which they stay while the connection lives; a packet sent and no
longer in `unackQueue` is one of these; `capacity` is `QueueDepth + consumedSeq` minus what
was sent; and `consumedSeq`, like the `extraSeq` of every ack in flight, is never ahead of
the head of the ring. So whatever was sent, however late it comes, is less than `QueueDepth`
past the head.

Only model-checked: liveness and everything with `ENABLED` (which the prover does not
handle), and so far `ResGroup`. Its slots are a pool that is counted in three places, so
that a proof of `SlotsAccounted` is one about cardinalities. Induction over data by the
library's induction theorems is out of the prover's reach, since they take an operator as a
parameter; where a proof needs a least number or a smallest deadlock it takes a minimal
element of a set of finite sets instead (`FS_StrictSubsetOrderingWellFounded`). No module
here has a RECURSIVE operator.

## Not modelled

- Anchor snapshots of a hot standby, shared snapshots of a gang, endpoints of parallel
  retrieve cursors, segment files of append-only tables, resource queues: each has a state
  machine of its own that could be added in the way of the modules here.
- The dispatcher and its gangs appear through their effects (a command sent, answered,
  lost, given up); the dispatch topology file through the worker's being slow.
- The interconnect over TCP and proxies carries ordered streams and leaves to the kernel
  what `UdpIfc` is about.
- WAL shipping, checkpoints and locks as such are PostgreSQL's; the modules use them as
  logs that lose their unflushed tail, and as locks.
- Planner and executor compute plans from plans: data, not control. Management tools,
  storage I/O and cgroups have no protocol that a state machine of this size would tell
  more about than their code.

By lines, all that is modelled is a small part of the repository, most of which is
PostgreSQL, the two planners and the tools. The parts of it where processes of several
machines interact are covered better than that number says.
