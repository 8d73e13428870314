------------------------------ MODULE GxidGen ------------------------------
(***************************************************************************)
(* Allocation of distributed transaction ids (gxids) on the coordinator.   *)
(*                                                                         *)
(* Backends take gxids from a batch held in shared memory: nextGxid is the *)
(* next one, GxidCount how many are left.  bumpGxid() fetches another      *)
(* batch: it logs the new limit in WAL (XLOG_NEXTGXID), flushes it, waits  *)
(* for the synchronous standby, and only then enlarges GxidCount.  The     *)
(* wait may end without the standby having the record, and GxidCount is    *)
(* enlarged all the same.  A checkpoint runs concurrently, and the         *)
(* coordinator may crash, be shut down, or be replaced by its standby at   *)
(* any point.  Prepared transactions on the segments are named by their    *)
(* gxid alone, so a gxid should not be handed out a second time.           *)
(***************************************************************************)
EXTENDS Integers, Sequences

CONSTANTS
    Backend,        \* coordinator backends that start distributed transactions
    DtxRecovery,    \* the dtx recovery background worker
    Prefetch,       \* gp_gxid_prefetch_num
    FirstGxid,      \* FirstDistributedTransactionId
    LastGxid,       \* LastDistributedTransactionId
    MaxShutdowns    \* bound: clean shutdowns in one behaviour

ASSUME BackendAssumption == DtxRecovery \notin Backend /\ "NoProc" \notin Backend \union {DtxRecovery}
ASSUME PrefetchAssumption == Prefetch \in Nat \ {0}
ASSUME GxidAssumption == FirstGxid \in Nat \ {0} /\ LastGxid \in Nat
ASSUME ShutdownAssumption == MaxShutdowns \in Nat

VARIABLES
    mode,       \* "up", or "redo" between a crash and the end of StartupXLOG
    nextGxid,   \* ShmemVariableCache->nextGxid
    GxidCount,  \* ShmemVariableCache->GxidCount
    bumpLock,   \* holder of GxidBumpLock, or NoProc
    nextLimit,  \* bumpGxid()'s local variable; only the lock holder uses it
    pc,         \* where each process is
    bumpEvent,  \* DTX_RECOVERY_EVENT_BUMP_GXID is set
    gxid,       \* MyTmGxact->gxid of each backend
    wal,        \* the values redo assigns to nextGxid, in WAL order
    flushed,    \* how much of wal is on the coordinator's disk
    synced,     \* how much of wal is on the standby's disk
    control,    \* redo pointer and nextGxid of the last completed checkpoint
    ckpt,       \* the checkpoint being taken
    shutdowns,  \* clean shutdowns so far
    assigned,   \* history: every gxid ever handed out
    unwaited,   \* history: gxids of batches not known to be on the standby
    lost        \* history: gxids handed out that a promoted standby forgot

vars == <<mode, nextGxid, GxidCount, bumpLock, nextLimit, pc, bumpEvent, gxid,
          wal, flushed, synced, control, ckpt, shutdowns, assigned, unwaited, lost>>
walVars == <<wal, flushed, synced, control>>
history == <<assigned, unwaited, lost>>

Proc == Backend \union {DtxRecovery}
NoProc == "NoProc"
InvalidGxid == 0

\* GXID_PRETCH_THRESHOLD
Threshold == Prefetch \div 2

\* The first gxid that is not in the current batch.  Handing out a gxid moves
\* nextGxid and GxidCount together and leaves it where it is.
BatchEnd == nextGxid + GxidCount

\* The gxids that the bump in progress adds to it.
NewBatch == BatchEnd .. nextLimit - 1

BumpPC == {"lock", "wait", "insert", "flush", "sync", "count"}
BackendPC == {"idle", "alloc"} \union BumpPC
RecoveryPC == {"start", "idle", "reset"} \union BumpPC

NoCkpt == [at |-> "none", redo |-> 1, gxid |-> FirstGxid]

-----------------------------------------------------------------------------
(* WAL and redo *)

\* What redo leaves in nextGxid when WAL ends after n records: the last
\* XLOG_NEXTGXID or shutdown checkpoint from the redo pointer on, else the value
\* of the checkpoint that redo starts from.
RedoGxid(n) == IF n >= control.redo THEN wal[n] ELSE control.gxid

\* The same for the standby, which has replayed all WAL it received.
PromotedGxid == IF synced >= 1 THEN wal[synced] ELSE FirstGxid

\* A shutdown checkpoint in WAL; one that repeats the last value adds nothing
\* that redo could tell.
LogGxid(w, g) == IF w # <<>> /\ w[Len(w)] = g THEN w ELSE Append(w, g)

\* A crash takes all processes and shared memory with it.
CrashedProcesses ==
    /\ mode' = "redo"
    /\ bumpLock' = NoProc
    /\ nextLimit' = 0
    /\ pc' = [p \in Proc |-> IF p = DtxRecovery THEN "start" ELSE "idle"]
    /\ bumpEvent' = FALSE
    /\ gxid' = [b \in Backend |-> InvalidGxid]
    /\ ckpt' = NoCkpt
    /\ GxidCount' = 0

\* A crash that leaves the first n records of WAL.
CrashTo(n) ==
    /\ CrashedProcesses
    /\ wal' = SubSeq(wal, 1, n)
    /\ flushed' = n
    /\ UNCHANGED <<nextGxid, synced, control, shutdowns, history>>

-----------------------------------------------------------------------------

\* bootstrap: checkPoint.nextGxid = FirstDistributedTransactionId
Init ==
    /\ mode = "up"
    /\ nextGxid = FirstGxid
    /\ GxidCount = 0
    /\ bumpLock = NoProc
    /\ nextLimit = 0
    /\ pc = [p \in Proc |-> IF p = DtxRecovery THEN "start" ELSE "idle"]
    /\ bumpEvent = FALSE
    /\ gxid = [b \in Backend |-> InvalidGxid]
    /\ wal = <<>>
    /\ flushed = 0
    /\ synced = 0
    /\ control = [redo |-> 1, gxid |-> FirstGxid]
    /\ ckpt = NoCkpt
    /\ shutdowns = 0
    /\ assigned = {}
    /\ unwaited = {}
    /\ lost = {}

-----------------------------------------------------------------------------
(* currentDtxActivate(), on a backend *)

\* Wake the dtx recovery worker when the batch runs low, unless it has been
\* told already.
ActivateStart(b) ==
    /\ mode = "up"
    /\ pc[b] = "idle"
    /\ gxid[b] = InvalidGxid
    /\ pc' = [pc EXCEPT ![b] = "alloc"]
    /\ bumpEvent' = (bumpEvent \/ GxidCount <= Threshold)
    /\ UNCHANGED <<mode, nextGxid, GxidCount, bumpLock, nextLimit, gxid, walVars,
                   ckpt, shutdowns, history>>

\* Take a gxid, under the spinlock.
ActivateAlloc(b) ==
    /\ mode = "up"
    /\ pc[b] = "alloc"
    /\ GxidCount > 0
    /\ gxid' = [gxid EXCEPT ![b] = nextGxid]
    /\ nextGxid' = nextGxid + 1
    /\ GxidCount' = GxidCount - 1
    /\ assigned' = assigned \union {nextGxid}
    /\ lost' = lost \ {nextGxid}
    /\ pc' = [pc EXCEPT ![b] = "idle"]
    /\ UNCHANGED <<mode, bumpLock, nextLimit, bumpEvent, walVars, ckpt, shutdowns, unwaited>>

\* The batch is empty: call bumpGxid(), then try again.
ActivateBump(b) ==
    /\ mode = "up"
    /\ pc[b] = "alloc"
    /\ GxidCount = 0
    /\ pc' = [pc EXCEPT ![b] = "lock"]
    /\ UNCHANGED <<mode, nextGxid, GxidCount, bumpLock, nextLimit, bumpEvent, gxid,
                   walVars, ckpt, shutdowns, history>>

\* resetTmGxact(): the transaction is over.
FinishGxact(b) ==
    /\ mode = "up"
    /\ pc[b] = "idle"
    /\ gxid[b] # InvalidGxid
    /\ gxid' = [gxid EXCEPT ![b] = InvalidGxid]
    /\ UNCHANGED <<mode, nextGxid, GxidCount, bumpLock, nextLimit, pc, bumpEvent,
                   walVars, ckpt, shutdowns, history>>

-----------------------------------------------------------------------------
(* DtxRecoveryMain(): one bumpGxid() at startup, then one per event *)

RecoveryBump ==
    /\ mode = "up"
    /\ \/ pc[DtxRecovery] = "start"
       \/ pc[DtxRecovery] = "idle" /\ bumpEvent
    /\ pc' = [pc EXCEPT ![DtxRecovery] = "lock"]
    /\ UNCHANGED <<mode, nextGxid, GxidCount, bumpLock, nextLimit, bumpEvent, gxid,
                   walVars, ckpt, shutdowns, history>>

\* The event is cleared after the bump, whatever was set meanwhile.
RecoveryResetEvent ==
    /\ mode = "up"
    /\ pc[DtxRecovery] = "reset"
    /\ bumpEvent' = FALSE
    /\ pc' = [pc EXCEPT ![DtxRecovery] = "idle"]
    /\ UNCHANGED <<mode, nextGxid, GxidCount, bumpLock, nextLimit, gxid, walVars,
                   ckpt, shutdowns, history>>

-----------------------------------------------------------------------------
(* bumpGxid(), on any process *)

\* Where bumpGxid() returns to.
AfterBump(p) == IF p = DtxRecovery THEN "reset" ELSE "alloc"

\* LWLockAcquireOrWait: the lock is taken, so sleep until it is free.
BumpWait(p) ==
    /\ mode = "up"
    /\ pc[p] = "lock"
    /\ bumpLock # NoProc
    /\ pc' = [pc EXCEPT ![p] = "wait"]
    /\ UNCHANGED <<mode, nextGxid, GxidCount, bumpLock, nextLimit, bumpEvent, gxid,
                   walVars, ckpt, shutdowns, history>>

\* ... and return without it: someone else has bumped.
BumpWaited(p) ==
    /\ mode = "up"
    /\ pc[p] = "wait"
    /\ bumpLock = NoProc
    /\ pc' = [pc EXCEPT ![p] = AfterBump(p)]
    /\ UNCHANGED <<mode, nextGxid, GxidCount, bumpLock, nextLimit, bumpEvent, gxid,
                   walVars, ckpt, shutdowns, history>>

\* Got the lock, but there are enough gxids again: release and return.
BumpNotNeeded(p) ==
    /\ mode = "up"
    /\ pc[p] = "lock"
    /\ bumpLock = NoProc
    /\ GxidCount > Threshold
    /\ pc' = [pc EXCEPT ![p] = AfterBump(p)]
    /\ UNCHANGED <<mode, nextGxid, GxidCount, bumpLock, nextLimit, bumpEvent, gxid,
                   walVars, ckpt, shutdowns, history>>

\* Got the lock: compute the limit of the enlarged batch, under the spinlock.
BumpLimit(p) ==
    /\ mode = "up"
    /\ pc[p] = "lock"
    /\ bumpLock = NoProc
    /\ GxidCount <= Threshold
    /\ BatchEnd + Prefetch < LastGxid - Prefetch
    /\ bumpLock' = p
    /\ nextLimit' = BatchEnd + Prefetch
    /\ pc' = [pc EXCEPT ![p] = "insert"]
    /\ UNCHANGED <<mode, nextGxid, GxidCount, bumpEvent, gxid, walVars, ckpt,
                   shutdowns, history>>

\* XLogPutNextGxid(): insert, flush, wait for the standby.
BumpInsert(p) ==
    /\ mode = "up"
    /\ pc[p] = "insert"
    /\ wal' = Append(wal, nextLimit)
    /\ pc' = [pc EXCEPT ![p] = "flush"]
    /\ UNCHANGED <<mode, nextGxid, GxidCount, bumpLock, nextLimit, bumpEvent, gxid,
                   flushed, synced, control, ckpt, shutdowns, history>>

\* Mutant: XLogPutNextGxid() does not wait for the standby.
BumpFlushNoWait(p) ==
    /\ mode = "up"
    /\ pc[p] = "flush"
    /\ flushed' = Len(wal)
    /\ pc' = [pc EXCEPT ![p] = "count"]
    /\ UNCHANGED <<mode, nextGxid, GxidCount, bumpLock, nextLimit, bumpEvent, gxid,
                   wal, synced, control, ckpt, shutdowns, history>>

BumpFlush(p) ==
    /\ mode = "up"
    /\ pc[p] = "flush"
    /\ flushed' = Len(wal)
    /\ pc' = [pc EXCEPT ![p] = "sync"]
    /\ UNCHANGED <<mode, nextGxid, GxidCount, bumpLock, nextLimit, bumpEvent, gxid,
                   wal, synced, control, ckpt, shutdowns, history>>

\* SyncRepWaitForLSN() returns and the standby has the record.
BumpSynced(p) ==
    /\ mode = "up"
    /\ pc[p] = "sync"
    /\ synced = Len(wal)
    /\ pc' = [pc EXCEPT ![p] = "count"]
    /\ unwaited' = unwaited \ NewBatch
    /\ UNCHANGED <<mode, nextGxid, GxidCount, bumpLock, nextLimit, bumpEvent, gxid,
                   walVars, ckpt, shutdowns, assigned, lost>>

\* It returns and the standby has not: synchronous replication is off, no
\* walsender is streaming, or the backend is being terminated and cancels the
\* wait.  bumpGxid() is not told.
BumpUnsynced(p) ==
    /\ mode = "up"
    /\ pc[p] = "sync"
    /\ synced < Len(wal)
    /\ pc' = [pc EXCEPT ![p] = "count"]
    /\ unwaited' = unwaited \union NewBatch
    /\ UNCHANGED <<mode, nextGxid, GxidCount, bumpLock, nextLimit, bumpEvent, gxid,
                   walVars, ckpt, shutdowns, assigned, lost>>

\* Enlarge the batch and release the lock.
BumpCount(p) ==
    /\ mode = "up"
    /\ pc[p] = "count"
    /\ GxidCount' = GxidCount + Prefetch
    /\ bumpLock' = NoProc
    /\ nextLimit' = 0
    /\ pc' = [pc EXCEPT ![p] = AfterBump(p)]
    /\ UNCHANGED <<mode, nextGxid, bumpEvent, gxid, walVars, ckpt, shutdowns, history>>

\* The new limit would come too close to the last gxid: PANIC, which restarts
\* the coordinator.
BumpPanic(p) ==
    /\ mode = "up"
    /\ pc[p] = "lock"
    /\ bumpLock = NoProc
    /\ GxidCount <= Threshold
    /\ BatchEnd + Prefetch >= LastGxid - Prefetch
    /\ CrashTo(flushed)

-----------------------------------------------------------------------------
(* The walreceiver of the standby coordinator *)

\* Mutant: WAL is streamed before it is flushed on the coordinator.
StandbyReceiveUnflushed ==
    /\ mode = "up"
    /\ synced < Len(wal)
    /\ synced' = synced + 1
    /\ UNCHANGED <<mode, nextGxid, GxidCount, bumpLock, nextLimit, pc, bumpEvent, gxid,
                   wal, flushed, control, ckpt, shutdowns, history>>

StandbyReceive ==
    /\ mode = "up"
    /\ synced < flushed
    /\ synced' = synced + 1
    /\ UNCHANGED <<mode, nextGxid, GxidCount, bumpLock, nextLimit, pc, bumpEvent, gxid,
                   wal, flushed, control, ckpt, shutdowns, history>>

-----------------------------------------------------------------------------
(* CreateCheckPoint(), online *)

\* Fix the redo pointer: the next WAL record is the first one to replay.
CkptRedo ==
    /\ mode = "up"
    /\ ckpt.at = "none"
    /\ ckpt' = [at |-> "redo", redo |-> Len(wal) + 1, gxid |-> FirstGxid]
    /\ UNCHANGED <<mode, nextGxid, GxidCount, bumpLock, nextLimit, pc, bumpEvent, gxid,
                   walVars, shutdowns, history>>

\* Mutant: the checkpoint does not take GxidBumpLock.
CkptGxidNoLock ==
    /\ mode = "up"
    /\ ckpt.at = "redo"
    /\ ckpt' = [at |-> "gxid", redo |-> ckpt.redo, gxid |-> BatchEnd]
    /\ UNCHANGED <<mode, nextGxid, GxidCount, bumpLock, nextLimit, pc, bumpEvent, gxid,
                   walVars, shutdowns, history>>

\* Read the end of the batch, holding GxidBumpLock in shared mode.
CkptGxid ==
    /\ mode = "up"
    /\ ckpt.at = "redo"
    /\ bumpLock = NoProc
    /\ ckpt' = [at |-> "gxid", redo |-> ckpt.redo, gxid |-> BatchEnd]
    /\ UNCHANGED <<mode, nextGxid, GxidCount, bumpLock, nextLimit, pc, bumpEvent, gxid,
                   walVars, shutdowns, history>>

\* Write and flush the checkpoint record, then update the control file.
CkptWrite ==
    /\ mode = "up"
    /\ ckpt.at = "gxid"
    /\ flushed' = Len(wal)
    /\ control' = [redo |-> ckpt.redo, gxid |-> ckpt.gxid]
    /\ ckpt' = NoCkpt
    /\ UNCHANGED <<mode, nextGxid, GxidCount, bumpLock, nextLimit, pc, bumpEvent, gxid,
                   wal, synced, shutdowns, history>>

-----------------------------------------------------------------------------
(* Crash, restart, shutdown and promotion *)

\* A crash: anything from the flushed part of WAL to all of it survives.
Crash ==
    /\ mode = "up"
    /\ \E n \in flushed .. Len(wal) : CrashTo(n)

\* StartupXLOG(): redo, then the end-of-recovery checkpoint, which is a
\* shutdown checkpoint and so records nextGxid exactly.
StartupXLOG ==
    /\ mode = "redo"
    /\ mode' = "up"
    /\ nextGxid' = RedoGxid(Len(wal))
    /\ GxidCount' = 0
    /\ wal' = LogGxid(wal, nextGxid')
    /\ flushed' = Len(wal')
    /\ control' = [redo |-> Len(wal') + 1, gxid |-> nextGxid']
    /\ UNCHANGED <<bumpLock, nextLimit, pc, bumpEvent, gxid, synced, ckpt, shutdowns,
                   history>>

\* Clean shutdown and restart: no process is left, and the shutdown checkpoint
\* records nextGxid without the rest of the batch.
Shutdown ==
    /\ mode = "up"
    /\ shutdowns < MaxShutdowns
    /\ ckpt.at = "none"
    /\ pc[DtxRecovery] = "idle"
    /\ \A b \in Backend : pc[b] = "idle" /\ gxid[b] = InvalidGxid
    /\ shutdowns' = shutdowns + 1
    /\ wal' = LogGxid(wal, nextGxid)
    /\ flushed' = Len(wal')
    /\ control' = [redo |-> Len(wal') + 1, gxid |-> nextGxid]
    /\ GxidCount' = 0
    /\ nextLimit' = 0
    /\ bumpEvent' = FALSE
    /\ pc' = [pc EXCEPT ![DtxRecovery] = "start"]
    /\ UNCHANGED <<mode, nextGxid, bumpLock, gxid, synced, ckpt, history>>

\* The coordinator is lost and its standby is promoted: WAL goes on from what
\* the standby has, all of it replayed there.
Promote ==
    /\ CrashedProcesses
    /\ wal' = SubSeq(wal, 1, synced)
    /\ flushed' = synced
    /\ control' = [redo |-> 1, gxid |-> FirstGxid]
    /\ lost' = lost \union {g \in assigned \intersect unwaited : g >= PromotedGxid}
    /\ UNCHANGED <<nextGxid, synced, shutdowns, assigned, unwaited>>

-----------------------------------------------------------------------------

Next ==
    \/ \E b \in Backend :
          ActivateStart(b) \/ ActivateAlloc(b) \/ ActivateBump(b) \/ FinishGxact(b)
    \/ RecoveryBump \/ RecoveryResetEvent
    \/ \E p \in Proc :
          \/ BumpWait(p) \/ BumpWaited(p) \/ BumpNotNeeded(p) \/ BumpLimit(p)
          \/ BumpInsert(p) \/ BumpFlush(p) \/ BumpSynced(p) \/ BumpUnsynced(p)
          \/ BumpCount(p) \/ BumpPanic(p)
    \/ StandbyReceive
    \/ CkptRedo \/ CkptGxid \/ CkptWrite
    \/ Crash \/ StartupXLOG \/ Shutdown \/ Promote

Spec == Init /\ [][Next]_vars

-----------------------------------------------------------------------------
(* Properties *)

\* Every variable has its type, and the standby never has WAL that the
\* coordinator has not flushed (walsender streams flushed WAL only).
TypeOK ==
    /\ mode \in {"up", "redo"}
    /\ nextGxid \in Nat \ {0}
    /\ GxidCount \in Nat
    /\ bumpLock \in Proc \union {NoProc}
    /\ nextLimit \in Nat
    /\ pc \in [Proc -> BackendPC \union RecoveryPC]
    /\ bumpEvent \in BOOLEAN
    /\ gxid \in [Backend -> Nat]
    /\ wal \in Seq(Nat \ {0})
    /\ flushed \in 0 .. Len(wal)
    /\ synced \in 0 .. flushed
    /\ control \in [redo : Nat \ {0}, gxid : Nat \ {0}]
    /\ ckpt \in [at : {"none", "redo", "gxid"}, redo : Nat \ {0}, gxid : Nat \ {0}]
    /\ shutdowns \in Nat
    /\ assigned \subseteq Nat
    /\ unwaited \subseteq Nat
    /\ lost \subseteq assigned

\* Wherever a crash cuts the WAL, redo resumes above every gxid handed out
\* (XLogPutNextGxid flushes before bumpGxid enlarges the batch), but for those a
\* promotion has lost already.  A standby promoted now resumes above those
\* whose batch it had confirmed (XLogPutNextGxid waits in SyncRepWaitForLSN).
RestartAboveAssigned ==
    /\ \A g \in assigned \ lost, n \in flushed .. Len(wal) : g < RedoGxid(n)
    /\ \A g \in assigned \ (lost \union unwaited) : g < PromotedGxid

\* A step of currentDtxActivate never hands out a gxid that was handed out
\* before, by any incarnation of the coordinator, unless bumpGxid had gone on
\* without the standby's confirmation and the standby's promotion forgot it.
NoGxidReuse ==
    [][\A b \in Backend :
          gxid'[b] \notin {gxid[b], InvalidGxid} => gxid'[b] \notin assigned \ lost]_vars

=============================================================================
