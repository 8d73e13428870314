--------------------------- MODULE DtxCheckpoint ---------------------------
(***************************************************************************)
(* How the coordinator's WAL remembers distributed commits.  A backend logs *)
(* a distributed commit record, has the segments commit, and logs a forget *)
(* record.  A checkpoint lists the transactions between the two, because   *)
(* redo starts after their commit records.  After a crash or a promotion   *)
(* redo rebuilds shmCommittedGxidArray from that list and from the WAL     *)
(* behind it, and the dtx recovery worker commits what is in the array;    *)
(* Dtm takes up there.                                                     *)
(***************************************************************************)
EXTENDS Naturals, Sequences, FiniteSets

CONSTANTS
    Backend,        \* coordinator backends that commit distributed transactions
    Gxid,           \* distributed transactions
    NoGxid,         \* InvalidDistributedTransactionId
    MaxTmGxacts,    \* max_tm_gxacts, the size of shmCommittedGxidArray
    MaxRestarts,    \* bound: crashes, shutdowns and promotions in one behaviour
    MaxWal          \* bound: no online checkpoint or worker's record beyond it

ASSUME GxidAssumption == NoGxid \notin Gxid
ASSUME MaxTmGxactsAssumption == MaxTmGxacts \in Nat
ASSUME BoundAssumption == MaxRestarts \in Nat /\ MaxWal \in Nat

VARIABLES
    mode,           \* where the coordinator is in its life
    pc,             \* where each backend is in CommitTransaction()
    gxid,           \* MyTmGxact->gxid of each backend
    includeInCkpt,  \* backends with MyTmGxact->includeInCkpt
    wal,            \* distributed commit, forget and checkpoint records
    flushed,        \* how much of wal is on disk
    control,        \* position of the last checkpoint record, or 0
    crashed,        \* redo will end with a checkpoint (InRecovery, not a promotion)
    ckpt,           \* the checkpoint being taken
    array,          \* shmCommittedGxidArray
    pos,            \* how much of wal redo has passed
    recovered,      \* entries of array the recovery worker is through with
    used,           \* history: gxids ever handed out
    restarts        \* crashes, shutdowns and promotions so far

vars == <<mode, pc, gxid, includeInCkpt, wal, flushed, control, crashed, ckpt, array, pos,
          recovered, used, restarts>>
backendVars == <<pc, gxid, includeInCkpt, used>>
serverVars == <<mode, control, crashed, restarts>>
recoveryVars == <<array, pos, recovered>>

\* "down" until StartupXLOG() has read its checkpoint, "redo" while it replays,
\* "recover" until recoverTM() is through, "up"; "failed" after a FATAL in redo.
Mode == {"down", "redo", "recover", "up", "failed"}
BackendPC == {"idle", "prepared", "insert", "include", "flush", "notify", "forget"}
CkptPC == {"none", "redo", "wait", "array", "procs", "control"}

\* A commit or forget record names one transaction, a checkpoint record those
\* it lists, and the position from which to redo.
Commit(g) == [kind |-> "commit", gxids |-> {g}, redo |-> 0]
Forget(g) == [kind |-> "forget", gxids |-> {g}, redo |-> 0]
Checkpoint(redo, gs) == [kind |-> "checkpoint", gxids |-> gs, redo |-> redo]

NoCkpt == [at |-> "none", redo |-> 0, todo |-> {}, delaying |-> {}, gxids |-> {}]

\* MyPgXact->delayChkpt: the commit critical section of RecordTransactionCommit().
DelayChkpt(b) == pc[b] \in {"insert", "include", "flush"}

Committed == {g \in Gxid : \E i \in 1 .. Len(wal) : wal[i] = Commit(g)}
Forgotten == {g \in Gxid : \E i \in 1 .. Len(wal) : wal[i] = Forget(g)}

\* The coordinator and its backends write WAL.
Running == mode \in {"recover", "up"}

Init ==
    /\ mode = "up"
    /\ pc = [b \in Backend |-> "idle"]
    /\ gxid = [b \in Backend |-> NoGxid]
    /\ includeInCkpt = {}
    /\ wal = <<>>
    /\ flushed = 0
    /\ control = 0
    /\ crashed = FALSE
    /\ ckpt = NoCkpt
    /\ array = {}
    /\ pos = 0
    /\ recovered = {}
    /\ used = {}
    /\ restarts = 0

-----------------------------------------------------------------------------
(* A backend, from the end of the Prepare broadcast to the end of its
   transaction *)

Prepared(b) ==
    /\ mode = "up"
    /\ pc[b] = "idle"
    /\ \E g \in Gxid \ used :
          /\ gxid' = [gxid EXCEPT ![b] = g]
          /\ used' = used \union {g}
    /\ pc' = [pc EXCEPT ![b] = "prepared"]
    /\ UNCHANGED <<serverVars, includeInCkpt, wal, flushed, ckpt, recoveryVars>>

\* RecordTransactionCommit(): delayChkpt = true.
EnterCommit(b) ==
    /\ pc[b] = "prepared"
    /\ pc' = [pc EXCEPT ![b] = "insert"]
    /\ UNCHANGED <<serverVars, gxid, includeInCkpt, wal, flushed, ckpt, recoveryVars, used>>

\* XactLogCommitRecord(): XLogInsert() ...
InsertCommitted(b) ==
    /\ pc[b] = "insert"
    /\ wal' = Append(wal, Commit(gxid[b]))
    /\ pc' = [pc EXCEPT ![b] = "include"]
    /\ UNCHANGED <<serverVars, gxid, includeInCkpt, flushed, ckpt, recoveryVars, used>>

\* ... and insertedDistributedCommitted().
IncludeInCkpt(b) ==
    /\ pc[b] = "include"
    /\ includeInCkpt' = includeInCkpt \union {b}
    /\ pc' = [pc EXCEPT ![b] = "flush"]
    /\ UNCHANGED <<serverVars, gxid, wal, flushed, ckpt, recoveryVars, used>>

\* XLogFlush(), and the end of the critical section.
FlushCommitted(b) ==
    /\ pc[b] = "flush"
    /\ flushed' = Len(wal)
    /\ pc' = [pc EXCEPT ![b] = "notify"]
    /\ UNCHANGED <<serverVars, gxid, includeInCkpt, wal, ckpt, recoveryVars, used>>

\* doNotifyingCommitPrepared() has committed on all segments:
\* doInsertForgetCommitted() inserts the forget record, unflushed ...
InsertForget(b) ==
    /\ pc[b] = "notify"
    /\ wal' = Append(wal, Forget(gxid[b]))
    /\ pc' = [pc EXCEPT ![b] = "forget"]
    /\ UNCHANGED <<serverVars, gxid, includeInCkpt, flushed, ckpt, recoveryVars, used>>

\* ... and takes the transaction out of checkpoints; CommitTransaction() ends.
ClearInclude(b) ==
    /\ pc[b] = "forget"
    /\ includeInCkpt' = includeInCkpt \ {b}
    /\ gxid' = [gxid EXCEPT ![b] = NoGxid]
    /\ pc' = [pc EXCEPT ![b] = "idle"]
    /\ UNCHANGED <<serverVars, wal, flushed, ckpt, recoveryVars, used>>

-----------------------------------------------------------------------------
(* CreateCheckPoint(), online, in the checkpointer *)

\* Fix the redo pointer.
CkptRedo ==
    /\ Running
    /\ ckpt.at = "none"
    /\ Len(wal) < MaxWal
    /\ ckpt' = [NoCkpt EXCEPT !.at = "redo", !.redo = Len(wal) + 1, !.todo = Backend]
    /\ UNCHANGED <<serverVars, backendVars, wal, flushed, recoveryVars>>

\* GetVirtualXIDsDelayingChkpt(), one entry of the ProcArray at a time.
CkptScan(b) ==
    /\ ckpt.at = "redo"
    /\ b \in ckpt.todo
    /\ ckpt' = [ckpt EXCEPT !.todo = @ \ {b},
                            !.delaying = IF DelayChkpt(b) THEN @ \union {<<b, gxid[b]>>} ELSE @]
    /\ UNCHANGED <<serverVars, backendVars, wal, flushed, recoveryVars>>

CkptScanned ==
    /\ ckpt.at = "redo"
    /\ ckpt.todo = {}
    /\ ckpt' = [ckpt EXCEPT !.at = "wait"]
    /\ UNCHANGED <<serverVars, backendVars, wal, flushed, recoveryVars>>

\* Mutant: the checkpoint does not wait for commit critical sections.
CkptNoWait ==
    /\ ckpt.at = "wait"
    /\ ckpt' = [ckpt EXCEPT !.at = "array", !.delaying = {}]
    /\ UNCHANGED <<serverVars, backendVars, wal, flushed, recoveryVars>>

\* HaveVirtualXIDsDelayingChkpt(): none of those seen is still at it.
CkptWaited ==
    /\ ckpt.at = "wait"
    /\ \A d \in ckpt.delaying : ~(DelayChkpt(d[1]) /\ gxid[d[1]] = d[2])
    /\ ckpt' = [ckpt EXCEPT !.at = "array", !.delaying = {}]
    /\ UNCHANGED <<serverVars, backendVars, wal, flushed, recoveryVars>>

\* getDtxCheckPointInfo(): first the array, under its lock ...
CkptArray ==
    /\ ckpt.at = "array"
    /\ ckpt' = [ckpt EXCEPT !.at = "procs", !.todo = Backend, !.gxids = array]
    /\ UNCHANGED <<serverVars, backendVars, wal, flushed, recoveryVars>>

\* ... then the backends, whose flags change without a lock.
CkptCollect(b) ==
    /\ ckpt.at = "procs"
    /\ b \in ckpt.todo
    /\ ckpt' = [ckpt EXCEPT !.todo = @ \ {b},
                            !.gxids = IF b \in includeInCkpt THEN @ \union {gxid[b]} ELSE @]
    /\ UNCHANGED <<serverVars, backendVars, wal, flushed, recoveryVars>>

\* Mutant: the checkpoint record is not flushed.
CkptWriteUnflushed ==
    /\ ckpt.at = "procs"
    /\ ckpt.todo = {}
    /\ wal' = Append(wal, Checkpoint(ckpt.redo, ckpt.gxids))
    /\ ckpt' = [ckpt EXCEPT !.at = "control", !.redo = Len(wal')]
    /\ UNCHANGED <<serverVars, backendVars, flushed, recoveryVars>>

\* Insert and flush the checkpoint record, then update the control file.
CkptWrite ==
    /\ ckpt.at = "procs"
    /\ ckpt.todo = {}
    /\ wal' = Append(wal, Checkpoint(ckpt.redo, ckpt.gxids))
    /\ flushed' = Len(wal')
    /\ ckpt' = [ckpt EXCEPT !.at = "control", !.redo = Len(wal')]
    /\ UNCHANGED <<serverVars, backendVars, recoveryVars>>

CkptControl ==
    /\ ckpt.at = "control"
    /\ control' = ckpt.redo
    /\ ckpt' = NoCkpt
    /\ UNCHANGED <<mode, backendVars, wal, flushed, crashed, recoveryVars, restarts>>

-----------------------------------------------------------------------------
(* Crash, shutdown, promotion, and redo *)

\* All processes are gone; n records of WAL and a control file that names
\* checkpoint c are left.
Stop(n, c) ==
    /\ restarts < MaxRestarts
    /\ restarts' = restarts + 1
    /\ mode' = "down"
    /\ pc' = [b \in Backend |-> "idle"]
    /\ gxid' = [b \in Backend |-> NoGxid]
    /\ includeInCkpt' = {}
    /\ wal' = SubSeq(wal, 1, n)
    /\ flushed' = n
    /\ control' = c
    /\ ckpt' = NoCkpt
    /\ array' = {}
    /\ pos' = 0
    /\ recovered' = {}
    /\ UNCHANGED used

Crash ==
    /\ mode # "failed"
    /\ \E n \in flushed .. Len(wal) : Stop(n, control)
    /\ crashed' = (crashed \/ Running)

\* A standby has received some of the flushed WAL; its control file names the
\* checkpoint of its last restartpoint, or of the backup it was made from.
Promote ==
    /\ Running
    /\ \E n \in 0 .. flushed :
          \E c \in {0} \union {i \in 1 .. n : wal[i].kind = "checkpoint"} : Stop(n, c)
    /\ crashed' = FALSE

\* CreateCheckPoint() at a shutdown or at the end of recovery: its redo pointer
\* is its own position, and only the array is left to list.
LogShutdownCheckpoint ==
    /\ wal' = Append(wal, Checkpoint(Len(wal) + 1, array))
    /\ flushed' = Len(wal')
    /\ control' = Len(wal')

\* A clean shutdown, perhaps before recoverTM() is through.
Shutdown ==
    /\ Running
    /\ restarts < MaxRestarts
    /\ ckpt.at = "none"
    /\ \A b \in Backend : pc[b] = "idle"
    /\ LogShutdownCheckpoint
    /\ mode' = "down"
    /\ crashed' = FALSE
    /\ array' = {}
    /\ pos' = 0
    /\ recovered' = {}
    /\ restarts' = restarts + 1
    /\ UNCHANGED <<backendVars, ckpt>>

\* Where redo starts, and with which array: ReadCheckpointRecord() calls
\* redoDtxCheckPoint().
RedoFrom == IF control = 0 THEN 1 ELSE wal[control].redo
RedoList == IF control = 0 THEN {} ELSE wal[control].gxids

StartupXLOG ==
    /\ mode = "down"
    /\ mode' = IF Cardinality(RedoList) <= MaxTmGxacts THEN "redo" ELSE "failed"
    /\ array' = RedoList
    /\ pos' = RedoFrom - 1
    /\ UNCHANGED <<backendVars, wal, flushed, control, crashed, ckpt, recovered, restarts>>

\* The next record.  redoDistributedCommitRecord() adds a transaction that is
\* not there, if there is room (else FATAL).
Redo ==
    /\ mode = "redo"
    /\ pos < Len(wal)
    /\ pos' = pos + 1
    /\ array' = CASE wal[pos'].kind = "commit"     -> array \union wal[pos'].gxids
                  [] wal[pos'].kind = "forget"     -> array \ wal[pos'].gxids
                  [] wal[pos'].kind = "checkpoint" -> array
    /\ mode' = IF Cardinality(array') <= MaxTmGxacts THEN mode ELSE "failed"
    /\ UNCHANGED <<backendVars, wal, flushed, control, crashed, ckpt, recovered, restarts>>

\* All of WAL is replayed.  After a crash there is an end-of-recovery
\* checkpoint; a promoted standby leaves it to the checkpointer.  The server is
\* up but for the recovery worker.
EndOfRecovery ==
    /\ mode = "redo"
    /\ pos = Len(wal)
    /\ IF crashed THEN LogShutdownCheckpoint ELSE UNCHANGED <<wal, flushed, control>>
    /\ mode' = "recover"
    /\ UNCHANGED <<backendVars, crashed, ckpt, recoveryVars, restarts>>

\* recoverInDoubtTransactions(): an entry is committed on all segments, and
\* forgotten.
RecoverCommitted(g) ==
    /\ mode = "recover"
    /\ g \in array \ recovered
    /\ Len(wal) < MaxWal
    /\ wal' = Append(wal, Forget(g))
    /\ recovered' = recovered \union {g}
    /\ UNCHANGED <<serverVars, backendVars, flushed, ckpt, array, pos>>

\* The worker fails and starts over.
WorkerRestart ==
    /\ mode = "recover"
    /\ recovered # {}
    /\ recovered' = {}
    /\ UNCHANGED <<serverVars, backendVars, wal, flushed, ckpt, array, pos>>

\* Mutant: recovery passes over entries it could not commit.
DtmStartedEarly ==
    /\ mode = "recover"
    /\ array' = {}
    /\ recovered' = {}
    /\ mode' = "up"
    /\ UNCHANGED <<backendVars, wal, flushed, control, crashed, ckpt, pos, restarts>>

\* *shmNumCommittedGxacts = 0, and backends are let in.
DtmStarted ==
    /\ mode = "recover"
    /\ array = recovered
    /\ array' = {}
    /\ recovered' = {}
    /\ mode' = "up"
    /\ UNCHANGED <<backendVars, wal, flushed, control, crashed, ckpt, pos, restarts>>

-----------------------------------------------------------------------------

BackendStep(b) ==
    \/ Prepared(b) \/ EnterCommit(b) \/ InsertCommitted(b) \/ IncludeInCkpt(b)
    \/ FlushCommitted(b) \/ InsertForget(b) \/ ClearInclude(b)

CkptStep ==
    \/ CkptRedo \/ CkptScanned \/ CkptWaited \/ CkptArray \/ CkptWrite \/ CkptControl
    \/ \E b \in Backend : CkptScan(b) \/ CkptCollect(b)

Next ==
    \/ \E b \in Backend : BackendStep(b)
    \/ CkptStep
    \/ Crash \/ Promote \/ Shutdown \/ StartupXLOG \/ Redo \/ EndOfRecovery
    \/ \E g \in Gxid : RecoverCommitted(g)
    \/ WorkerRestart \/ DtmStarted

Spec == Init /\ [][Next]_vars

-----------------------------------------------------------------------------
(* Properties *)

\* Every variable has its type, and the control file names a checkpoint that is
\* on disk with a redo pointer not behind it.
TypeOK ==
    /\ mode \in Mode
    /\ pc \in [Backend -> BackendPC]
    /\ gxid \in [Backend -> Gxid \union {NoGxid}]
    /\ includeInCkpt \subseteq Backend
    /\ wal \in Seq([kind : {"commit", "forget", "checkpoint"}, gxids : SUBSET Gxid, redo : Nat])
    /\ flushed \in 0 .. Len(wal)
    /\ control \in 0 .. flushed
    /\ crashed \in BOOLEAN
    /\ control # 0 => wal[control].kind = "checkpoint" /\ wal[control].redo \in 1 .. control
    /\ ckpt \in [at : CkptPC, redo : Nat, todo : SUBSET Backend,
                 delaying : SUBSET (Backend \X Gxid), gxids : SUBSET Gxid]
    /\ array \subseteq Gxid
    /\ pos \in 0 .. Len(wal)
    /\ recovered \subseteq array
    /\ used \subseteq Gxid
    /\ restarts \in 0 .. MaxRestarts

\* What the dtx recovery worker finds: whatever checkpoint redo started from and
\* wherever WAL ends, shmCommittedGxidArray holds every transaction with a commit
\* and no forget record, and none without a commit record.  A transaction missing
\* would be aborted on its segments though it is committed; one too many would be
\* committed though it is not.
RedoFindsCommitted ==
    mode = "redo" /\ pos = Len(wal) =>
        /\ Committed \ Forgotten \subseteq array
        /\ array \subseteq Committed

\* No committed transaction loses its owner: once backends are let in, one with
\* a commit and no forget record is still in the hands of the backend that logged
\* the commit record, whatever crashes and checkpoints came before.
OwnedUntilForgotten ==
    mode = "up" => \A g \in Committed \ Forgotten :
                      \E b \in Backend : gxid[b] = g /\ pc[b] \in {"include", "flush", "notify"}

=============================================================================
