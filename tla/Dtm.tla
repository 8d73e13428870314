-------------------------------- MODULE Dtm --------------------------------
(***************************************************************************)
(* Distributed transactions: the coordinator backend (QD) drives two-phase *)
(* commit over the segments' writer processes (QEs); the dtx recovery      *)
(* worker finishes what a crashed or given-up QD left behind.              *)
(*                                                                         *)
(* A transaction is named by its gxid and run by one QD.  dtxState is      *)
(* MyTmGxactLocal->state of that QD, with the DTX_STATE_ prefix dropped and *)
(* DONE for a gxid that has left the ProcArray.  While a protocol command  *)
(* is being dispatched the state tells which one, so that qe, ans and late *)
(* suffice to describe the connections: the context of the QE on each,     *)
(* where the current command has got to, and what the QEs of broken        *)
(* connections may still do.  A segment that crashes is one whose          *)
(* connections all break and whose running commands all vanish.            *)
(***************************************************************************)
EXTENDS Naturals, FiniteSets

CONSTANTS
    Gxid,       \* distributed transactions
    Seg,        \* primary segments
    NoGxid,     \* no transaction
    HasStandby  \* whether the cluster has a standby coordinator

ASSUME GxidAssumption == NoGxid \notin Gxid
ASSUME SegAssumption == IsFiniteSet(Seg)
ASSUME StandbyAssumption == HasStandby \in BOOLEAN

VARIABLES
    dtxState,           \* [Gxid -> DtxState]
    dtxSegments,        \* the segments that take part
    wrote,              \* those that wrote xlog
    qdXid,              \* transactions with a local xid on the QD
    writerGangLost,     \* transactions whose QD found a writer gone
    qe,                 \* context of the QE at the end of each connection
    ans,                \* the current command on each connection
    late,               \* what QEs of broken connections may still do
    xact,               \* the transaction on each segment
    commitLog,          \* the distributed commit record
    forgot,             \* transactions with a forget record
    unconfirmed,        \* commits broadcast before the standby had their record
    lost,               \* those of them whose record a promotion has lost
    dtmStarted,         \* *shmDtmStarted
    committedArray,     \* shmCommittedGxidArray, as redo left it
    wpc,                \* what the dtx recovery worker is doing
    recovered,          \* entries of committedArray it has finished
    htab,               \* in-doubt transactions it has gathered
    cur,                \* the one it is broadcasting about, or NoGxid
    wans,               \* its command on each segment
    outcome             \* what the client was told

qdVars == <<dtxState, writerGangLost, outcome>>
dataVars == <<dtxSegments, wrote, qdXid>>
qeVars == <<qe, ans>>
logVars == <<commitLog, forgot, unconfirmed, lost>>
workerVars == <<dtmStarted, committedArray, wpc, recovered, htab, cur, wans>>
vars == <<qdVars, dataVars, qeVars, late, xact, logVars, workerVars>>

\* DTX_CONTEXT_LOCAL_ONLY, _QE_TWO_PHASE_EXPLICIT_WRITER or _IMPLICIT_WRITER,
\* _QE_PREPARED; LOST when there is no connection.
Context == {"LOCAL", "WRITER", "PREPARED", "LOST"}
Answer == {"none", "sent", "ok", "err"}
LateEffect == {"prepare", "commitOnePhase", "commitPrepared", "abortPrepared"}
XactStatus == {"none", "active", "prepared", "committed", "aborted"}
AbortNotifying == {"NOTIFYING_ABORT_NO_PREPARED", "NOTIFYING_ABORT_SOME_PREPARED",
                   "NOTIFYING_ABORT_PREPARED"}
DtxState == {"NONE", "ACTIVE_DISTRIBUTED", "ONE_PHASE_COMMIT", "NOTIFYING_ONE_PHASE_COMMIT",
             "PREPARING", "PREPARED", "INSERTED_COMMITTED", "NOTIFYING_COMMIT_PREPARED",
             "RETRY_COMMIT_PREPARED", "INSERTED_FORGET_COMMITTED", "RETRY_ABORT_PREPARED",
             "DONE"} \union AbortNotifying

\* IsDtxInProgress(): some backend has this gxid.
InProgress(t) == dtxState[t] \notin {"NONE", "DONE"}

\* prepareDtxTransaction(): no segment wrote, or one did and the QD did not.
OnePhase(t) ==
    \/ wrote[t] = {}
    \/ t \notin qdXid /\ Cardinality(dtxSegments[t]) < 2

-----------------------------------------------------------------------------
(* performDtxProtocolCommand(): the command that state st stands for, on a QE
   in context ctx.  Contexts that no switch or requireDistributedTransaction-
   Context() accepts end the QE (FATAL). *)

CommandEffect(st, ctx) ==
    IF ctx = "WRITER" THEN
        IF st = "PREPARING" THEN "prepare"
        ELSE IF st = "NOTIFYING_ONE_PHASE_COMMIT" THEN "commitOnePhase"
        ELSE IF st \in {"NOTIFYING_ABORT_NO_PREPARED", "NOTIFYING_ABORT_SOME_PREPARED"} THEN "abort"
        ELSE "none"
    ELSE IF ctx = "PREPARED" THEN
        IF st = "NOTIFYING_COMMIT_PREPARED" THEN "commitPrepared"
        ELSE IF st \in {"NOTIFYING_ABORT_SOME_PREPARED", "NOTIFYING_ABORT_PREPARED"}
             THEN "abortPrepared"
        ELSE "none"
    ELSE IF st = "RETRY_COMMIT_PREPARED" THEN "commitPrepared"
    ELSE IF st = "RETRY_ABORT_PREPARED" THEN "abortPrepared"
    ELSE "none"

CommandFatal(st, ctx) ==
    \/ st \in {"PREPARING", "NOTIFYING_ONE_PHASE_COMMIT"} /\ ctx = "PREPARED"
    \/ st \in {"NOTIFYING_COMMIT_PREPARED", "NOTIFYING_ABORT_PREPARED"} /\ ctx # "PREPARED"
    \/ st \in {"RETRY_COMMIT_PREPARED", "RETRY_ABORT_PREPARED"} /\ ctx # "LOCAL"

\* "not found": the transaction of this QE, or the prepared one it must finish.
CommandError(st, ctx, x) ==
    \/ st \in {"PREPARING", "NOTIFYING_ONE_PHASE_COMMIT"} /\ ctx = "LOCAL"
    \/ st # "NOTIFYING_ABORT_NO_PREPARED" /\ ctx = "PREPARED" /\ x # "prepared"

\* What an effect makes of the transaction on its segment.  Finishing a
\* prepared transaction that is not there changes nothing.
After(e, x) ==
    IF x = "active" THEN
        IF e = "prepare" THEN "prepared"
        ELSE IF e = "commitOnePhase" THEN "committed"
        ELSE IF e = "abort" THEN "aborted"
        ELSE x
    ELSE IF x = "prepared" THEN
        IF e = "commitPrepared" THEN "committed"
        ELSE IF e = "abortPrepared" THEN "aborted"
        ELSE x
    ELSE x

\* What a broken connection may leave running.  A QE that is aborting its own
\* transaction, or is idle in it, ends by itself: see QEExit.
Lingering(st, ctx) == {CommandEffect(st, ctx)} \ {"none", "abort"}

-----------------------------------------------------------------------------
(* doDispatchDtxProtocolCommand() *)

RoundOver(t, segs) == \A s \in segs : ans[t][s] \in {"ok", "err"}
Succeeded(t, segs) == \A s \in segs : ans[t][s] = "ok"

\* The segments of the current round: retryAbortPrepared() goes to all.
RoundSegs(t) == IF dtxState[t] = "RETRY_ABORT_PREPARED" THEN Seg ELSE dtxSegments[t]

NotSent == [s \in Seg |-> "none"]
NoGang == [s \in Seg |-> "LOST"]

\* AllocateGang() gives a segment without a connection a new QE, which knows of
\* no transaction; then the command goes to all of segs.
Dispatch(t, segs, gang) ==
    /\ qe' = [qe EXCEPT ![t] = [s \in Seg |-> IF s \in segs /\ gang[s] = "LOST"
                                              THEN "LOCAL" ELSE gang[s]]]
    /\ ans' = [ans EXCEPT ![t] = [s \in Seg |-> IF s \in segs THEN "sent" ELSE "none"]]

\* A connection breaks, or its QD ends: what was sent on it may still run.
LateAfterLoss(t, s) ==
    late[t][s] \union (IF ans[t][s] = "sent" THEN Lingering(dtxState[t], qe[t][s]) ELSE {})

-----------------------------------------------------------------------------

Init ==
    /\ dtxState = [t \in Gxid |-> "NONE"]
    /\ dtxSegments = [t \in Gxid |-> {}]
    /\ wrote = [t \in Gxid |-> {}]
    /\ qdXid = {}
    /\ writerGangLost = {}
    /\ qe = [t \in Gxid |-> NoGang]
    /\ ans = [t \in Gxid |-> NotSent]
    /\ late = [t \in Gxid |-> [s \in Seg |-> {}]]
    /\ xact = [t \in Gxid |-> [s \in Seg |-> "none"]]
    /\ commitLog = [t \in Gxid |-> "none"]
    /\ forgot = {}
    /\ unconfirmed = {}
    /\ lost = {}
    /\ dtmStarted = FALSE
    /\ committedArray = {}
    /\ wpc = "commit"
    /\ recovered = {}
    /\ htab = {}
    /\ cur = NoGxid
    /\ wans = NotSent
    /\ outcome = [t \in Gxid |-> "none"]

-----------------------------------------------------------------------------
(* The QD *)

\* setupDtxTransaction() to the last statement: the gangs that
\* addToGxactDtxSegments() recorded, who of them wrote, and whether the QD did.
\* Backends are let in only when the DTM has started.
Begin(t) ==
    /\ dtxState[t] = "NONE"
    /\ dtmStarted
    /\ dtxState' = [dtxState EXCEPT ![t] = "ACTIVE_DISTRIBUTED"]
    /\ \E segs \in SUBSET Seg, w \in SUBSET Seg, x \in {{}, {t}} :
          /\ w \subseteq segs
          /\ dtxSegments' = [dtxSegments EXCEPT ![t] = segs]
          /\ wrote' = [wrote EXCEPT ![t] = w]
          /\ qdXid' = qdXid \union x
          /\ qe' = [qe EXCEPT ![t] = [s \in Seg |-> IF s \in segs THEN "WRITER" ELSE "LOST"]]
          /\ xact' = [xact EXCEPT ![t] = [s \in Seg |-> IF s \in segs THEN "active" ELSE "none"]]
    /\ UNCHANGED <<writerGangLost, outcome, ans, late, logVars, workerVars>>

\* The QD is through with t: resetTmGxact() takes it out of the ProcArray.
Finish(t, told) ==
    /\ dtxState' = [dtxState EXCEPT ![t] = "DONE"]
    /\ outcome' = [outcome EXCEPT ![t] = told]
    /\ ans' = [ans EXCEPT ![t] = NotSent]
    /\ qe' = [qe EXCEPT ![t] = NoGang]

\* prepareDtxTransaction(), one-phase branch, and doNotifyingOnePhaseCommit().
CommitOnePhase(t) ==
    /\ dtxState[t] = "ACTIVE_DISTRIBUTED"
    /\ OnePhase(t)
    /\ IF dtxSegments[t] = {}
       THEN /\ dtxState' = [dtxState EXCEPT ![t] = "ONE_PHASE_COMMIT"]
            /\ UNCHANGED qeVars
       ELSE /\ dtxState' = [dtxState EXCEPT ![t] = "NOTIFYING_ONE_PHASE_COMMIT"]
            /\ Dispatch(t, dtxSegments[t], qe[t])
    /\ UNCHANGED <<writerGangLost, outcome, dataVars, late, xact, logVars, workerVars>>

\* The rest of CommitTransaction() when the segments have committed.
EndOnePhase(t) ==
    /\ dtxState[t] \in {"ONE_PHASE_COMMIT", "NOTIFYING_ONE_PHASE_COMMIT"}
    /\ Succeeded(t, dtxSegments[t])
    /\ Finish(t, "committed")
    /\ UNCHANGED <<writerGangLost, dataVars, late, xact, logVars, workerVars>>

\* doPrepareTransaction(), up to the dispatch and after it.
Prepare(t) ==
    /\ dtxState[t] = "ACTIVE_DISTRIBUTED"
    /\ ~OnePhase(t)
    /\ dtxState' = [dtxState EXCEPT ![t] = "PREPARING"]
    /\ Dispatch(t, dtxSegments[t], qe[t])
    /\ UNCHANGED <<writerGangLost, outcome, dataVars, late, xact, logVars, workerVars>>

EndPrepare(t) ==
    /\ dtxState[t] = "PREPARING"
    /\ Succeeded(t, dtxSegments[t])
    /\ dtxState' = [dtxState EXCEPT ![t] = "PREPARED"]
    /\ ans' = [ans EXCEPT ![t] = NotSent]
    /\ UNCHANGED <<writerGangLost, outcome, dataVars, qe, late, xact, logVars, workerVars>>

\* RecordTransactionCommit() in the QD: XactLogCommitRecord() with
\* insertedDistributedCommitted(), and later XLogFlush() of the record.
InsertCommitted(t) ==
    /\ dtxState[t] = "PREPARED"
    /\ dtxState' = [dtxState EXCEPT ![t] = "INSERTED_COMMITTED"]
    /\ commitLog' = [commitLog EXCEPT ![t] = "inserted"]
    /\ UNCHANGED <<writerGangLost, outcome, dataVars, qeVars, late, xact, forgot, unconfirmed,
                   lost, workerVars>>

FlushCommitted(t) ==
    /\ dtxState[t] = "INSERTED_COMMITTED"
    /\ commitLog[t] = "inserted"
    /\ commitLog' = [commitLog EXCEPT ![t] = "flushed"]
    /\ UNCHANGED <<qdVars, dataVars, qeVars, late, xact, forgot, unconfirmed, lost, workerVars>>

\* COMMIT PREPARED of t goes out: noted, if the standby does not have its record.
NoteUnconfirmed(t) ==
    /\ unconfirmed' = IF commitLog[t] = "synced" THEN unconfirmed ELSE unconfirmed \union {t}
    /\ UNCHANGED <<commitLog, forgot, lost>>

\* Mutant: the broadcast does not wait for the flush.
NotifyUnflushed(t) ==
    /\ dtxState[t] = "INSERTED_COMMITTED"
    /\ dtxState' = [dtxState EXCEPT ![t] = "NOTIFYING_COMMIT_PREPARED"]
    /\ Dispatch(t, dtxSegments[t], qe[t])
    /\ NoteUnconfirmed(t)
    /\ UNCHANGED <<writerGangLost, outcome, dataVars, late, xact, workerVars>>

\* SyncRepWaitForLSN() returns: the standby has the record; or there is none to
\* wait for, it has gone, or the backend is told to die, and then it may not
\* have it.  Either way doNotifyingCommitPrepared() follows.
NotifyCommitPrepared(t) ==
    /\ dtxState[t] = "INSERTED_COMMITTED"
    /\ commitLog[t] \in {"flushed", "synced"}
    /\ dtxState' = [dtxState EXCEPT ![t] = "NOTIFYING_COMMIT_PREPARED"]
    /\ Dispatch(t, dtxSegments[t], qe[t])
    /\ NoteUnconfirmed(t)
    /\ UNCHANGED <<writerGangLost, outcome, dataVars, late, xact, workerVars>>

CommitRoundFailed(t) ==
    /\ dtxState[t] \in {"NOTIFYING_COMMIT_PREPARED", "RETRY_COMMIT_PREPARED"}
    /\ RoundOver(t, dtxSegments[t])
    /\ ~Succeeded(t, dtxSegments[t])

\* One turn of its retry loop: ResetAllGangs() and a new broadcast.
RetryCommitPrepared(t) ==
    /\ CommitRoundFailed(t)
    /\ dtxState' = [dtxState EXCEPT ![t] = "RETRY_COMMIT_PREPARED"]
    /\ Dispatch(t, dtxSegments[t], NoGang)
    /\ UNCHANGED <<writerGangLost, outcome, dataVars, late, xact, logVars, workerVars>>

\* Mutant: forgets when all have answered, whatever they answered.
InsertForgetAfterRound(t) ==
    /\ dtxState[t] \in {"NOTIFYING_COMMIT_PREPARED", "RETRY_COMMIT_PREPARED"}
    /\ RoundOver(t, dtxSegments[t])
    /\ dtxState' = [dtxState EXCEPT ![t] = "INSERTED_FORGET_COMMITTED"]
    /\ forgot' = forgot \union {t}
    /\ ans' = [ans EXCEPT ![t] = NotSent]
    /\ UNCHANGED <<writerGangLost, outcome, dataVars, qe, late, xact, commitLog, unconfirmed,
                   lost, workerVars>>

\* doInsertForgetCommitted().  The record is not flushed.
InsertForgetCommitted(t) ==
    /\ dtxState[t] \in {"NOTIFYING_COMMIT_PREPARED", "RETRY_COMMIT_PREPARED"}
    /\ Succeeded(t, dtxSegments[t])
    /\ dtxState' = [dtxState EXCEPT ![t] = "INSERTED_FORGET_COMMITTED"]
    /\ forgot' = forgot \union {t}
    /\ ans' = [ans EXCEPT ![t] = NotSent]
    /\ UNCHANGED <<writerGangLost, outcome, dataVars, qe, late, xact, commitLog, unconfirmed,
                   lost, workerVars>>

\* Mutant: a failed broadcast is left to the recovery worker.
EndCommitEarly(t) ==
    /\ dtxState[t] = "INSERTED_FORGET_COMMITTED" \/ CommitRoundFailed(t)
    /\ Finish(t, "committed")
    /\ UNCHANGED <<writerGangLost, dataVars, late, xact, logVars, workerVars>>

EndCommit(t) ==
    /\ dtxState[t] = "INSERTED_FORGET_COMMITTED"
    /\ Finish(t, "committed")
    /\ UNCHANGED <<writerGangLost, dataVars, late, xact, logVars, workerVars>>

-----------------------------------------------------------------------------
(* AbortTransaction() in the QD *)

\* AtAbort_DispatcherState(): a lost writer takes the other QEs with it.
GangAtAbort(t) == IF t \in writerGangLost THEN NoGang ELSE qe[t]

\* rollbackDtxTransaction() from the states before an abort broadcast.
RollbackOmitted(t) ==
    /\ dtxState[t] \in {"ACTIVE_DISTRIBUTED", "ONE_PHASE_COMMIT", "NOTIFYING_ONE_PHASE_COMMIT"}
    /\ RoundOver(t, dtxSegments[t]) \/ dtxState[t] = "ACTIVE_DISTRIBUTED"
    /\ dtxSegments[t] = {} \/ t \in writerGangLost
    /\ Finish(t, "aborted")
    /\ UNCHANGED <<writerGangLost, dataVars, late, xact, logVars, workerVars>>

RollbackNoPrepared(t) ==
    /\ dtxState[t] \in {"ACTIVE_DISTRIBUTED", "NOTIFYING_ONE_PHASE_COMMIT"}
    /\ RoundOver(t, dtxSegments[t]) \/ dtxState[t] = "ACTIVE_DISTRIBUTED"
    /\ dtxSegments[t] # {} /\ t \notin writerGangLost
    /\ dtxState' = [dtxState EXCEPT ![t] = "NOTIFYING_ABORT_NO_PREPARED"]
    /\ Dispatch(t, dtxSegments[t], qe[t])
    /\ UNCHANGED <<writerGangLost, outcome, dataVars, late, xact, logVars, workerVars>>

\* The Prepare broadcast failed.
RollbackPreparing(t) ==
    /\ dtxState[t] = "PREPARING"
    /\ RoundOver(t, dtxSegments[t])
    /\ ~Succeeded(t, dtxSegments[t])
    /\ IF t \in writerGangLost
       THEN /\ dtxState' = [dtxState EXCEPT ![t] = "RETRY_ABORT_PREPARED"]
            /\ qe' = [qe EXCEPT ![t] = NoGang]
            /\ ans' = [ans EXCEPT ![t] = NotSent]
       ELSE /\ dtxState' = [dtxState EXCEPT ![t] = "NOTIFYING_ABORT_SOME_PREPARED"]
            /\ Dispatch(t, dtxSegments[t], qe[t])
    /\ UNCHANGED <<writerGangLost, outcome, dataVars, late, xact, logVars, workerVars>>

\* An error between the Prepare broadcast and the commit record.
RollbackPrepared(t) ==
    /\ dtxState[t] = "PREPARED"
    /\ dtxState' = [dtxState EXCEPT ![t] = "NOTIFYING_ABORT_PREPARED"]
    /\ Dispatch(t, dtxSegments[t], GangAtAbort(t))
    /\ UNCHANGED <<writerGangLost, outcome, dataVars, late, xact, logVars, workerVars>>

\* doNotifyingAbort(), after its broadcast, and the end of AbortTransaction().
AbortNotified(t) ==
    /\ dtxState[t] \in AbortNotifying
    /\ RoundOver(t, dtxSegments[t])
    /\ dtxState[t] = "NOTIFYING_ABORT_NO_PREPARED" \/ Succeeded(t, dtxSegments[t])
    /\ Finish(t, "aborted")
    /\ UNCHANGED <<writerGangLost, dataVars, late, xact, logVars, workerVars>>

AbortNotifyFailed(t) ==
    /\ dtxState[t] \in {"NOTIFYING_ABORT_SOME_PREPARED", "NOTIFYING_ABORT_PREPARED"}
    /\ RoundOver(t, dtxSegments[t])
    /\ ~Succeeded(t, dtxSegments[t])
    /\ dtxState' = [dtxState EXCEPT ![t] = "RETRY_ABORT_PREPARED"]
    /\ ans' = [ans EXCEPT ![t] = NotSent]
    /\ UNCHANGED <<writerGangLost, outcome, dataVars, qe, late, xact, logVars, workerVars>>

\* retryAbortPrepared(): no broadcast yet, or the last one failed.
RetryAbortPending(t) ==
    /\ dtxState[t] = "RETRY_ABORT_PREPARED"
    /\ ans[t] = NotSent \/ (RoundOver(t, Seg) /\ ~Succeeded(t, Seg))

RetryAbortPrepared(t) ==
    /\ RetryAbortPending(t)
    /\ Dispatch(t, Seg, NoGang)
    /\ UNCHANGED <<qdVars, dataVars, late, xact, logVars, workerVars>>

\* dtx_phase2_retry_second is over: left to the dtx recovery worker.
GiveUpAbort(t) ==
    /\ RetryAbortPending(t)
    /\ Finish(t, "aborted")
    /\ UNCHANGED <<writerGangLost, dataVars, late, xact, logVars, workerVars>>

RetryAbortSucceeded(t) ==
    /\ dtxState[t] = "RETRY_ABORT_PREPARED"
    /\ Succeeded(t, Seg)
    /\ Finish(t, "aborted")
    /\ UNCHANGED <<writerGangLost, dataVars, late, xact, logVars, workerVars>>

\* The QD's process ends (FATAL) and rolls back without dispatching.  It cannot
\* while the Prepare broadcast holds interrupts off, nor from the commit record on.
QDExit(t) ==
    /\ \/ dtxState[t] \in {"ACTIVE_DISTRIBUTED", "ONE_PHASE_COMMIT", "NOTIFYING_ONE_PHASE_COMMIT",
                           "PREPARED", "RETRY_ABORT_PREPARED"} \union AbortNotifying
       \/ dtxState[t] = "PREPARING" /\ RoundOver(t, dtxSegments[t])
    /\ Finish(t, "none")
    /\ late' = [late EXCEPT ![t] = [s \in Seg |-> LateAfterLoss(t, s)]]
    /\ UNCHANGED <<writerGangLost, dataVars, xact, logVars, workerVars>>

-----------------------------------------------------------------------------
(* The QEs *)

\* Mutant: the QE's context is not reset by finishDistributedTransactionContext().
QEPerformUnfinished(t, s) ==
    /\ ans[t][s] = "sent"
    /\ ~CommandFatal(dtxState[t], qe[t][s])
    /\ ~CommandError(dtxState[t], qe[t][s], xact[t][s])
    /\ xact' = [xact EXCEPT ![t][s] = After(CommandEffect(dtxState[t], qe[t][s]), @)]
    /\ qe' = [qe EXCEPT ![t][s] = IF @ = "PREPARED" THEN "FINISH_PREPARED" ELSE "PREPARED"]
    /\ ans' = [ans EXCEPT ![t][s] = "ok"]
    /\ UNCHANGED <<qdVars, dataVars, late, logVars, workerVars>>

\* The command succeeds.
QEPerform(t, s) ==
    /\ ans[t][s] = "sent"
    /\ ~CommandFatal(dtxState[t], qe[t][s])
    /\ ~CommandError(dtxState[t], qe[t][s], xact[t][s])
    /\ xact' = [xact EXCEPT ![t][s] = After(CommandEffect(dtxState[t], qe[t][s]), @)]
    /\ qe' = [qe EXCEPT ![t][s] = IF dtxState[t] = "PREPARING" THEN "PREPARED" ELSE "LOCAL"]
    /\ ans' = [ans EXCEPT ![t][s] = "ok"]
    /\ UNCHANGED <<qdVars, dataVars, late, logVars, workerVars>>

\* It raises ERROR, as it must, or because the prepared transaction is busy, a
\* disk is full, ...: the QE's own transaction aborts, a prepared one stays.
QEError(t, s) ==
    /\ ans[t][s] = "sent"
    /\ ~CommandFatal(dtxState[t], qe[t][s])
    /\ xact' = [xact EXCEPT ![t][s] = IF qe[t][s] = "WRITER" THEN After("abort", @) ELSE @]
    /\ qe' = [qe EXCEPT ![t][s] = "LOCAL"]
    /\ ans' = [ans EXCEPT ![t][s] = "err"]
    /\ UNCHANGED <<qdVars, dataVars, late, logVars, workerVars>>

\* It raises FATAL: the QE ends, and the QD finds the writer gone.
QEFatal(t, s) ==
    /\ ans[t][s] = "sent"
    /\ CommandFatal(dtxState[t], qe[t][s])
    /\ qe' = [qe EXCEPT ![t][s] = "LOST"]
    /\ ans' = [ans EXCEPT ![t][s] = "err"]
    /\ writerGangLost' = writerGangLost \union {t}
    /\ UNCHANGED <<dtxState, outcome, dataVars, late, xact, logVars, workerVars>>

\* The connection breaks.  If a command was running it may yet complete.
LoseConnection(t, s) ==
    /\ qe[t][s] # "LOST"
    /\ late' = [late EXCEPT ![t][s] = LateAfterLoss(t, s)]
    /\ qe' = [qe EXCEPT ![t][s] = "LOST"]
    /\ ans' = [ans EXCEPT ![t][s] = IF @ = "sent" THEN "err" ELSE @]
    /\ writerGangLost' = writerGangLost \union {t}
    /\ UNCHANGED <<dtxState, outcome, dataVars, xact, logVars, workerVars>>

\* The dispatcher raises ERROR before anything is sent (no gang, no memory).
DispatchFails(t) ==
    /\ RoundSegs(t) # {}
    /\ \A s \in RoundSegs(t) : ans[t][s] = "sent"
    /\ ans' = [ans EXCEPT ![t] = [s \in Seg |-> IF s \in RoundSegs(t) THEN "err" ELSE @[s]]]
    /\ UNCHANGED <<qdVars, dataVars, qe, late, xact, logVars, workerVars>>

\* A command whose QD is no longer listening completes, or its QE ends first
\* (an error, gp_terminate_mpp_backends(), a crash of the segment).
LatePerform(t, s, e) ==
    /\ e \in late[t][s]
    /\ xact' = [xact EXCEPT ![t][s] = After(e, @)]
    /\ late' = [late EXCEPT ![t][s] = @ \ {e}]
    /\ UNCHANGED <<qdVars, dataVars, qeVars, logVars, workerVars>>

LateDies(t, s, e) ==
    /\ e \in late[t][s]
    /\ late' = [late EXCEPT ![t][s] = @ \ {e}]
    /\ UNCHANGED <<qdVars, dataVars, qeVars, xact, logVars, workerVars>>

\* A QE without a QD, and not in the middle of a command, ends and aborts.
QEExit(t, s) ==
    /\ xact[t][s] = "active"
    /\ qe[t][s] # "WRITER"
    /\ late[t][s] \intersect {"prepare", "commitOnePhase"} = {}
    /\ xact' = [xact EXCEPT ![t][s] = "aborted"]
    /\ UNCHANGED <<qdVars, dataVars, qeVars, late, logVars, workerVars>>

-----------------------------------------------------------------------------
(* The standby coordinator *)

\* It has flushed the record: now or, after it was away, while it catches up.
StandbyReceive(t) ==
    /\ HasStandby
    /\ commitLog[t] = "flushed"
    /\ commitLog' = [commitLog EXCEPT ![t] = "synced"]
    /\ unconfirmed' = unconfirmed \ {t}
    /\ UNCHANGED <<qdVars, dataVars, qeVars, late, xact, forgot, lost, workerVars>>

-----------------------------------------------------------------------------
(* The dtx recovery worker *)

\* Its broadcasts go to new QEs on all segments.
WorkerEffect == IF wpc = "commit" THEN "commitPrepared" ELSE "abortPrepared"
AllSent == [s \in Seg |-> "sent"]

\* What the worker leaves running when it ends.
LateAfterWorker(t, s) ==
    late[t][s] \union (IF t = cur /\ wans[s] = "sent" THEN {WorkerEffect} ELSE {})

\* recoverInDoubtTransactions(): doNotifyCommittedInDoubt() for each entry of
\* shmCommittedGxidArray, then its forget record.  It waits for no standby.
RecoverCommitted(t) ==
    /\ wpc = "commit" /\ cur = NoGxid
    /\ t \in committedArray \ recovered
    /\ cur' = t
    /\ wans' = AllSent
    /\ NoteUnconfirmed(t)
    /\ UNCHANGED <<qdVars, dataVars, qeVars, late, xact, dtmStarted, committedArray, wpc,
                   recovered, htab>>

WorkerPerform(s) ==
    /\ cur # NoGxid
    /\ wans[s] = "sent"
    /\ xact' = [xact EXCEPT ![cur][s] = After(WorkerEffect, @)]
    /\ wans' = [wans EXCEPT ![s] = "ok"]
    /\ UNCHANGED <<qdVars, dataVars, qeVars, late, logVars, dtmStarted, committedArray, wpc,
                   recovered, htab, cur>>

\* The command fails on s (busy, no connection, ...), or only its answer is lost.
WorkerError(s) ==
    /\ cur # NoGxid
    /\ wans[s] = "sent"
    /\ late' = [late EXCEPT ![cur][s] = @ \union {WorkerEffect}]
    /\ wans' = [wans EXCEPT ![s] = "err"]
    /\ UNCHANGED <<qdVars, dataVars, qeVars, xact, logVars, dtmStarted, committedArray, wpc,
                   recovered, htab, cur>>

RecoveredCommitted ==
    /\ wpc = "commit" /\ cur # NoGxid
    /\ \A s \in Seg : wans[s] = "ok"
    /\ forgot' = forgot \union {cur}
    /\ recovered' = recovered \union {cur}
    /\ cur' = NoGxid
    /\ wans' = NotSent
    /\ UNCHANGED <<qdVars, dataVars, qeVars, late, xact, commitLog, unconfirmed, lost,
                   dtmStarted, committedArray, wpc, htab>>

\* The worker's process is replaced; shared memory stays.
WorkerRestart ==
    /\ wpc' = IF dtmStarted THEN "idle" ELSE "commit"
    /\ recovered' = {}
    /\ htab' = {}
    /\ cur' = NoGxid
    /\ wans' = NotSent
    /\ late' = [t \in Gxid |-> [s \in Seg |-> LateAfterWorker(t, s)]]
    /\ UNCHANGED <<qdVars, dataVars, qeVars, xact, logVars, dtmStarted, committedArray>>

\* Mutants: a failed broadcast is skipped; it is noticed only when it failed on
\* every segment.
RecoverCommittedSkips ==
    /\ wpc = "commit" /\ cur # NoGxid
    /\ \A s \in Seg : wans[s] \in {"ok", "err"}
    /\ recovered' = recovered \union {cur}
    /\ cur' = NoGxid
    /\ wans' = NotSent
    /\ UNCHANGED <<qdVars, dataVars, qeVars, late, xact, logVars, dtmStarted, committedArray, wpc,
                   htab>>

RecoverAllFail ==
    /\ wpc = "commit" /\ cur # NoGxid
    /\ \A s \in Seg : wans[s] = "err"
    /\ WorkerRestart

\* doNotifyCommittedInDoubt() fails: FATAL.
RecoverCommittedFails ==
    /\ wpc = "commit" /\ cur # NoGxid
    /\ \A s \in Seg : wans[s] \in {"ok", "err"}
    /\ \E s \in Seg : wans[s] = "err"
    /\ WorkerRestart

\* Any other end of the worker: an ERROR, a signal.
WorkerDies == WorkerRestart

PreparedSomewhere == {t \in Gxid : \E s \in Seg : xact[t][s] = "prepared"}

\* All of the array is done: empty it, and gatherRMInDoubtTransactions().  Its
\* query leaves out what was prepared after it began.
GatherInDoubt ==
    /\ wpc = "commit" /\ cur = NoGxid
    /\ committedArray \subseteq recovered
    /\ committedArray' = {}
    /\ recovered' = {}
    /\ htab' \in SUBSET PreparedSomewhere
    /\ wpc' = "abort"
    /\ UNCHANGED <<qdVars, dataVars, qeVars, late, xact, logVars, dtmStarted, cur, wans>>

\* Mutant: orphans are looked for only before the DTM has started.
GatherOrphansAtStart ==
    /\ wpc = "idle"
    /\ ~dtmStarted
    /\ htab' \in SUBSET PreparedSomewhere \ {{}}
    /\ wpc' = "orphans"
    /\ UNCHANGED <<qdVars, dataVars, qeVars, late, xact, logVars, dtmStarted, committedArray,
                   recovered, cur, wans>>

\* AbortOrphanedPreparedTransactions(): the same query, for those prepared at
\* least gp_dtx_recovery_prepared_period ago.
GatherOrphans ==
    /\ wpc = "idle"
    /\ htab' \in SUBSET PreparedSomewhere \ {{}}
    /\ wpc' = "orphans"
    /\ UNCHANGED <<qdVars, dataVars, qeVars, late, xact, logVars, dtmStarted, committedArray,
                   recovered, cur, wans>>

\* Mutant: IsDtxInProgress() is not asked.
AbortAnyGathered(t) ==
    /\ wpc \in {"abort", "orphans"} /\ cur = NoGxid
    /\ t \in htab
    /\ cur' = t
    /\ wans' = AllSent
    /\ UNCHANGED <<qdVars, dataVars, qeVars, late, xact, logVars, dtmStarted, committedArray, wpc,
                   recovered, htab>>

\* One entry of htab: abortRMInDoubtTransactions() aborts it,
\* abortOrphanedTransactions() only if IsDtxInProgress() does not find it.
AbortInDoubt(t) ==
    /\ wpc \in {"abort", "orphans"} /\ cur = NoGxid
    /\ t \in htab
    /\ wpc = "orphans" => ~InProgress(t)
    /\ cur' = t
    /\ wans' = AllSent
    /\ UNCHANGED <<qdVars, dataVars, qeVars, late, xact, logVars, dtmStarted, committedArray, wpc,
                   recovered, htab>>

SkipInProgress(t) ==
    /\ wpc = "orphans" /\ cur = NoGxid
    /\ t \in htab
    /\ InProgress(t)
    /\ htab' = htab \ {t}
    /\ UNCHANGED <<qdVars, dataVars, qeVars, late, xact, logVars, dtmStarted, committedArray, wpc,
                   recovered, cur, wans>>

\* doAbortInDoubt() returns, whatever the answers.
AbortedInDoubt ==
    /\ wpc \in {"abort", "orphans"} /\ cur # NoGxid
    /\ \A s \in Seg : wans[s] \in {"ok", "err"}
    /\ htab' = htab \ {cur}
    /\ cur' = NoGxid
    /\ wans' = NotSent
    /\ UNCHANGED <<qdVars, dataVars, qeVars, late, xact, logVars, dtmStarted, committedArray, wpc,
                   recovered>>

\* The end of recoverTM(), and of AbortOrphanedPreparedTransactions().
EndGathered ==
    /\ wpc \in {"abort", "orphans"} /\ cur = NoGxid
    /\ htab = {}
    /\ dtmStarted' = TRUE
    /\ wpc' = "idle"
    /\ UNCHANGED <<qdVars, dataVars, qeVars, late, xact, logVars, committedArray, recovered, htab,
                   cur, wans>>

-----------------------------------------------------------------------------
(* Loss of the coordinator *)

\* Every process of the coordinator ends; the new one replays a log that holds
\* the commit records kept.  Redo leaves in the array those without a forget
\* record, and perhaps some that have one: it need not have been flushed.
Restart(kept) ==
    /\ dtmStarted' = FALSE
    /\ wpc' = "commit"
    /\ recovered' = {}
    /\ htab' = {}
    /\ cur' = NoGxid
    /\ wans' = NotSent
    /\ dtxState' = [t \in Gxid |-> IF InProgress(t) THEN "DONE" ELSE dtxState[t]]
    /\ qe' = [t \in Gxid |-> NoGang]
    /\ ans' = [t \in Gxid |-> NotSent]
    /\ late' = [t \in Gxid |-> [s \in Seg |->
                    LateAfterLoss(t, s) \union LateAfterWorker(t, s)]]
    /\ commitLog' = [t \in Gxid |-> IF t \notin kept THEN "none"
                                    ELSE IF commitLog[t] = "inserted" THEN "flushed"
                                    ELSE commitLog[t]]
    /\ unconfirmed' = unconfirmed \intersect kept
    /\ committedArray' \in SUBSET kept
    /\ kept \ forgot \subseteq committedArray'
    /\ UNCHANGED <<writerGangLost, outcome, dataVars, xact, forgot>>

Logged(status) == {t \in Gxid : commitLog[t] \in status}

\* Crash and restart: what was flushed is there, what was only inserted may be.
Crash ==
    /\ \E lucky \in SUBSET Logged({"inserted"}) :
          Restart(lucky \union Logged({"flushed", "synced"}))
    /\ UNCHANGED lost

\* The retry loop of doNotifyingCommitPrepared() runs out of time: PANIC.
CommitPanic(t) == CommitRoundFailed(t) /\ Crash

\* gpactivatestandby: the new coordinator has what the standby had received.
Promote ==
    /\ HasStandby
    /\ Restart(Logged({"synced"}))
    /\ lost' = lost \union unconfirmed

-----------------------------------------------------------------------------

QDStep(t) ==
    \/ EndOnePhase(t) \/ EndPrepare(t) \/ InsertCommitted(t) \/ FlushCommitted(t)
    \/ NotifyCommitPrepared(t) \/ RetryCommitPrepared(t) \/ InsertForgetCommitted(t)
    \/ EndCommit(t) \/ RollbackPreparing(t) \/ AbortNotified(t) \/ AbortNotifyFailed(t)
    \/ RetryAbortPrepared(t) \/ GiveUpAbort(t) \/ RetryAbortSucceeded(t)

\* What the client asks for, and errors in the QD itself.
QDChoice(t) ==
    \/ Begin(t) \/ CommitOnePhase(t) \/ Prepare(t)
    \/ RollbackOmitted(t) \/ RollbackNoPrepared(t) \/ RollbackPrepared(t)

QEStep(t, s) ==
    \/ QEPerform(t, s)
    \/ QEError(t, s)
    \/ QEFatal(t, s)

LateStep(t, s) == \E e \in LateEffect : LatePerform(t, s, e) \/ LateDies(t, s, e)

SegStep(t, s) == QEStep(t, s) \/ LateStep(t, s) \/ QEExit(t, s)

WorkerStep ==
    \/ \E t \in Gxid : RecoverCommitted(t) \/ AbortInDoubt(t) \/ SkipInProgress(t)
    \/ \E s \in Seg : WorkerPerform(s) \/ WorkerError(s)
    \/ RecoveredCommitted \/ RecoverCommittedFails
    \/ GatherInDoubt \/ GatherOrphans \/ AbortedInDoubt \/ EndGathered

Failure ==
    \/ \E t \in Gxid : QDExit(t) \/ DispatchFails(t) \/ CommitPanic(t)
    \/ \E t \in Gxid, s \in Seg : LoseConnection(t, s)
    \/ WorkerDies
    \/ Crash
    \/ Promote

Next ==
    \/ \E t \in Gxid : QDStep(t) \/ QDChoice(t) \/ StandbyReceive(t)
    \/ \E t \in Gxid, s \in Seg : SegStep(t, s)
    \/ WorkerStep
    \/ Failure

Spec == Init /\ [][Next]_vars

\* Processes that can take a step do: a dispatched command gets an answer, the
\* QD and the worker go on, a QE without a QD ends.  The QD may wait for its
\* client as long as it is ACTIVE_DISTRIBUTED.
Fairness ==
    /\ \A t \in Gxid : WF_vars(QDStep(t))
    /\ \A t \in Gxid, s \in Seg : WF_vars(SegStep(t, s))
    /\ WF_vars(WorkerStep)

LiveSpec == Spec /\ Fairness

\* Steps of a system in which nothing breaks any more.
QEErrorInjected(t, s) == QEError(t, s) /\ ~CommandError(dtxState[t], qe[t][s], xact[t][s])
Broken ==
    \/ Failure
    \/ \E t \in Gxid, s \in Seg : QEErrorInjected(t, s)
    \/ \E s \in Seg : WorkerError(s)
FailuresStop == <>[][~Broken]_vars

-----------------------------------------------------------------------------
(* Properties *)

(* Every variable has its type; in particular a QE never keeps a context of
   performDtxProtocolCommand() past the command it belongs to. *)
TypeOK ==
    /\ dtxState \in [Gxid -> DtxState]
    /\ dtxSegments \in [Gxid -> SUBSET Seg]
    /\ wrote \in [Gxid -> SUBSET Seg]
    /\ qdXid \in SUBSET Gxid
    /\ writerGangLost \in SUBSET Gxid
    /\ qe \in [Gxid -> [Seg -> Context]]
    /\ ans \in [Gxid -> [Seg -> Answer]]
    /\ late \in [Gxid -> [Seg -> SUBSET LateEffect]]
    /\ xact \in [Gxid -> [Seg -> XactStatus]]
    /\ commitLog \in [Gxid -> {"none", "inserted", "flushed", "synced"}]
    /\ forgot \in SUBSET Gxid
    /\ unconfirmed \in SUBSET Gxid
    /\ lost \in SUBSET Gxid
    /\ dtmStarted \in BOOLEAN
    /\ committedArray \in SUBSET Gxid
    /\ wpc \in {"commit", "abort", "idle", "orphans"}
    /\ recovered \in SUBSET Gxid
    /\ htab \in SUBSET Gxid
    /\ cur \in Gxid \union {NoGxid}
    /\ wans \in [Seg -> Answer]
    /\ outcome \in [Gxid -> {"none", "committed", "aborted"}]

(* Two-phase commit is atomic: no segment that wrote has committed while another
   aborted, and none has aborted a transaction whose commit record exists or
   committed one whose record does not.  Whatever the coordinator, the standby,
   the recovery worker and the QEs left running by broken connections do, with one
   exception the code leaves open: COMMIT PREPARED went out although
   SyncRepWaitForLSN() returned without the standby having the record, and the
   standby was promoted before it got it. *)
Agreement ==
    \A t \in Gxid \ lost : ~OnePhase(t) =>
        \A s \in dtxSegments[t] :
            /\ xact[t][s] = "aborted" => commitLog[t] = "none"
            /\ xact[t][s] = "committed" => commitLog[t] # "none"

(* The forget record of doInsertForgetCommitted() or of the recovery worker is
   written only when no segment still needs the commit record: a restart that
   finds it may abort every prepared transaction it does not know. *)
ForgetIsSafe ==
    \A t \in forgot : \A s \in dtxSegments[t] : xact[t][s] = "committed"

(* What the client was told is true of every segment that wrote, and stays so:
   after COMMIT all have committed, after an error of a two-phase transaction
   none has or ever will. *)
OutcomeIsTrue ==
    \A t \in Gxid :
        /\ outcome[t] = "committed" => \A s \in wrote[t] : xact[t][s] = "committed"
        /\ outcome[t] = "aborted" /\ ~OnePhase(t) =>
              \A s \in wrote[t] : xact[t][s] # "committed"

(* Once recoverTM() has set *shmDtmStarted and backends are let in, no committed
   transaction of an earlier life of the coordinator is prepared anywhere: the
   new backends see all of it or none. *)
StartedMeansRecovered ==
    dtmStarted =>
        \A t \in Gxid : commitLog[t] # "none" /\ ~InProgress(t) =>
            \A s \in dtxSegments[t] : xact[t][s] = "committed"

(* Once failures stop, no transaction stays prepared on a segment, holding its
   locks: the QD's retries, recoverTM() or the orphan check finish it, even one
   that a late PREPARE made after the abort of the others. *)
PreparedIsResolved ==
    FailuresStop => \A t \in Gxid, s \in Seg :
                        xact[t][s] = "prepared" ~> xact[t][s] # "prepared"

(* Once failures stop, recovery ends and backends are let in: a failing
   broadcast restarts the worker, and its second attempt gets through. *)
RecoveryEnds == FailuresStop => (~dtmStarted ~> dtmStarted)
=============================================================================
