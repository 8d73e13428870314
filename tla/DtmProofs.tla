----------------------------- MODULE DtmProofs -----------------------------
(***************************************************************************)
(* Proofs that the safety properties of Dtm hold, and that Dtm implements  *)
(* AtomicCommit, for any number of transactions and segments.              *)
(***************************************************************************)
EXTENDS DtmRefinement, TLAPS

AllCommitted(t) == \A s \in dtxSegments[t] : xact[t][s] = "committed"

\* Segments may have been told to commit t, or will be: the standby has its record,
\* or COMMIT PREPARED went out without that.
MayCommit(t) == commitLog[t] = "synced" \/ t \in unconfirmed \union lost

\* The record, and the states of the QD that has one.
Recorded == {"INSERTED_COMMITTED", "NOTIFYING_COMMIT_PREPARED", "RETRY_COMMIT_PREPARED",
             "INSERTED_FORGET_COMMITTED"}
Notifying == Recorded \ {"INSERTED_COMMITTED"}

\* An abort of the prepared parts of t changes nothing that was committed.
Abortable(t) ==
    /\ dtxState[t] \in {"RETRY_ABORT_PREPARED", "DONE"} \union AbortNotifying
    /\ commitLog[t] = "none" \/ AllCommitted(t)

\* The state of the QD against the log, the other segments and the client.
QDInv(t) ==
    /\ commitLog[t] # "none" => dtxState[t] \in Recorded \union {"DONE"}
    /\ dtxState[t] \in Recorded => commitLog[t] # "none"
    /\ commitLog[t] = "inserted" => dtxState[t] = "INSERTED_COMMITTED"
    /\ dtxState[t] \in Notifying => MayCommit(t)
    /\ dtxState[t] \in {"ONE_PHASE_COMMIT", "NOTIFYING_ONE_PHASE_COMMIT"} => OnePhase(t)
    /\ dtxState[t] = "ONE_PHASE_COMMIT" => dtxSegments[t] = {}
    /\ dtxState[t] = "INSERTED_FORGET_COMMITTED" => AllCommitted(t)
    /\ dtxState[t] = "DONE" /\ commitLog[t] # "none" => t \in committedArray \/ AllCommitted(t)
    /\ dtxState[t] = "NONE" => outcome[t] = "none"
    /\ outcome[t] = "committed" => \A s \in dtxSegments[t] : xact[t][s] = "committed"
    /\ outcome[t] = "aborted" /\ ~OnePhase(t) =>
          dtxState[t] = "DONE" /\ commitLog[t] = "none" /\ t \notin lost
    /\ t \in unconfirmed => commitLog[t] = "flushed"
    /\ t \in lost => dtxState[t] = "DONE" /\ commitLog[t] = "none"
    /\ wrote[t] \subseteq dtxSegments[t]

\* The transaction on a segment (x) against what the QD knows of it: the context
\* of the QE (q), the answer of the current command (a), and what may still run (l).
SegRow(t, s, q, a, l, x) ==
    /\ dtxState[t] = "NONE" => s \notin dtxSegments[t] /\ a = "none" /\ l = {}
    /\ s \in dtxSegments[t] <=> x # "none"
    /\ a = "sent" => q # "LOST"
    /\ q = "WRITER" => x = "active"
    /\ q = "WRITER" => l \intersect {"prepare", "commitOnePhase"} = {}
    /\ s \in dtxSegments[t] /\ (dtxState[t] = "PREPARED" \/ commitLog[t] # "none") =>
          x \in {"prepared", "committed"}
    /\ dtxState[t] = "PREPARING" /\ a = "ok" => x = "prepared"
    /\ dtxState[t] \in {"NOTIFYING_ONE_PHASE_COMMIT", "NOTIFYING_COMMIT_PREPARED",
                        "RETRY_COMMIT_PREPARED"} /\ a = "ok" => x = "committed"
    /\ a # "none" /\ dtxState[t] # "RETRY_ABORT_PREPARED" => s \in dtxSegments[t]
    /\ x = "committed" => OnePhase(t) \/ MayCommit(t)
    /\ "commitOnePhase" \in l => OnePhase(t)
    /\ "commitPrepared" \in l => MayCommit(t)
    /\ "abortPrepared" \in l => Abortable(t)

SegInv(t, s) == SegRow(t, s, qe[t][s], ans[t][s], late[t][s], xact[t][s])

\* Recovery, and the forget records.
WorkerInv ==
    /\ dtmStarted <=> wpc \in {"idle", "orphans"}
    /\ wpc # "commit" => committedArray = {}
    /\ ~dtmStarted => \A t \in Gxid : ~InProgress(t)
    /\ \A t \in committedArray : commitLog[t] \in {"flushed", "synced"}
    /\ recovered \subseteq committedArray
    /\ \A t \in recovered : AllCommitted(t)
    /\ \A t \in forgot : MayCommit(t) /\ AllCommitted(t)
    /\ wpc \in {"commit", "idle"} => htab = {}
    /\ \A t \in htab : dtxState[t] # "NONE" /\ (wpc = "abort" => Abortable(t))
    /\ wpc = "idle" => cur = NoGxid
    /\ cur # NoGxid /\ wpc = "commit" =>
          /\ cur \in committedArray /\ MayCommit(cur)
          /\ \A s \in dtxSegments[cur] : wans[s] = "ok" => xact[cur][s] = "committed"
    /\ cur # NoGxid /\ wpc # "commit" => Abortable(cur)

CoreInv ==
    /\ \A t \in Gxid : QDInv(t)
    /\ \A t \in Gxid, s \in Seg : SegInv(t, s)
    /\ WorkerInv

DtmInv == TypeOK /\ CoreInv

-----------------------------------------------------------------------------

(* Nearly every leaf is first-order reasoning over the finite sets of       *)
(* states, and Zenon closes it; a leaf that needs updated functions cites   *)
(* SMT.                                                                     *)
USE Zenon

(* What the operators of the QE's side return. *)
LEMMA EffectType ==
    ASSUME NEW st, NEW ctx
    PROVE  /\ CommandEffect(st, ctx) \in LateEffect \union {"none", "abort"}
           /\ Lingering(st, ctx) \subseteq LateEffect
  <1>1. CommandEffect(st, ctx) \in LateEffect \union {"none", "abort"}
    BY DEF CommandEffect, LateEffect
  <1> QED
    BY <1>1 DEF Lingering

\* What a command leaves of a QE's local transaction is a status.
LEMMA AfterType ==
    ASSUME NEW e, NEW x \in XactStatus
    PROVE  After(e, x) \in XactStatus
  BY DEF After, XactStatus

\* A lost connection or a dead worker leaves a command that may still run.
LEMMA LateType ==
    ASSUME TypeOK, NEW t \in Gxid, NEW s \in Seg
    PROVE  /\ LateAfterLoss(t, s) \in SUBSET LateEffect
           /\ LateAfterWorker(t, s) \in SUBSET LateEffect
  BY EffectType, SMT DEF TypeOK, LateAfterLoss, LateAfterWorker, WorkerEffect, LateEffect

\* Dispatching and finishing keep the types of what they change.
LEMMA DispatchType ==
    ASSUME TypeOK, NEW t \in Gxid, NEW segs, NEW gang \in [Seg -> Context],
           Dispatch(t, segs, gang)
    PROVE  qe' \in [Gxid -> [Seg -> Context]] /\ ans' \in [Gxid -> [Seg -> Answer]]
  BY DEF TypeOK, Dispatch, Context, Answer

\* resetTmGxact keeps the types.
LEMMA FinishType ==
    ASSUME TypeOK, NEW t \in Gxid, NEW told \in {"none", "committed", "aborted"}, Finish(t, told)
    PROVE  /\ dtxState' \in [Gxid -> DtxState]
           /\ qe' \in [Gxid -> [Seg -> Context]]
           /\ ans' \in [Gxid -> [Seg -> Answer]]
           /\ outcome' \in [Gxid -> {"none", "committed", "aborted"}]
  BY DEF TypeOK, Finish, NotSent, NoGang, Context, Answer, DtxState

\* The constant gangs and rounds.
LEMMA ConstTypes ==
    /\ NoGang \in [Seg -> Context]
    /\ NotSent \in [Seg -> Answer]
    /\ AllSent \in [Seg -> Answer]
  BY DEF NoGang, NotSent, AllSent, Context, Answer

\* Types, the steps of a QD.
LEMMA QDType ==
    ASSUME TypeOK, NEW t \in Gxid, QDStep(t) \/ QDChoice(t)
    PROVE  TypeOK'
  <1> USE ConstTypes
  <1>g. qe[t] \in [Seg -> Context] /\ GangAtAbort(t) \in [Seg -> Context]
    BY DEF TypeOK, GangAtAbort
  <1>1. CASE Begin(t)
    BY <1>1, SMT DEF Begin, TypeOK, DtxState, Context, XactStatus, logVars, workerVars
  <1>2. CASE CommitOnePhase(t)
    BY <1>2, <1>g, DispatchType
       DEF CommitOnePhase, TypeOK, DtxState, dataVars, qeVars, logVars, workerVars
  <1>3. CASE EndOnePhase(t) \/ EndCommit(t) \/ RollbackOmitted(t) \/ AbortNotified(t)
             \/ GiveUpAbort(t) \/ RetryAbortSucceeded(t)
    BY <1>3, FinishType DEF EndOnePhase, EndCommit, RollbackOmitted, AbortNotified, GiveUpAbort,
       RetryAbortSucceeded, TypeOK, dataVars, logVars, workerVars
  <1>4. CASE Prepare(t) \/ RetryCommitPrepared(t)
             \/ RollbackNoPrepared(t) \/ RollbackPrepared(t) \/ RetryAbortPrepared(t)
    BY <1>4, <1>g, DispatchType, ZenonT(30) DEF Prepare, RetryCommitPrepared,
       RollbackNoPrepared, RollbackPrepared, RetryAbortPrepared, TypeOK, DtxState, AbortNotifying,
       qdVars, dataVars, logVars, workerVars
  <1>5. CASE EndPrepare(t) \/ AbortNotifyFailed(t)
    <2>1. /\ \/ dtxState' = [dtxState EXCEPT ![t] = "PREPARED"]
             \/ dtxState' = [dtxState EXCEPT ![t] = "RETRY_ABORT_PREPARED"]
          /\ ans' = [ans EXCEPT ![t] = NotSent]
          /\ UNCHANGED <<writerGangLost, outcome, dataVars, qe, late, xact, logVars, workerVars>>
      BY <1>5 DEF EndPrepare, AbortNotifyFailed
    <2> QED
      BY <2>1 DEF TypeOK, DtxState, dataVars, logVars, workerVars
  <1>6. CASE InsertCommitted(t) \/ FlushCommitted(t)
    BY <1>6 DEF InsertCommitted, FlushCommitted, TypeOK, DtxState, qdVars, dataVars, qeVars,
       workerVars
  <1>7. CASE InsertForgetCommitted(t)
    BY <1>7 DEF InsertForgetCommitted, TypeOK, DtxState, dataVars, workerVars
  <1>8. CASE RollbackPreparing(t)
    <2>1. /\ \/ /\ dtxState' = [dtxState EXCEPT ![t] = "RETRY_ABORT_PREPARED"]
                /\ qe' = [qe EXCEPT ![t] = NoGang]
                /\ ans' = [ans EXCEPT ![t] = NotSent]
             \/ /\ dtxState' = [dtxState EXCEPT ![t] = "NOTIFYING_ABORT_SOME_PREPARED"]
                /\ Dispatch(t, dtxSegments[t], qe[t])
          /\ UNCHANGED <<writerGangLost, outcome, dataVars, late, xact, logVars, workerVars>>
      BY <1>8 DEF RollbackPreparing
    <2>2. qe' \in [Gxid -> [Seg -> Context]] /\ ans' \in [Gxid -> [Seg -> Answer]]
      <3>1. CASE Dispatch(t, dtxSegments[t], qe[t])
        BY <3>1, <1>g, DispatchType
      <3>2. CASE qe' = [qe EXCEPT ![t] = NoGang] /\ ans' = [ans EXCEPT ![t] = NotSent]
        BY <3>2 DEF TypeOK
      <3> QED
        BY <2>1, <3>1, <3>2
    <2>3. dtxState' \in [Gxid -> DtxState]
      <3>1. "RETRY_ABORT_PREPARED" \in DtxState /\ "NOTIFYING_ABORT_SOME_PREPARED" \in DtxState
        BY DEF DtxState, AbortNotifying
      <3>2. \A st \in DtxState : [dtxState EXCEPT ![t] = st] \in [Gxid -> DtxState]
        BY DEF TypeOK
      <3> QED
        BY <2>1, <3>1, <3>2
    <2> QED
      BY <2>1, <2>2, <2>3 DEF TypeOK, dataVars, logVars, workerVars
  <1>9. CASE NotifyCommitPrepared(t)
    <2>1. unconfirmed' \in SUBSET Gxid /\ UNCHANGED <<commitLog, forgot, lost>>
      BY <1>9 DEF NotifyCommitPrepared, NoteUnconfirmed, TypeOK
    <2>2. dtxState' \in [Gxid -> DtxState]
      BY <1>9 DEF NotifyCommitPrepared, TypeOK, DtxState
    <2> QED
      BY <1>9, <1>g, <2>1, <2>2, DispatchType DEF NotifyCommitPrepared, TypeOK, dataVars, workerVars
  <1> QED
    BY <1>1, <1>2, <1>3, <1>4, <1>5, <1>6, <1>7, <1>8, <1>9 DEF QDStep, QDChoice

\* Types, the steps of a segment and of a connection to it.
LEMMA SegType ==
    ASSUME TypeOK, NEW t \in Gxid, NEW s \in Seg, SegStep(t, s) \/ LoseConnection(t, s)
    PROVE  TypeOK'
  <1>x. \A e : After(e, xact[t][s]) \in XactStatus
    BY AfterType, SMT DEF TypeOK
  <1>y. \A y \in XactStatus : [xact EXCEPT ![t][s] = y] \in [Gxid -> [Seg -> XactStatus]]
    BY DEF TypeOK
  <1>1. CASE QEPerform(t, s)
    <2>1. xact' \in [Gxid -> [Seg -> XactStatus]]
      BY <1>1, <1>x, <1>y DEF QEPerform
    <2> QED
      BY <1>1, <2>1 DEF QEPerform, TypeOK, Context, Answer, qdVars, dataVars, logVars, workerVars
  <1>2. CASE QEError(t, s)
    <2>1. xact' \in [Gxid -> [Seg -> XactStatus]]
      BY <1>2, <1>x, <1>y, SMT DEF QEError, TypeOK
    <2> QED
      BY <1>2, <2>1 DEF QEError, TypeOK, Context, Answer, qdVars, dataVars, logVars, workerVars
  <1>3. CASE QEFatal(t, s)
    BY <1>3 DEF QEFatal, TypeOK, Context, Answer, dataVars, logVars, workerVars
  <1>4. CASE LateStep(t, s)
    <2>1. PICK e \in LateEffect : LatePerform(t, s, e) \/ LateDies(t, s, e)
      BY <1>4 DEF LateStep
    <2>2. late' = [late EXCEPT ![t][s] = @ \ {e}]
      BY <2>1 DEF LatePerform, LateDies
    <2>4. late[t][s] \ {e} \in SUBSET LateEffect
      BY SMT DEF TypeOK
    <2>5. late' \in [Gxid -> [Seg -> SUBSET LateEffect]]
      BY <2>2, <2>4 DEF TypeOK
    <2>3. xact' \in [Gxid -> [Seg -> XactStatus]]
      <3>1. CASE LatePerform(t, s, e)
        BY <3>1, <1>x, <1>y DEF LatePerform
      <3>2. CASE LateDies(t, s, e)
        BY <3>2 DEF LateDies, TypeOK
      <3> QED
        BY <2>1, <3>1, <3>2
    <2> QED
      BY <2>1, <2>3, <2>5 DEF LatePerform, LateDies, TypeOK, qdVars, dataVars, qeVars, logVars,
         workerVars
  <1>5. CASE QEExit(t, s)
    BY <1>5 DEF QEExit, TypeOK, XactStatus, qdVars, dataVars, qeVars, logVars, workerVars
  <1>6. CASE LoseConnection(t, s)
    BY <1>6, LateType, SMTT(30) DEF LoseConnection, TypeOK, Context, Answer, dataVars, logVars, workerVars
  <1> QED
    BY <1>1, <1>2, <1>3, <1>4, <1>5, <1>6 DEF SegStep, QEStep

\* Types, the steps of the DTX recovery worker.
LEMMA WorkerType ==
    ASSUME TypeOK, WorkerStep \/ WorkerDies
    PROVE  TypeOK'
  <1> USE ConstTypes
  <1>1. ASSUME NEW t \in Gxid, RecoverCommitted(t) \/ AbortInDoubt(t) \/ SkipInProgress(t)
        PROVE  TypeOK'
    BY <1>1 DEF RecoverCommitted, NoteUnconfirmed, AbortInDoubt, SkipInProgress, TypeOK, qdVars,
       dataVars, qeVars, logVars
  <1>2. ASSUME NEW s \in Seg, WorkerPerform(s) \/ WorkerError(s)
        PROVE  TypeOK'
    <2>1. cur \in Gxid
      BY <1>2 DEF TypeOK, WorkerPerform, WorkerError
    <2>2. After(WorkerEffect, xact[cur][s]) \in XactStatus
      BY <2>1, AfterType, SMT DEF TypeOK
    <2>3. WorkerEffect \in LateEffect
      BY DEF WorkerEffect, LateEffect
    <2>4. CASE WorkerPerform(s)
      <3>1. xact' \in [Gxid -> [Seg -> XactStatus]]
        BY <2>1, <2>2, <2>4 DEF WorkerPerform, TypeOK
      <3> QED
        BY <2>4, <3>1 DEF WorkerPerform, TypeOK, Answer, qdVars, dataVars, qeVars, logVars
    <2>5. CASE WorkerError(s)
      <3>1. late' \in [Gxid -> [Seg -> SUBSET LateEffect]]
        BY <2>1, <2>3, <2>5 DEF WorkerError, TypeOK
      <3> QED
        BY <2>5, <3>1 DEF WorkerError, TypeOK, Answer, qdVars, dataVars, qeVars, logVars
    <2> QED
      BY <1>2, <2>4, <2>5
  <1>3. CASE RecoveredCommitted \/ GatherInDoubt \/ GatherOrphans \/ AbortedInDoubt \/ EndGathered
    BY <1>3 DEF RecoveredCommitted, GatherInDoubt, GatherOrphans, AbortedInDoubt, EndGathered,
       PreparedSomewhere, TypeOK, qdVars, dataVars, qeVars, logVars
  <1>4. CASE WorkerRestart
    BY <1>4, LateType DEF WorkerRestart, TypeOK, qdVars, dataVars, qeVars, logVars
  <1> QED
    BY <1>1, <1>2, <1>3, <1>4 DEF WorkerStep, WorkerDies, RecoverCommittedFails

\* Types, the restart of a coordinator.
LEMMA RestartType ==
    ASSUME TypeOK, NEW kept \in SUBSET Gxid, Restart(kept), lost' \in SUBSET Gxid
    PROVE  TypeOK'
  <1>1. late' \in [Gxid -> [Seg -> SUBSET LateEffect]]
    BY LateType DEF Restart
  <1>2. dtxState' \in [Gxid -> DtxState] /\ commitLog' \in [Gxid -> {"none", "inserted", "flushed", "synced"}]
    BY DEF Restart, TypeOK, DtxState
  <1> QED
    BY <1>1, <1>2, ConstTypes DEF Restart, TypeOK, dataVars

\* Every step keeps the types.
LEMMA NextType == TypeOK /\ [Next]_vars => TypeOK'
  <1> SUFFICES ASSUME TypeOK, [Next]_vars PROVE TypeOK'
    OBVIOUS
  <1>1. CASE UNCHANGED vars
    BY <1>1 DEF vars, qdVars, dataVars, qeVars, logVars, workerVars, TypeOK
  <1>2. ASSUME NEW t \in Gxid, QDExit(t) \/ DispatchFails(t) \/ StandbyReceive(t)
        PROVE  TypeOK'
    <2>1. CASE QDExit(t)
      BY <2>1, FinishType, LateType DEF QDExit, TypeOK, dataVars, logVars, workerVars
    <2>2. CASE DispatchFails(t)
      BY <2>2, SMT DEF DispatchFails, TypeOK, Answer, qdVars, dataVars, logVars, workerVars
    <2>3. CASE StandbyReceive(t)
      BY <2>3 DEF StandbyReceive, TypeOK, qdVars, dataVars, qeVars, workerVars
    <2> QED
      BY <1>2, <2>1, <2>2, <2>3
  <1>3. CASE Crash \/ Promote \/ \E t \in Gxid : CommitPanic(t)
    <2>1. lost' \in SUBSET Gxid
      BY <1>3 DEF Crash, Promote, CommitPanic, TypeOK
    <2> QED
      BY <1>3, <2>1, RestartType DEF Crash, Promote, CommitPanic, Logged
  <1> QED
    BY <1>1, <1>2, <1>3, QDType, SegType, WorkerType DEF Next, Failure

-----------------------------------------------------------------------------
(* Transactions that a step does not touch *)

Kept(u) ==
    /\ UNCHANGED <<dtxState[u], dtxSegments[u]>>
    /\ commitLog'[u] = "none" <=> commitLog[u] = "none"
    /\ OnePhase(u)' <=> OnePhase(u)
    /\ MayCommit(u) => MayCommit(u)'
    /\ u \in unconfirmed' => commitLog'[u] = "flushed"
    /\ u \in lost' <=> u \in lost

\* What NoteUnconfirmed() may do to the log.
Noted ==
    /\ unconfirmed \subseteq unconfirmed'
    /\ \A u \in unconfirmed' : u \in unconfirmed \/ commitLog[u] = "flushed"
    /\ UNCHANGED <<commitLog, lost>>

\* It notes a commit whose record is flushed and not on the standby.
LEMMA NotedFacts ==
    ASSUME NEW t \in Gxid, NoteUnconfirmed(t), commitLog[t] \in {"flushed", "synced"}
    PROVE  Noted /\ UNCHANGED forgot /\ MayCommit(t)'
  <1>1. unconfirmed' = IF commitLog[t] = "synced" THEN unconfirmed ELSE unconfirmed \union {t}
    BY DEF NoteUnconfirmed
  <1>2. UNCHANGED <<commitLog, forgot, lost>>
    BY DEF NoteUnconfirmed
  <1>3. CASE commitLog[t] = "synced"
    BY <1>1, <1>2, <1>3 DEF Noted, MayCommit
  <1>4. CASE commitLog[t] = "flushed"
    <2>1. unconfirmed' = unconfirmed \union {t}
      BY <1>1, <1>4
    <2> QED
      BY <1>2, <1>4, <2>1 DEF Noted, MayCommit
  <1> QED
    BY <1>3, <1>4

\* A step that leaves the log alone notes nothing.
LEMMA NotedNothing ==
    ASSUME UNCHANGED logVars
    PROVE  Noted /\ UNCHANGED forgot
  BY DEF logVars, Noted

\* The QD's part of the invariant survives a step that keeps what it is about.
LEMMA QDKept ==
    ASSUME NEW u \in Gxid, QDInv(u), Kept(u), UNCHANGED <<outcome[u], wrote[u], xact[u]>>,
           commitLog'[u] = "inserted" => commitLog[u] = "inserted",
           u \in committedArray => u \in committedArray' \/ AllCommitted(u)
    PROVE  QDInv(u)'
  BY DEF QDInv, Kept, AllCommitted

\* The same for the part about one segment of one transaction.
LEMMA SegKept ==
    ASSUME NEW u \in Gxid, NEW s \in Seg, SegInv(u, s), Kept(u),
           Abortable(u) => Abortable(u)',
           UNCHANGED <<qe[u][s], ans[u][s], late[u][s], xact[u][s]>>
    PROVE  SegInv(u, s)'
  BY DEF SegInv, SegRow, Kept

-----------------------------------------------------------------------------
(* Steps of one QD that leave the segments, the records and the worker alone *)

QDOnly(t) ==
    /\ \A u \in Gxid \ {t} : /\ dtxState'[u] = dtxState[u]
                             /\ qe'[u] = qe[u]
                             /\ ans'[u] = ans[u]
                             /\ outcome'[u] = outcome[u]
                             /\ late'[u] = late[u]
    /\ Noted
    /\ UNCHANGED <<dataVars, xact, forgot, workerVars>>

\* What such a step cannot change.
LEMMA QDOnlySame ==
    ASSUME NEW t \in Gxid, QDOnly(t), NEW u \in Gxid
    PROVE  /\ OnePhase(u)' <=> OnePhase(u)
           /\ AllCommitted(u)' <=> AllCommitted(u)
           /\ MayCommit(u) => MayCommit(u)'
  BY DEF QDOnly, Noted, dataVars, OnePhase, AllCommitted, MayCommit

\* It is enough to look at the transaction itself.
LEMMA QDOnlyStep ==
    ASSUME DtmInv, NEW t \in Gxid, QDOnly(t), InProgress(t), dtxState'[t] # "NONE",
           QDInv(t)', \A s \in Seg : SegInv(t, s)',
           Abortable(t) => dtxState'[t] \in {"RETRY_ABORT_PREPARED", "DONE"} \union AbortNotifying
    PROVE  CoreInv'
  <1>same. ASSUME NEW u \in Gxid
           PROVE  /\ OnePhase(u)' <=> OnePhase(u)
                  /\ AllCommitted(u)' <=> AllCommitted(u)
                  /\ MayCommit(u) => MayCommit(u)'
    BY QDOnlySame
  <1>unch. UNCHANGED <<dtxSegments, wrote, xact, commitLog, forgot, lost, dtmStarted,
                       committedArray, wpc, recovered, htab, cur, wans>>
    BY DEF QDOnly, Noted, dataVars, workerVars
  <1>ab. ASSUME NEW u \in Gxid, Abortable(u) PROVE Abortable(u)'
    BY <1>ab, <1>same, <1>unch DEF Abortable, QDOnly
  <1>1. ASSUME NEW u \in Gxid, u # t
        PROVE  QDInv(u)' /\ \A s \in Seg : SegInv(u, s)'
    <2>1. dtxState'[u] = dtxState[u] /\ qe'[u] = qe[u] /\ ans'[u] = ans[u]
          /\ outcome'[u] = outcome[u] /\ late'[u] = late[u]
      BY <1>1 DEF QDOnly
    <2>3. QDInv(u) /\ \A s \in Seg : SegInv(u, s)
      BY DEF DtmInv, CoreInv
    <2>6. u \in unconfirmed' => commitLog'[u] = "flushed"
      BY <1>unch, <2>3 DEF QDOnly, Noted, QDInv
    <2>2. Kept(u)
      BY <1>same, <1>unch, <2>1, <2>6 DEF Kept
    <2>4. QDInv(u)'
      BY <1>unch, <2>1, <2>2, <2>3, QDKept
    <2>5. ASSUME NEW s \in Seg PROVE SegInv(u, s)'
      BY <1>unch, <1>ab, <2>1, <2>2, <2>3, SegKept
    <2> QED
      BY <2>4, <2>5
  <1>2. WorkerInv'
    <2>1. WorkerInv /\ TypeOK
      BY DEF DtmInv, CoreInv
    <2>2. dtmStarted
      BY <2>1 DEF WorkerInv
    <2>3. \A u \in Gxid : dtxState[u] # "NONE" => dtxState'[u] # "NONE"
      BY DEF QDOnly
    <2> QED
      BY <1>same, <1>unch, <1>ab, <2>1, <2>2, <2>3 DEF WorkerInv, TypeOK
  <1> QED
    BY <1>1, <1>2 DEF CoreInv

\* The QD dispatches the command of state st.
MayDispatch(t, st) ==
    /\ InProgress(t)
    /\ st \in DtxState \ {"NONE", "DONE", "PREPARED", "ONE_PHASE_COMMIT", "INSERTED_COMMITTED",
                          "INSERTED_FORGET_COMMITTED"}
    /\ commitLog[t] # "none" <=> st \in Recorded
    /\ commitLog[t] # "inserted"
    /\ st = "NOTIFYING_ONE_PHASE_COMMIT" => OnePhase(t)
    /\ Abortable(t) => st \in {"RETRY_ABORT_PREPARED"} \union AbortNotifying

DispatchAs(t, st, segs, gang) ==
    /\ dtxState' = [dtxState EXCEPT ![t] = st]
    /\ Dispatch(t, segs, gang)
    /\ segs = dtxSegments[t] \/ st = "RETRY_ABORT_PREPARED"
    /\ gang = qe[t] \/ gang = NoGang
    /\ Noted
    /\ st \in Notifying => MayCommit(t)'
    /\ UNCHANGED <<outcome, dataVars, late, xact, forgot, workerVars>>

\* Dispatching a DTX protocol command preserves the invariant.
LEMMA DispatchStep ==
    ASSUME DtmInv, NEW t \in Gxid, NEW st, NEW segs, NEW gang,
           MayDispatch(t, st), DispatchAs(t, st, segs, gang)
    PROVE  CoreInv'
  <1>row. TypeOK /\ QDInv(t) /\ \A s \in Seg : SegInv(t, s)
    BY DEF DtmInv, CoreInv
  <1>only. QDOnly(t)
    BY <1>row DEF TypeOK, DispatchAs, Dispatch, QDOnly
  <1>same. /\ OnePhase(t)' <=> OnePhase(t)
           /\ AllCommitted(t)' <=> AllCommitted(t)
           /\ MayCommit(t) => MayCommit(t)'
    BY <1>only, QDOnlySame
  <1>unch. UNCHANGED <<outcome, dtxSegments, wrote, late, xact, commitLog, lost, committedArray>>
    BY DEF DispatchAs, Noted, dataVars, workerVars
  <1>st. dtxState'[t] = st
    BY <1>row DEF TypeOK, DispatchAs
  <1>ab. Abortable(t) => Abortable(t)'
    BY <1>same, <1>unch, <1>st DEF Abortable, MayDispatch
  <1>1. QDInv(t)'
    <2>1. t \in unconfirmed' => commitLog'[t] = "flushed"
      BY <1>row, <1>unch DEF DispatchAs, Noted, QDInv
    <2>2. dtxState'[t] \in Notifying => MayCommit(t)'
      BY <1>st DEF DispatchAs
    <2>3. t \notin lost'
      BY <1>row, <1>unch DEF QDInv, MayDispatch, InProgress
    <2> QED
      BY <1>row, <1>same, <1>unch, <1>st, <2>1, <2>2, <2>3
         DEF QDInv, Recorded, InProgress, MayDispatch
  <1>2. ASSUME NEW s \in Seg PROVE SegInv(t, s)'
    <2>1. ans'[t][s] = IF s \in segs THEN "sent" ELSE "none"
      BY <1>row DEF TypeOK, DispatchAs, Dispatch
    <2>2. /\ qe'[t][s] = "WRITER" => qe[t][s] = "WRITER"
          /\ s \in segs => qe'[t][s] # "LOST"
      BY <1>row DEF TypeOK, DispatchAs, Dispatch, NoGang
    <2>3. s \in segs => s \in dtxSegments[t] \/ st = "RETRY_ABORT_PREPARED"
      BY DEF DispatchAs
    <2>4. SegInv(t, s)
      BY <1>row
    <2> QED
      BY <1>same, <1>ab, <1>unch, <1>st, <2>1, <2>2, <2>3, <2>4 DEF SegInv, SegRow, MayDispatch
  <1>3. InProgress(t) /\ dtxState'[t] # "NONE"
        /\ (Abortable(t) => dtxState'[t] \in {"RETRY_ABORT_PREPARED", "DONE"} \union AbortNotifying)
    BY <1>st DEF MayDispatch
  <1> QED
    BY <1>only, <1>1, <1>2, <1>3, QDOnlyStep

\* The QD is through, having told its client the outcome.
MayFinish(t, told) ==
    /\ InProgress(t)
    /\ commitLog[t] = "none" \/ (AllCommitted(t) /\ commitLog[t] # "inserted")
    /\ told \in {"committed", "aborted"}
    /\ told = "committed" => AllCommitted(t)
    /\ told = "aborted" => OnePhase(t) \/ commitLog[t] = "none"

FinishAs(t, told) ==
    /\ Finish(t, told)
    /\ UNCHANGED <<dataVars, late, xact, logVars, workerVars>>

\* Ending a transaction (resetTmGxact) preserves the invariant.
LEMMA FinishStep ==
    ASSUME DtmInv, NEW t \in Gxid, NEW told, MayFinish(t, told), FinishAs(t, told)
    PROVE  CoreInv'
  <1>row. TypeOK /\ QDInv(t) /\ \A s \in Seg : SegInv(t, s)
    BY DEF DtmInv, CoreInv
  <1>only. QDOnly(t)
    BY <1>row, NotedNothing DEF TypeOK, FinishAs, Finish, QDOnly
  <1>same. /\ OnePhase(t)' <=> OnePhase(t)
           /\ AllCommitted(t)' <=> AllCommitted(t)
           /\ MayCommit(t) => MayCommit(t)'
    BY <1>only, QDOnlySame
  <1>unch. UNCHANGED <<dtxSegments, wrote, late, xact, commitLog, unconfirmed, lost, committedArray>>
    BY DEF FinishAs, dataVars, logVars, workerVars
  <1>st. dtxState'[t] = "DONE" /\ outcome'[t] = told
    BY <1>row DEF TypeOK, FinishAs, Finish
  <1>ab. Abortable(t) => Abortable(t)'
    BY <1>same, <1>unch, <1>st DEF Abortable
  <1>1. QDInv(t)'
    <2>1. told = "committed" => \A s \in dtxSegments'[t] : xact'[t][s] = "committed"
      BY <1>unch DEF MayFinish, AllCommitted
    <2>2. t \notin lost
      BY <1>row DEF QDInv, MayFinish, InProgress
    <2> QED
      BY <1>row, <1>same, <1>unch, <1>st, <2>1, <2>2 DEF QDInv, Recorded, Notifying, MayFinish
  <1>2. ASSUME NEW s \in Seg PROVE SegInv(t, s)'
    <2>1. ans'[t][s] = "none" /\ qe'[t][s] = "LOST"
      BY <1>row DEF TypeOK, FinishAs, Finish, NotSent, NoGang
    <2>2. SegInv(t, s)
      BY <1>row
    <2> QED
      BY <1>same, <1>ab, <1>unch, <1>st, <2>1, <2>2 DEF SegInv, SegRow
  <1>3. InProgress(t) /\ dtxState'[t] # "NONE"
        /\ (Abortable(t) => dtxState'[t] \in {"RETRY_ABORT_PREPARED", "DONE"} \union AbortNotifying)
    BY <1>st DEF MayFinish
  <1> QED
    BY <1>only, <1>1, <1>2, <1>3, QDOnlyStep

\* The QD goes on to state st without dispatching anything.
GoesTo(t, st) ==
    /\ dtxState' = [dtxState EXCEPT ![t] = st]
    /\ \/ /\ ans' = [ans EXCEPT ![t] = NotSent]
          /\ qe' = [qe EXCEPT ![t] = NoGang] \/ UNCHANGED qe
       \/ UNCHANGED <<qe, ans>>
    /\ UNCHANGED <<outcome, dataVars, late, xact, logVars, workerVars>>

\* A change of the DTX state alone preserves the invariant.
LEMMA GoesToStep ==
    ASSUME DtmInv, NEW t \in Gxid, NEW st, GoesTo(t, st), InProgress(t), commitLog[t] = "none",
           \/ st = "ONE_PHASE_COMMIT" /\ OnePhase(t) /\ dtxSegments[t] = {}
           \/ st = "PREPARED" /\ \A s \in dtxSegments[t] : xact[t][s] = "prepared"
           \/ st = "RETRY_ABORT_PREPARED",
           Abortable(t) => st = "RETRY_ABORT_PREPARED"
    PROVE  CoreInv'
  <1>row. TypeOK /\ QDInv(t) /\ \A s \in Seg : SegInv(t, s)
    BY DEF DtmInv, CoreInv
  <1>only. QDOnly(t)
    BY <1>row, NotedNothing DEF TypeOK, GoesTo, QDOnly
  <1>same. /\ OnePhase(t)' <=> OnePhase(t)
           /\ AllCommitted(t)' <=> AllCommitted(t)
           /\ MayCommit(t) => MayCommit(t)'
    BY <1>only, QDOnlySame
  <1>unch. UNCHANGED <<outcome, dtxSegments, wrote, late, xact, commitLog, unconfirmed, lost,
                       committedArray>>
    BY DEF GoesTo, dataVars, logVars, workerVars
  <1>st. dtxState'[t] = st
    BY <1>row DEF TypeOK, GoesTo
  <1>1. QDInv(t)'
    BY <1>row, <1>same, <1>unch, <1>st DEF QDInv, Recorded, Notifying, InProgress
  <1>2. ASSUME NEW s \in Seg PROVE SegInv(t, s)'
    <2>1. \/ ans'[t][s] = "none" /\ (qe'[t][s] = "LOST" \/ qe'[t][s] = qe[t][s])
          \/ ans'[t][s] = ans[t][s] /\ qe'[t][s] = qe[t][s]
      BY <1>row, SMT DEF TypeOK, GoesTo, NotSent, NoGang
    <2>2. SegInv(t, s)
      BY <1>row
    <2>3. Abortable(t) => Abortable(t)'
      BY <1>same, <1>unch, <1>st DEF Abortable
    <2>4. dtxState[t] = "RETRY_ABORT_PREPARED" => st = "RETRY_ABORT_PREPARED"
      BY DEF Abortable
    <2> QED
      BY <1>same, <1>unch, <1>st, <2>1, <2>2, <2>3, <2>4 DEF SegInv, SegRow, InProgress
  <1> QED
    BY <1>only, <1>st, <1>1, <1>2, QDOnlyStep

QDCommitStep(t) ==
    \/ CommitOnePhase(t) \/ EndOnePhase(t) \/ Prepare(t) \/ EndPrepare(t)
    \/ NotifyCommitPrepared(t) \/ RetryCommitPrepared(t) \/ EndCommit(t)

\* The commit side of a QD: prepareDtxTransaction, notifyCommittedDtxTransaction.
LEMMA QDCommitInv ==
    ASSUME DtmInv, NEW t \in Gxid, QDCommitStep(t)
    PROVE  CoreInv'
  <1>type. TypeOK
    BY DEF DtmInv
  <1>row. QDInv(t) /\ \A s \in Seg : SegInv(t, s)
    BY DEF DtmInv, CoreInv
  <1>seg. dtxSegments[t] \subseteq Seg
    BY <1>type DEF TypeOK
  <1>cl. dtxState[t] \notin Recorded \union {"DONE"} => commitLog[t] = "none"
    BY <1>row DEF QDInv
  <1>ab. Abortable(t) => dtxState[t] \in {"RETRY_ABORT_PREPARED", "DONE"} \union AbortNotifying
    BY DEF Abortable
  <1> USE DEF InProgress, Recorded, AbortNotifying
  <1>1. CASE CommitOnePhase(t)
    <2>0. dtxState[t] = "ACTIVE_DISTRIBUTED" /\ OnePhase(t)
      BY <1>1 DEF CommitOnePhase
    <2>1. CASE dtxSegments[t] # {}
      <3>1. MayDispatch(t, "NOTIFYING_ONE_PHASE_COMMIT")
        BY <2>0, <1>cl, <1>ab DEF MayDispatch, DtxState, Notifying
      <3>2. DispatchAs(t, "NOTIFYING_ONE_PHASE_COMMIT", dtxSegments[t], qe[t])
        BY <1>1, <2>1, NotedNothing DEF CommitOnePhase, DispatchAs, Notifying
      <3> QED
        BY <3>1, <3>2, DispatchStep
    <2>2. CASE dtxSegments[t] = {}
      <3>1. GoesTo(t, "ONE_PHASE_COMMIT")
        BY <1>1, <2>2 DEF CommitOnePhase, GoesTo, qeVars
      <3> QED
        BY <2>0, <2>2, <3>1, <1>cl, <1>ab, GoesToStep
    <2> QED
      BY <2>1, <2>2
  <1>2. CASE EndOnePhase(t)
    <2>1. /\ dtxState[t] \in {"ONE_PHASE_COMMIT", "NOTIFYING_ONE_PHASE_COMMIT"}
          /\ \A s \in dtxSegments[t] : ans[t][s] = "ok"
      BY <1>2 DEF EndOnePhase, Succeeded
    <2>2. AllCommitted(t)
      BY <2>1, <1>row, <1>seg DEF QDInv, SegInv, SegRow, AllCommitted
    <2>3. MayFinish(t, "committed")
      BY <2>1, <2>2, <1>cl DEF MayFinish
    <2>4. FinishAs(t, "committed")
      BY <1>2 DEF EndOnePhase, FinishAs
    <2> QED
      BY <2>3, <2>4, FinishStep
  <1>3. CASE Prepare(t)
    <2>1. MayDispatch(t, "PREPARING")
      BY <1>3, <1>cl, <1>ab DEF Prepare, MayDispatch, DtxState, Notifying
    <2>2. DispatchAs(t, "PREPARING", dtxSegments[t], qe[t])
      BY <1>3, NotedNothing DEF Prepare, DispatchAs, Notifying
    <2> QED
      BY <2>1, <2>2, DispatchStep
  <1>4. CASE EndPrepare(t)
    <2>1. dtxState[t] = "PREPARING" /\ \A s \in dtxSegments[t] : ans[t][s] = "ok"
      BY <1>4 DEF EndPrepare, Succeeded
    <2>2. \A s \in dtxSegments[t] : xact[t][s] = "prepared"
      BY <2>1, <1>row, <1>seg DEF SegInv, SegRow
    <2>3. GoesTo(t, "PREPARED")
      BY <1>4 DEF EndPrepare, GoesTo
    <2> QED
      BY <2>1, <2>2, <2>3, <1>cl, <1>ab, GoesToStep
  <1>5. CASE NotifyCommitPrepared(t)
    <2>1. MayDispatch(t, "NOTIFYING_COMMIT_PREPARED")
      BY <1>5, <1>ab DEF NotifyCommitPrepared, MayDispatch, DtxState
    <2>3. Noted /\ UNCHANGED forgot /\ MayCommit(t)'
      BY <1>5, NotedFacts DEF NotifyCommitPrepared
    <2>2. DispatchAs(t, "NOTIFYING_COMMIT_PREPARED", dtxSegments[t], qe[t])
      BY <1>5, <2>3 DEF NotifyCommitPrepared, DispatchAs
    <2> QED
      BY <2>1, <2>2, DispatchStep
  <1>6. CASE RetryCommitPrepared(t)
    <2>1. dtxState[t] \in {"NOTIFYING_COMMIT_PREPARED", "RETRY_COMMIT_PREPARED"}
      BY <1>6 DEF RetryCommitPrepared, CommitRoundFailed
    <2>2. MayCommit(t) /\ commitLog[t] \notin {"none", "inserted"}
      BY <2>1, <1>row DEF QDInv, Notifying
    <2>3. MayDispatch(t, "RETRY_COMMIT_PREPARED")
      BY <2>1, <2>2, <1>ab DEF MayDispatch, DtxState
    <2>5. MayCommit(t)'
      BY <1>6, <2>2 DEF RetryCommitPrepared, logVars, MayCommit
    <2>4. DispatchAs(t, "RETRY_COMMIT_PREPARED", dtxSegments[t], NoGang)
      BY <1>6, <2>5, NotedNothing DEF RetryCommitPrepared, DispatchAs
    <2> QED
      BY <2>3, <2>4, DispatchStep
  <1>7. CASE EndCommit(t)
    <2>1. MayFinish(t, "committed")
      BY <1>7, <1>row DEF EndCommit, QDInv, MayFinish
    <2>2. FinishAs(t, "committed")
      BY <1>7 DEF EndCommit, FinishAs
    <2> QED
      BY <2>1, <2>2, FinishStep
  <1> QED
    BY <1>1, <1>2, <1>3, <1>4, <1>5, <1>6, <1>7 DEF QDCommitStep

QDAbortStep(t) ==
    \/ RollbackOmitted(t) \/ RollbackNoPrepared(t) \/ RollbackPreparing(t)
    \/ RollbackPrepared(t) \/ AbortNotified(t) \/ AbortNotifyFailed(t)
    \/ RetryAbortPrepared(t) \/ GiveUpAbort(t) \/ RetryAbortSucceeded(t)

\* The abort side of a QD: rollbackDtxTransaction and its retries.
LEMMA QDAbortInv ==
    ASSUME DtmInv, NEW t \in Gxid, QDAbortStep(t)
    PROVE  CoreInv'
  <1>type. TypeOK
    BY DEF DtmInv
  <1>cl. dtxState[t] \notin Recorded \union {"DONE"} => commitLog[t] = "none"
    BY DEF DtmInv, CoreInv, QDInv
  <1>ab. Abortable(t) => dtxState[t] \in {"RETRY_ABORT_PREPARED", "DONE"} \union AbortNotifying
    BY DEF Abortable
  <1> USE DEF InProgress, Recorded, AbortNotifying
  <1>1. CASE RollbackOmitted(t) \/ AbortNotified(t) \/ GiveUpAbort(t) \/ RetryAbortSucceeded(t)
    <2>1. dtxState[t] \in {"ACTIVE_DISTRIBUTED", "ONE_PHASE_COMMIT", "NOTIFYING_ONE_PHASE_COMMIT",
                           "RETRY_ABORT_PREPARED"} \union AbortNotifying
      BY <1>1 DEF RollbackOmitted, AbortNotified, GiveUpAbort, RetryAbortSucceeded, RetryAbortPending
    <2>2. MayFinish(t, "aborted")
      BY <2>1, <1>cl DEF MayFinish
    <2>3. FinishAs(t, "aborted")
      BY <1>1 DEF RollbackOmitted, AbortNotified, GiveUpAbort, RetryAbortSucceeded, FinishAs
    <2> QED
      BY <2>2, <2>3, FinishStep
  <1>2. CASE RollbackNoPrepared(t)
    <2>1. MayDispatch(t, "NOTIFYING_ABORT_NO_PREPARED")
      BY <1>2, <1>cl DEF RollbackNoPrepared, MayDispatch, DtxState, Notifying
    <2>2. DispatchAs(t, "NOTIFYING_ABORT_NO_PREPARED", dtxSegments[t], qe[t])
      BY <1>2, NotedNothing DEF RollbackNoPrepared, DispatchAs, Notifying
    <2> QED
      BY <2>1, <2>2, DispatchStep
  <1>3. CASE RollbackPreparing(t)
    <2>0. dtxState[t] = "PREPARING"
      BY <1>3 DEF RollbackPreparing
    <2>1. CASE t \in writerGangLost
      <3>1. GoesTo(t, "RETRY_ABORT_PREPARED")
        BY <1>3, <2>1 DEF RollbackPreparing, GoesTo
      <3> QED
        BY <2>0, <3>1, <1>cl, GoesToStep
    <2>2. CASE t \notin writerGangLost
      <3>1. MayDispatch(t, "NOTIFYING_ABORT_SOME_PREPARED")
        BY <2>0, <1>cl DEF MayDispatch, DtxState, Notifying
      <3>2. DispatchAs(t, "NOTIFYING_ABORT_SOME_PREPARED", dtxSegments[t], qe[t])
        BY <1>3, <2>2, NotedNothing DEF RollbackPreparing, DispatchAs, Notifying
      <3> QED
        BY <3>1, <3>2, DispatchStep
    <2> QED
      BY <2>1, <2>2
  <1>4. CASE RollbackPrepared(t)
    <2>1. MayDispatch(t, "NOTIFYING_ABORT_PREPARED")
      BY <1>4, <1>cl DEF RollbackPrepared, MayDispatch, DtxState, Notifying
    <2>2. DispatchAs(t, "NOTIFYING_ABORT_PREPARED", dtxSegments[t], GangAtAbort(t))
      BY <1>4, NotedNothing DEF RollbackPrepared, DispatchAs, GangAtAbort, Notifying
    <2> QED
      BY <2>1, <2>2, DispatchStep
  <1>5. CASE AbortNotifyFailed(t)
    <2>1. GoesTo(t, "RETRY_ABORT_PREPARED")
      BY <1>5 DEF AbortNotifyFailed, GoesTo
    <2> QED
      BY <1>5, <2>1, <1>cl, GoesToStep DEF AbortNotifyFailed
  <1>6. CASE RetryAbortPrepared(t)
    <2>0. dtxState[t] = "RETRY_ABORT_PREPARED"
      BY <1>6 DEF RetryAbortPrepared, RetryAbortPending
    <2>1. MayDispatch(t, "RETRY_ABORT_PREPARED")
      BY <2>0, <1>cl DEF MayDispatch, DtxState, Notifying
    <2>2. dtxState' = [dtxState EXCEPT ![t] = "RETRY_ABORT_PREPARED"]
      BY <1>6, <2>0, <1>type DEF RetryAbortPrepared, qdVars, TypeOK
    <2>3. DispatchAs(t, "RETRY_ABORT_PREPARED", Seg, NoGang)
      BY <1>6, <2>2, NotedNothing DEF RetryAbortPrepared, DispatchAs, Notifying, qdVars
    <2> QED
      BY <2>1, <2>3, DispatchStep
  <1> QED
    BY <1>1, <1>2, <1>3, <1>4, <1>5, <1>6 DEF QDAbortStep

-----------------------------------------------------------------------------
(* Steps on the segments of one transaction, by its QEs or the worker's *)

SegOnly(t) ==
    /\ \A u \in Gxid \ {t} : /\ qe'[u] = qe[u]
                             /\ ans'[u] = ans[u]
                             /\ late'[u] = late[u]
                             /\ xact'[u] = xact[u]
    /\ \A s \in Seg : xact[t][s] = "committed" => xact'[t][s] = "committed"
    /\ UNCHANGED <<dtxState, outcome, dtxSegments, wrote, qdXid, commitLog, forgot, unconfirmed,
                   lost, dtmStarted, committedArray, wpc, recovered, htab, cur>>

\* After the step, too, an "ok" to the worker's commit broadcast means committed.
WansKnown ==
    cur # NoGxid /\ wpc = "commit" =>
        \A s \in dtxSegments[cur] : wans'[s] = "ok" => xact'[cur][s] = "committed"

\* A step at one segment leaves what the other segments hold.
LEMMA SegOnlySame ==
    ASSUME TypeOK, NEW t \in Gxid, SegOnly(t), NEW u \in Gxid
    PROVE  /\ OnePhase(u)' <=> OnePhase(u)
           /\ AllCommitted(u) => AllCommitted(u)'
           /\ MayCommit(u) => MayCommit(u)'
           /\ Abortable(u) => Abortable(u)'
  <1>1. OnePhase(u)' <=> OnePhase(u)
    BY DEF SegOnly, OnePhase
  <1>2. AllCommitted(u) => AllCommitted(u)'
    <2>1. dtxSegments' = dtxSegments /\ dtxSegments[u] \subseteq Seg
      BY DEF SegOnly, TypeOK
    <2>2. \A s \in Seg : xact[u][s] = "committed" => xact'[u][s] = "committed"
      BY DEF SegOnly
    <2> QED
      BY <2>1, <2>2 DEF AllCommitted
  <1>3. MayCommit(u) => MayCommit(u)'
    BY DEF SegOnly, MayCommit
  <1>4. Abortable(u) => Abortable(u)'
    BY <1>2 DEF SegOnly, Abortable
  <1> QED
    BY <1>1, <1>2, <1>3, <1>4

\* A step at the segments that preserves their rows preserves the invariant.
LEMMA SegOnlyStep ==
    ASSUME DtmInv, NEW t \in Gxid, SegOnly(t), \A s \in Seg : SegInv(t, s)',
           WansKnown
    PROVE  CoreInv'
  <1>same. \A u \in Gxid : /\ OnePhase(u)' <=> OnePhase(u)
                           /\ AllCommitted(u) => AllCommitted(u)'
                           /\ MayCommit(u) => MayCommit(u)'
                           /\ Abortable(u) => Abortable(u)'
    BY SegOnlySame DEF DtmInv
  <1>unch. UNCHANGED <<dtxState, outcome, dtxSegments, wrote, commitLog, forgot, unconfirmed, lost,
                       dtmStarted, committedArray, wpc, recovered, htab, cur>>
    BY DEF SegOnly
  <1>type. TypeOK
    BY DEF DtmInv
  <1>1. ASSUME NEW u \in Gxid PROVE QDInv(u)'
    <2>1. QDInv(u)
      BY DEF DtmInv, CoreInv
    <2>2. \A s \in dtxSegments[u] : xact[u][s] = "committed" => xact'[u][s] = "committed"
      <3>1. dtxSegments[u] \subseteq Seg
        BY <1>type DEF TypeOK
      <3> QED
        BY <3>1 DEF SegOnly
    <2> QED
      BY <1>same, <1>unch, <2>1, <2>2 DEF QDInv
  <1>2. ASSUME NEW u \in Gxid, NEW s \in Seg PROVE SegInv(u, s)'
    <2>1. CASE u # t
      <3>1. qe'[u] = qe[u] /\ ans'[u] = ans[u] /\ late'[u] = late[u] /\ xact'[u] = xact[u]
        BY <2>1 DEF SegOnly
      <3>2. SegInv(u, s)
        BY DEF DtmInv, CoreInv
      <3> QED
        BY <1>same, <1>unch, <3>1, <3>2 DEF SegInv, SegRow
    <2> QED
      BY <2>1
  <1>3. WorkerInv'
    <2>1. WorkerInv
      BY DEF DtmInv, CoreInv
    <2>2. \A u \in Gxid : InProgress(u)' <=> InProgress(u)
      BY <1>unch DEF InProgress
    <2> QED
      BY <1>same, <1>unch, <1>type, <2>1, <2>2 DEF WorkerInv, WansKnown, TypeOK
  <1> QED
    BY <1>1, <1>2, <1>3 DEF CoreInv

\* The broadcast of the recovery worker: what it knows survives a step on the
\* segments that does not change wans.
LEMMA WansSame ==
    ASSUME DtmInv, NEW t \in Gxid, SegOnly(t), UNCHANGED wans
    PROVE  WansKnown
  <1>1. ASSUME cur # NoGxid, wpc = "commit", NEW s \in dtxSegments[cur], wans'[s] = "ok"
        PROVE  xact'[cur][s] = "committed"
    <2>1. cur \in Gxid /\ s \in Seg
      BY <1>1 DEF DtmInv, TypeOK
    <2>2. xact[cur][s] = "committed"
      BY <1>1 DEF DtmInv, CoreInv, WorkerInv
    <2> QED
      BY <2>1, <2>2 DEF SegOnly
  <1> QED
    BY <1>1 DEF WansKnown

\* One segment of one transaction changes to q, a, l and x.
RowStep(t, s, q, a, l, x) ==
    /\ qe' = [qe EXCEPT ![t][s] = q]
    /\ ans' = [ans EXCEPT ![t][s] = a]
    /\ late' = [late EXCEPT ![t][s] = l]
    /\ xact' = [xact EXCEPT ![t][s] = x]
    /\ xact[t][s] = "committed" => x = "committed"
    /\ UNCHANGED <<dtxState, outcome, dtxSegments, wrote, qdXid, commitLog, forgot, unconfirmed,
                   lost, dtmStarted, committedArray, wpc, recovered, htab, cur>>

\* A step at one segment is a step at the segments only.
LEMMA OneSegRow ==
    ASSUME DtmInv, NEW t \in Gxid, NEW s \in Seg, NEW q, NEW a, NEW l, NEW x,
           RowStep(t, s, q, a, l, x), SegRow(t, s, q, a, l, x)
    PROVE  SegOnly(t) /\ \A r \in Seg : SegInv(t, r)'
  <1>type. TypeOK
    BY DEF DtmInv
  <1>unch. UNCHANGED <<dtxState, dtxSegments, commitLog, unconfirmed, lost>>
    BY DEF RowStep
  <1>only. SegOnly(t)
    BY <1>type DEF TypeOK, SegOnly, RowStep
  <1>same. /\ OnePhase(t)' <=> OnePhase(t)
           /\ MayCommit(t) => MayCommit(t)'
           /\ Abortable(t) => Abortable(t)'
    BY <1>type, <1>only, SegOnlySame
  <1>1. ASSUME NEW r \in Seg PROVE SegInv(t, r)'
    <2>1. CASE r # s
      <3>1. qe'[t][r] = qe[t][r] /\ ans'[t][r] = ans[t][r] /\ late'[t][r] = late[t][r]
            /\ xact'[t][r] = xact[t][r]
        BY <2>1, <1>type DEF TypeOK, RowStep
      <3>2. SegInv(t, r)
        BY DEF DtmInv, CoreInv
      <3> QED
        BY <1>same, <1>unch, <3>1, <3>2 DEF SegInv, SegRow
    <2>2. CASE r = s
      <3>1. qe'[t][s] = q /\ ans'[t][s] = a /\ late'[t][s] = l /\ xact'[t][s] = x
        BY <1>type DEF TypeOK, RowStep
      <3> QED
        BY <1>same, <1>unch, <2>2, <3>1 DEF SegInv, SegRow
    <2> QED
      BY <2>1, <2>2
  <1> QED
    BY <1>only, <1>1

\* A step at one segment preserves the invariant when it preserves its row.
LEMMA OneSegStep ==
    ASSUME DtmInv, NEW t \in Gxid, NEW s \in Seg, NEW q, NEW a, NEW l, NEW x,
           RowStep(t, s, q, a, l, x), SegRow(t, s, q, a, l, x), UNCHANGED wans
    PROVE  CoreInv'
  <1>1. SegOnly(t) /\ \A r \in Seg : SegInv(t, r)'
    BY OneSegRow
  <1>2. WansKnown
    BY <1>1, WansSame
  <1> QED
    BY <1>1, <1>2, SegOnlyStep

\* performDtxProtocolCommand, a backend's death and a lost connection.
LEMMA SegStepInv ==
    ASSUME DtmInv, NEW t \in Gxid, NEW s \in Seg, SegStep(t, s) \/ LoseConnection(t, s)
    PROVE  CoreInv'
  <1>row. TypeOK /\ QDInv(t) /\ SegInv(t, s)
    BY DEF DtmInv, CoreInv
  <1>id. /\ qe = [qe EXCEPT ![t][s] = qe[t][s]]
         /\ ans = [ans EXCEPT ![t][s] = ans[t][s]]
         /\ late = [late EXCEPT ![t][s] = late[t][s]]
         /\ xact = [xact EXCEPT ![t][s] = xact[t][s]]
    BY <1>row DEF TypeOK
  <1>cl. dtxState[t] \notin Recorded \union {"DONE"} => commitLog[t] = "none"
    BY <1>row DEF QDInv
  <1>com. \A e : xact[t][s] = "committed" => After(e, xact[t][s]) = "committed"
    BY DEF After
  <1>1. CASE QEPerform(t, s)
    <2> DEFINE q == IF dtxState[t] = "PREPARING" THEN "PREPARED" ELSE "LOCAL"
               x == After(CommandEffect(dtxState[t], qe[t][s]), xact[t][s])
    <2>1. /\ ans[t][s] = "sent"
          /\ ~CommandFatal(dtxState[t], qe[t][s])
          /\ ~CommandError(dtxState[t], qe[t][s], xact[t][s])
          /\ qe[t][s] \in Context /\ qe[t][s] # "LOST"
          /\ xact[t][s] \in XactStatus
      BY <1>1, <1>row, SMTT(30) DEF QEPerform, SegInv, SegRow, TypeOK
    <2>2. SegRow(t, s, q, "ok", late[t][s], x)
      <3>1. CASE dtxState[t] = "PREPARING"
        <4>1. qe[t][s] = "WRITER"
          BY <2>1, <3>1 DEF CommandFatal, CommandError, Context
        <4> QED
          BY <3>1, <4>1, <1>cl, <1>row DEF After, CommandEffect, SegInv, SegRow, Recorded
      <3>2. CASE dtxState[t] = "NOTIFYING_ONE_PHASE_COMMIT"
        <4>1. qe[t][s] = "WRITER" /\ OnePhase(t)
          BY <2>1, <3>2, <1>row DEF CommandFatal, CommandError, Context, QDInv
        <4> QED
          BY <3>2, <4>1, <1>cl, <1>row DEF After, CommandEffect, SegInv, SegRow, Recorded
      <3>3. CASE dtxState[t] \in {"NOTIFYING_COMMIT_PREPARED", "RETRY_COMMIT_PREPARED"}
        <4>1. CommandEffect(dtxState[t], qe[t][s]) = "commitPrepared"
          BY <2>1, <3>3 DEF CommandFatal, CommandEffect
        <4>2. MayCommit(t) /\ commitLog[t] # "none"
          BY <3>3, <1>row DEF QDInv, Notifying, Recorded
        <4> QED
          BY <2>1, <3>3, <4>1, <4>2, <1>row DEF After, SegInv, SegRow
      <3>4. CASE dtxState[t] \notin {"PREPARING", "NOTIFYING_ONE_PHASE_COMMIT",
                                     "NOTIFYING_COMMIT_PREPARED", "RETRY_COMMIT_PREPARED"}
        <4>1. CommandEffect(dtxState[t], qe[t][s]) \in {"none", "abort", "abortPrepared"}
          BY <3>4 DEF CommandEffect
        <4>2. CommandEffect(dtxState[t], qe[t][s]) = "none"
              \/ dtxState[t] \in {"RETRY_ABORT_PREPARED"} \union AbortNotifying
          BY <3>4 DEF CommandEffect, AbortNotifying
        <4> QED
          BY <2>1, <3>4, <4>1, <4>2, <1>cl, <1>row
             DEF After, SegInv, SegRow, Recorded, AbortNotifying, XactStatus
      <3> QED
        BY <3>1, <3>2, <3>3, <3>4
    <2>3. RowStep(t, s, q, "ok", late[t][s], x) /\ UNCHANGED wans
      BY <1>1, <1>id, <1>com DEF QEPerform, RowStep, qdVars, dataVars, logVars, workerVars
    <2> HIDE DEF q, x
    <2> QED
      BY <2>2, <2>3, OneSegStep
  <1>2. CASE QEError(t, s)
    <2> DEFINE x == IF qe[t][s] = "WRITER" THEN After("abort", xact[t][s]) ELSE xact[t][s]
    <2>1. SegRow(t, s, "LOCAL", "err", late[t][s], x)
      BY <1>2, <1>row, <1>cl DEF QEError, After, SegInv, SegRow
    <2>2. RowStep(t, s, "LOCAL", "err", late[t][s], x) /\ UNCHANGED wans
      BY <1>2, <1>id, <1>com DEF QEError, RowStep, qdVars, dataVars, logVars, workerVars
    <2> HIDE DEF x
    <2> QED
      BY <2>1, <2>2, OneSegStep
  <1>3. CASE QEFatal(t, s)
    <2>1. SegRow(t, s, "LOST", "err", late[t][s], xact[t][s])
      BY <1>3, <1>row DEF QEFatal, SegInv, SegRow
    <2>2. RowStep(t, s, "LOST", "err", late[t][s], xact[t][s]) /\ UNCHANGED wans
      BY <1>3, <1>id DEF QEFatal, RowStep, dataVars, logVars, workerVars
    <2> QED
      BY <2>1, <2>2, OneSegStep
  <1>4. CASE LateStep(t, s)
    <2>1. PICK e \in LateEffect : LatePerform(t, s, e) \/ LateDies(t, s, e)
      BY <1>4 DEF LateStep
    <2>2. CASE LatePerform(t, s, e)
      <3> DEFINE l == late[t][s] \ {e}
                 x == After(e, xact[t][s])
      <3>1. SegRow(t, s, qe[t][s], ans[t][s], l, x)
        <4>0. e \in late[t][s] /\ xact[t][s] \in XactStatus
          BY <2>2, <1>row, SMT DEF LatePerform, TypeOK
        <4>1. CASE e \in {"prepare", "commitOnePhase"}
          BY <4>0, <4>1, <1>row DEF After, SegInv, SegRow
        <4>2. CASE e = "commitPrepared"
          <5>1. MayCommit(t)
            BY <4>0, <4>2, <1>row DEF SegInv, SegRow
          <5>2. dtxState[t] \in Recorded \union {"DONE"}
            BY <5>1, <1>row DEF MayCommit, QDInv
          <5> QED
            BY <4>0, <4>2, <5>1, <5>2, <1>row DEF After, SegInv, SegRow, Recorded
        <4>3. CASE e = "abortPrepared"
          <5>1. Abortable(t)
            BY <4>0, <4>3, <1>row DEF SegInv, SegRow
          <5>2. commitLog[t] = "none" \/ s \notin dtxSegments[t] \/ xact[t][s] = "committed"
            BY <5>1 DEF Abortable, AllCommitted
          <5>3. dtxState[t] \notin {"PREPARED", "PREPARING", "NOTIFYING_ONE_PHASE_COMMIT",
                                    "NOTIFYING_COMMIT_PREPARED", "RETRY_COMMIT_PREPARED", "NONE"}
            BY <5>1 DEF Abortable, AbortNotifying
          <5> QED
            BY <4>0, <4>3, <5>2, <5>3, <1>row DEF After, SegInv, SegRow
        <4> QED
          BY <4>1, <4>2, <4>3 DEF LateEffect
      <3>2. RowStep(t, s, qe[t][s], ans[t][s], l, x) /\ UNCHANGED wans
        BY <2>2, <1>id, <1>com DEF LatePerform, RowStep, qdVars, dataVars, qeVars, logVars, workerVars
      <3> HIDE DEF l, x
      <3> QED
        BY <3>1, <3>2, OneSegStep
    <2>3. CASE LateDies(t, s, e)
      <3>1. SegRow(t, s, qe[t][s], ans[t][s], late[t][s] \ {e}, xact[t][s])
        BY <1>row DEF SegInv, SegRow
      <3>2. RowStep(t, s, qe[t][s], ans[t][s], late[t][s] \ {e}, xact[t][s]) /\ UNCHANGED wans
        BY <2>3, <1>id DEF LateDies, RowStep, qdVars, dataVars, qeVars, logVars, workerVars
      <3> QED
        BY <3>1, <3>2, OneSegStep
    <2> QED
      BY <2>1, <2>2, <2>3
  <1>5. CASE QEExit(t, s)
    <2>1. SegRow(t, s, qe[t][s], ans[t][s], late[t][s], "aborted")
      BY <1>5, <1>row DEF QEExit, SegInv, SegRow
    <2>2. RowStep(t, s, qe[t][s], ans[t][s], late[t][s], "aborted") /\ UNCHANGED wans
      BY <1>5, <1>id DEF QEExit, RowStep, qdVars, dataVars, qeVars, logVars, workerVars
    <2> QED
      BY <2>1, <2>2, OneSegStep
  <1>6. CASE LoseConnection(t, s)
    <2> DEFINE a == IF ans[t][s] = "sent" THEN "err" ELSE ans[t][s]
    <2>1. SegRow(t, s, "LOST", a, LateAfterLoss(t, s), xact[t][s])
      BY <1>6, <1>row, <1>cl, SMTT(30) DEF LoseConnection, LateAfterLoss, Lingering, CommandEffect, SegInv,
         SegRow, QDInv, Notifying, Recorded, Abortable, AbortNotifying
    <2>2. RowStep(t, s, "LOST", a, LateAfterLoss(t, s), xact[t][s]) /\ UNCHANGED wans
      BY <1>6, <1>id DEF LoseConnection, RowStep, dataVars, logVars, workerVars
    <2> HIDE DEF a
    <2> QED
      BY <2>1, <2>2, OneSegStep
  <1> QED
    BY <1>1, <1>2, <1>3, <1>4, <1>5, <1>6 DEF SegStep, QEStep

-----------------------------------------------------------------------------
(* Steps of the log *)

\* A step of the log alone preserves the invariant if no commit loses durability.
LEMMA LogStep ==
    ASSUME DtmInv,
           UNCHANGED <<qdVars, dataVars, qeVars, late, xact, forgot, workerVars>>,
           \A u \in Gxid : /\ commitLog'[u] = "none" <=> commitLog[u] = "none"
                           /\ commitLog'[u] = "inserted" => commitLog[u] = "inserted"
                           /\ MayCommit(u) => MayCommit(u)'
                           /\ u \in unconfirmed' => commitLog'[u] = "flushed"
                           /\ commitLog[u] \in {"flushed", "synced"} =>
                                 commitLog'[u] \in {"flushed", "synced"},
           UNCHANGED lost
    PROVE  CoreInv'
  <1>inv. TypeOK /\ WorkerInv /\ \A u \in Gxid : QDInv(u) /\ \A s \in Seg : SegInv(u, s)
    BY DEF DtmInv, CoreInv
  <1>unch. UNCHANGED <<dtxState, outcome, dtxSegments, wrote, qdXid, qe, ans, late, xact, forgot,
                       dtmStarted, committedArray, wpc, recovered, htab, cur, wans>>
    BY DEF qdVars, dataVars, qeVars, workerVars
  <1>same. \A u \in Gxid : /\ OnePhase(u)' <=> OnePhase(u)
                           /\ AllCommitted(u)' <=> AllCommitted(u)
                           /\ InProgress(u)' <=> InProgress(u)
    BY <1>unch DEF OnePhase, AllCommitted, InProgress
  <1>ab. \A u \in Gxid : Abortable(u) => Abortable(u)'
    BY <1>unch, <1>same DEF Abortable
  <1>k. ASSUME NEW u \in Gxid PROVE Kept(u) /\ QDInv(u) /\ \A s \in Seg : SegInv(u, s)
    BY <1>inv, <1>unch, <1>same DEF Kept
  <1>1. ASSUME NEW u \in Gxid PROVE QDInv(u)'
    BY <1>k, <1>unch, QDKept
  <1>2. ASSUME NEW u \in Gxid, NEW s \in Seg PROVE SegInv(u, s)'
    BY <1>k, <1>unch, <1>ab, SegKept
  <1>3. WorkerInv'
    BY <1>inv, <1>unch, <1>same, <1>ab, ZenonT(30) DEF WorkerInv, TypeOK
  <1> QED
    BY <1>1, <1>2, <1>3 DEF CoreInv

\* Flushing the commit record, and the standby receiving it.
LEMMA LogStepInv ==
    ASSUME DtmInv, NEW t \in Gxid, FlushCommitted(t) \/ StandbyReceive(t)
    PROVE  CoreInv'
  <1>inv. TypeOK /\ \A u \in Gxid : u \in unconfirmed => commitLog[u] = "flushed"
    BY DEF DtmInv, CoreInv, QDInv
  <1>1. /\ UNCHANGED <<qdVars, dataVars, qeVars, late, xact, forgot, lost, workerVars>>
        /\ \/ /\ commitLog[t] = "inserted" /\ commitLog' = [commitLog EXCEPT ![t] = "flushed"]
              /\ unconfirmed' = unconfirmed
           \/ /\ commitLog[t] = "flushed" /\ commitLog' = [commitLog EXCEPT ![t] = "synced"]
              /\ unconfirmed' = unconfirmed \ {t}
    BY DEF FlushCommitted, StandbyReceive
  <1>2. \/ /\ commitLog[t] = "inserted" /\ commitLog'[t] = "flushed"
           /\ unconfirmed' = unconfirmed
        \/ /\ commitLog[t] = "flushed" /\ commitLog'[t] = "synced"
           /\ unconfirmed' = unconfirmed \ {t}
    BY <1>1, <1>inv DEF TypeOK
  <1>3. \A u \in Gxid : u # t => commitLog'[u] = commitLog[u]
    BY <1>1, <1>inv DEF TypeOK
  <1>4. \A u \in Gxid : /\ commitLog'[u] = "none" <=> commitLog[u] = "none"
                        /\ commitLog'[u] = "inserted" => commitLog[u] = "inserted"
                        /\ commitLog[u] \in {"flushed", "synced"} =>
                              commitLog'[u] \in {"flushed", "synced"}
    BY <1>2, <1>3
  <1>5. \A u \in Gxid : u \in unconfirmed' => commitLog'[u] = "flushed"
    BY <1>2, <1>3, <1>inv
  <1>6. \A u \in Gxid : MayCommit(u) => MayCommit(u)'
    BY <1>1, <1>2, <1>3 DEF MayCommit
  <1> QED
    BY <1>1, <1>4, <1>5, <1>6, LogStep

\* A transaction that has not begun is unknown to the worker and the log.
LEMMA BeginInv ==
    ASSUME DtmInv, NEW t \in Gxid, Begin(t)
    PROVE  CoreInv'
  <1>inv. TypeOK /\ WorkerInv /\ \A u \in Gxid : QDInv(u) /\ \A s \in Seg : SegInv(u, s)
    BY DEF DtmInv, CoreInv
  <1>unch. UNCHANGED <<outcome, ans, late, commitLog, forgot, unconfirmed, lost, dtmStarted,
                       committedArray, wpc, recovered, htab, cur, wans>>
    BY DEF Begin, logVars, workerVars
  <1>t. /\ dtxState[t] = "NONE" /\ dtxState'[t] = "ACTIVE_DISTRIBUTED" /\ dtmStarted
        /\ commitLog[t] = "none" /\ outcome[t] = "none" /\ wrote'[t] \subseteq dtxSegments'[t]
        /\ t \notin unconfirmed /\ t \notin lost
    <2>1. dtxState[t] = "NONE" /\ dtxState'[t] = "ACTIVE_DISTRIBUTED" /\ dtmStarted
      BY <1>inv DEF Begin, TypeOK
    <2>2. /\ commitLog[t] = "none" /\ outcome[t] = "none"
          /\ t \notin unconfirmed /\ t \notin lost
      <3>1. QDInv(t)
        BY <1>inv
      <3> QED
        BY <2>1, <3>1 DEF QDInv, Recorded
    <2>3. wrote'[t] \subseteq dtxSegments'[t]
      BY <1>inv, SMT DEF Begin, TypeOK
    <2> QED
      BY <2>1, <2>2, <2>3
  <1>s. ASSUME NEW s \in Seg
        PROVE  /\ ans[t][s] = "none" /\ late[t][s] = {}
               /\ \/ s \in dtxSegments'[t] /\ xact'[t][s] = "active" /\ qe'[t][s] = "WRITER"
                  \/ s \notin dtxSegments'[t] /\ xact'[t][s] = "none" /\ qe'[t][s] = "LOST"
    <2>1. ans[t][s] = "none" /\ late[t][s] = {}
      BY <1>inv, <1>t DEF SegInv, SegRow
    <2> QED
      BY <2>1, <1>inv, SMT DEF Begin, TypeOK
  <1>u. ASSUME NEW u \in Gxid, u # t
        PROVE  /\ dtxState'[u] = dtxState[u] /\ dtxSegments'[u] = dtxSegments[u]
               /\ wrote'[u] = wrote[u] /\ qe'[u] = qe[u] /\ xact'[u] = xact[u]
               /\ u \in qdXid' <=> u \in qdXid
    BY <1>u, <1>inv DEF Begin, TypeOK
  <1>same. ASSUME NEW u \in Gxid, u # t
           PROVE  /\ OnePhase(u)' <=> OnePhase(u)
                  /\ AllCommitted(u)' <=> AllCommitted(u)
                  /\ Abortable(u)' <=> Abortable(u)
                  /\ InProgress(u)' <=> InProgress(u)
    <2>1. AllCommitted(u)' <=> AllCommitted(u)
      BY <1>u, <1>same DEF AllCommitted
    <2> QED
      BY <1>u, <1>unch, <1>same, <2>1 DEF OnePhase, Abortable, InProgress
  <1>dur. \A u \in Gxid : MayCommit(u) => MayCommit(u)'
    BY <1>unch DEF MayCommit
  <1>k. ASSUME NEW u \in Gxid, u # t PROVE Kept(u)
    <2>1. u \in unconfirmed => commitLog[u] = "flushed"
      BY <1>inv DEF QDInv
    <2> QED
      BY <1>k, <1>u, <1>same, <1>dur, <1>unch, <2>1 DEF Kept
  <1>1. ASSUME NEW u \in Gxid PROVE QDInv(u)'
    <2>1. CASE u = t
      BY <2>1, <1>t, <1>unch DEF QDInv, Recorded, Notifying
    <2>2. CASE u # t
      BY <2>2, <1>k, <1>u, <1>unch, <1>inv, QDKept
    <2> QED
      BY <2>1, <2>2
  <1>2. ASSUME NEW u \in Gxid, NEW s \in Seg PROVE SegInv(u, s)'
    <2>1. CASE u = t
      BY <2>1, <1>t, <1>s, <1>unch DEF SegInv, SegRow
    <2>2. CASE u # t
      BY <2>2, <1>k, <1>u, <1>same, <1>unch, <1>inv, SegKept
    <2> QED
      BY <2>1, <2>2
  <1>3. WorkerInv'
    <2>1. ~MayCommit(t) /\ ~Abortable(t)
      BY <1>t DEF MayCommit, Abortable, AbortNotifying
    <2>2. t \notin committedArray /\ t \notin forgot /\ t \notin recovered /\ t \notin htab /\ t # cur
      BY <2>1, <1>inv, <1>t, GxidAssumption DEF WorkerInv
    <2>3. /\ \A u \in htab : u \in Gxid /\ u # t
          /\ \A u \in committedArray \union forgot \union recovered : u \in Gxid /\ u # t
          /\ cur # NoGxid => cur \in Gxid /\ cur # t
      BY <2>2, <1>inv DEF TypeOK
    <2> QED
      BY <2>3, <1>inv, <1>unch, <1>u, <1>same, <1>dur, <1>t DEF WorkerInv
  <1> QED
    BY <1>1, <1>2, <1>3 DEF CoreInv

\* Inserting the distributed commit record (RecordTransactionCommit).
LEMMA InsertCommittedInv ==
    ASSUME DtmInv, NEW t \in Gxid, InsertCommitted(t)
    PROVE  CoreInv'
  <1>inv. TypeOK /\ WorkerInv /\ \A u \in Gxid : QDInv(u) /\ \A s \in Seg : SegInv(u, s)
    BY DEF DtmInv, CoreInv
  <1>unch. UNCHANGED <<outcome, dtxSegments, wrote, qdXid, qe, ans, late, xact, forgot,
                       unconfirmed, lost, dtmStarted, committedArray, wpc, recovered, htab, cur, wans>>
    BY DEF InsertCommitted, dataVars, qeVars, workerVars
  <1>t. /\ dtxState[t] = "PREPARED" /\ dtxState'[t] = "INSERTED_COMMITTED"
        /\ commitLog[t] = "none" /\ commitLog'[t] = "inserted"
        /\ \A u \in Gxid \ {t} : dtxState'[u] = dtxState[u] /\ commitLog'[u] = commitLog[u]
    <2>1. dtxState[t] = "PREPARED" /\ QDInv(t)
      BY <1>inv DEF InsertCommitted
    <2>2. commitLog[t] = "none"
      BY <2>1 DEF QDInv, Recorded
    <2> QED
      BY <2>1, <2>2, <1>inv DEF InsertCommitted, TypeOK
  <1>same. ASSUME NEW u \in Gxid
           PROVE  /\ OnePhase(u)' <=> OnePhase(u)
                  /\ AllCommitted(u)' <=> AllCommitted(u)
                  /\ MayCommit(u) => MayCommit(u)'
                  /\ Abortable(u) => Abortable(u)'
                  /\ InProgress(u)' <=> InProgress(u)
    <2>1. /\ OnePhase(u)' <=> OnePhase(u)
          /\ AllCommitted(u)' <=> AllCommitted(u)
      BY <1>unch DEF AllCommitted, OnePhase
    <2>2. MayCommit(u) => MayCommit(u)'
      BY <1>t, <1>unch DEF MayCommit
    <2>3. Abortable(u) => Abortable(u)'
      BY <1>t, <2>1 DEF Abortable, AbortNotifying
    <2> QED
      BY <1>t, <2>1, <2>2, <2>3 DEF InProgress
  <1>k. ASSUME NEW u \in Gxid, u # t PROVE Kept(u)
    <2>1. u \in unconfirmed => commitLog[u] = "flushed"
      BY <1>inv DEF QDInv
    <2> QED
      BY <1>k, <1>t, <1>same, <1>unch, <2>1 DEF Kept
  <1>1. ASSUME NEW u \in Gxid PROVE QDInv(u)'
    <2>0. /\ QDInv(u)
          /\ OnePhase(u)' <=> OnePhase(u)
          /\ AllCommitted(u)' <=> AllCommitted(u)
          /\ MayCommit(u) => MayCommit(u)'
      BY <1>inv, <1>same
    <2>1. CASE u = t
      BY <2>0, <2>1, <1>t, <1>unch DEF QDInv, Recorded, Notifying
    <2>2. CASE u # t
      BY <2>2, <2>0, <1>k, <1>t, <1>unch, QDKept
    <2> QED
      BY <2>1, <2>2
  <1>2. ASSUME NEW u \in Gxid, NEW s \in Seg PROVE SegInv(u, s)'
    <2>0. /\ SegInv(u, s)
          /\ OnePhase(u)' <=> OnePhase(u)
          /\ MayCommit(u) => MayCommit(u)'
          /\ Abortable(u) => Abortable(u)'
      BY <1>inv, <1>same
    <2>1. CASE u = t
      BY <2>0, <2>1, <1>t, <1>unch DEF SegInv, SegRow
    <2>2. CASE u # t
      BY <2>2, <2>0, <1>k, <1>t, <1>unch, SegKept
    <2> QED
      BY <2>1, <2>2
  <1>3. WorkerInv'
    <2>1. \A u \in Gxid : dtxState[u] # "NONE" => dtxState'[u] # "NONE"
      BY <1>t
    <2>2. \A u \in committedArray : commitLog'[u] \in {"flushed", "synced"}
      <3> TAKE u \in committedArray
      <3>1. u \in Gxid /\ commitLog[u] \in {"flushed", "synced"}
        BY <1>inv DEF WorkerInv, TypeOK
      <3> QED
        BY <1>t, <3>1
    <2> QED
      BY <2>1, <2>2, <1>inv, <1>unch, <1>same DEF WorkerInv, TypeOK
  <1> QED
    BY <1>1, <1>2, <1>3 DEF CoreInv

\* Inserting the forget record once all segments have committed.
LEMMA InsertForgetInv ==
    ASSUME DtmInv, NEW t \in Gxid, InsertForgetCommitted(t)
    PROVE  CoreInv'
  <1>inv. TypeOK /\ WorkerInv /\ \A u \in Gxid : QDInv(u) /\ \A s \in Seg : SegInv(u, s)
    BY DEF DtmInv, CoreInv
  <1>unch. UNCHANGED <<outcome, dtxSegments, wrote, qdXid, qe, late, xact, commitLog,
                       unconfirmed, lost, dtmStarted, committedArray, wpc, recovered, htab, cur, wans>>
    BY DEF InsertForgetCommitted, dataVars, workerVars
  <1>t. /\ dtxState[t] \in {"NOTIFYING_COMMIT_PREPARED", "RETRY_COMMIT_PREPARED"}
        /\ dtxState'[t] = "INSERTED_FORGET_COMMITTED"
        /\ \A s \in dtxSegments[t] : ans[t][s] = "ok"
        /\ \A s \in Seg : ans'[t][s] = "none"
        /\ forgot' = forgot \union {t}
        /\ \A u \in Gxid \ {t} : dtxState'[u] = dtxState[u] /\ ans'[u] = ans[u]
    BY <1>inv DEF InsertForgetCommitted, TypeOK, Succeeded, NotSent
  <1>all. AllCommitted(t) /\ MayCommit(t) /\ commitLog[t] \notin {"none", "inserted"}
    <2>1. AllCommitted(t)
      BY <1>t, <1>inv, SMTT(30) DEF AllCommitted, SegInv, SegRow, TypeOK
    <2>2. QDInv(t)
      BY <1>inv
    <2> QED
      BY <1>t, <2>1, <2>2 DEF QDInv, Notifying, Recorded
  <1>same. ASSUME NEW u \in Gxid
           PROVE  /\ OnePhase(u)' <=> OnePhase(u)
                  /\ AllCommitted(u)' <=> AllCommitted(u)
                  /\ MayCommit(u) => MayCommit(u)'
                  /\ Abortable(u) => Abortable(u)'
                  /\ InProgress(u)' <=> InProgress(u)
    <2>1. /\ OnePhase(u)' <=> OnePhase(u)
          /\ AllCommitted(u)' <=> AllCommitted(u)
          /\ MayCommit(u) => MayCommit(u)'
      BY <1>unch DEF AllCommitted, OnePhase, MayCommit
    <2>2. Abortable(u) => Abortable(u)'
      BY <1>t, <1>unch, <2>1 DEF Abortable, AbortNotifying
    <2> QED
      BY <1>t, <2>1, <2>2 DEF InProgress
  <1>k. ASSUME NEW u \in Gxid, u # t PROVE Kept(u)
    <2>1. u \in unconfirmed => commitLog[u] = "flushed"
      BY <1>inv DEF QDInv
    <2> QED
      BY <1>k, <1>t, <1>same, <1>unch, <2>1 DEF Kept
  <1>1. ASSUME NEW u \in Gxid PROVE QDInv(u)'
    <2>0. /\ QDInv(u)
          /\ OnePhase(u)' <=> OnePhase(u)
          /\ AllCommitted(u)' <=> AllCommitted(u)
          /\ MayCommit(u) => MayCommit(u)'
      BY <1>inv, <1>same
    <2>1. CASE u = t
      BY <2>0, <2>1, <1>all, <1>t, <1>unch DEF QDInv, Recorded
    <2>2. CASE u # t
      BY <2>2, <2>0, <1>k, <1>t, <1>unch, QDKept
    <2> QED
      BY <2>1, <2>2
  <1>2. ASSUME NEW u \in Gxid, NEW s \in Seg PROVE SegInv(u, s)'
    <2>0. /\ SegInv(u, s)
          /\ OnePhase(u)' <=> OnePhase(u)
          /\ MayCommit(u) => MayCommit(u)'
          /\ Abortable(u) => Abortable(u)'
      BY <1>inv, <1>same
    <2>1. CASE u = t
      BY <2>0, <2>1, <1>t, <1>unch DEF SegInv, SegRow
    <2>2. CASE u # t
      BY <2>2, <2>0, <1>k, <1>t, <1>unch, SegKept
    <2> QED
      BY <2>1, <2>2
  <1>3. WorkerInv'
    <2>1. \A u \in Gxid : dtxState[u] # "NONE" => dtxState'[u] # "NONE"
      BY <1>t
    <2> QED
      BY <2>1, <1>inv, <1>unch, <1>same, <1>all, <1>t, SMTT(30) DEF WorkerInv, TypeOK
  <1> QED
    BY <1>1, <1>2, <1>3 DEF CoreInv

\* The QD ends, or its dispatcher fails before sending anything.
LEMMA QDFailInv ==
    ASSUME DtmInv, NEW t \in Gxid, QDExit(t) \/ DispatchFails(t)
    PROVE  CoreInv'
  <1>row. TypeOK /\ QDInv(t) /\ \A s \in Seg : SegInv(t, s)
    BY DEF DtmInv, CoreInv
  <1>1. CASE QDExit(t)
    <2>only. QDOnly(t)
      BY <1>1, <1>row, NotedNothing DEF QDExit, Finish, TypeOK, QDOnly
    <2>same. /\ OnePhase(t)' <=> OnePhase(t)
             /\ AllCommitted(t)' <=> AllCommitted(t)
             /\ MayCommit(t) => MayCommit(t)'
      BY <2>only, QDOnlySame
    <2>unch. UNCHANGED <<dtxSegments, wrote, xact, commitLog, unconfirmed, lost, committedArray>>
      BY <1>1 DEF QDExit, dataVars, logVars, workerVars
    <2>0. dtxState[t] \in {"ACTIVE_DISTRIBUTED", "ONE_PHASE_COMMIT", "NOTIFYING_ONE_PHASE_COMMIT",
                           "PREPARING", "PREPARED", "RETRY_ABORT_PREPARED"} \union AbortNotifying
      BY <1>1 DEF QDExit
    <2>cl. commitLog[t] = "none"
      BY <2>0, <1>row DEF QDInv, Recorded, AbortNotifying
    <2>st. dtxState'[t] = "DONE" /\ outcome'[t] = "none"
      BY <1>1, <1>row DEF QDExit, Finish, TypeOK
    <2>1. QDInv(t)'
      BY <1>row, <2>st, <2>cl, <2>same, <2>unch DEF QDInv, Recorded, Notifying
    <2>2. ASSUME NEW s \in Seg PROVE SegInv(t, s)'
      <3>1. ans'[t][s] = "none" /\ qe'[t][s] = "LOST" /\ late'[t][s] = LateAfterLoss(t, s)
        BY <1>1, <1>row DEF QDExit, Finish, TypeOK, NotSent, NoGang
      <3>2. Abortable(t)'
        BY <2>st, <2>cl, <2>unch DEF Abortable
      <3>3. "commitPrepared" \in LateAfterLoss(t, s) => "commitPrepared" \in late[t][s]
        BY <2>0 DEF LateAfterLoss, Lingering, CommandEffect, AbortNotifying
      <3>4. "commitOnePhase" \in LateAfterLoss(t, s) => OnePhase(t)
        BY <1>row DEF LateAfterLoss, Lingering, CommandEffect, QDInv, SegInv, SegRow
      <3> QED
        BY <1>row, <2>st, <2>cl, <2>same, <2>unch, <3>1, <3>2, <3>3, <3>4 DEF SegInv, SegRow
    <2> QED
      BY <2>only, <2>0, <2>st, <2>1, <2>2, QDOnlyStep DEF InProgress, AbortNotifying
  <1>2. CASE DispatchFails(t)
    <2>unch. UNCHANGED <<dtxState, outcome, dtxSegments, wrote, qdXid, qe, late, xact, commitLog,
                         forgot, unconfirmed, lost, dtmStarted, committedArray, wpc, recovered, htab, cur,
                         wans>>
      BY <1>2 DEF DispatchFails, qdVars, dataVars, logVars, workerVars
    <2>only. SegOnly(t)
      BY <1>2, <1>row, <2>unch DEF DispatchFails, TypeOK, SegOnly
    <2>same. /\ OnePhase(t)' <=> OnePhase(t)
             /\ MayCommit(t) => MayCommit(t)'
             /\ Abortable(t) => Abortable(t)'
      BY <1>row, <2>only, SegOnlySame
    <2>1. ASSUME NEW s \in Seg PROVE SegInv(t, s)'
      <3>1. \/ ans[t][s] = "sent" /\ ans'[t][s] = "err"
            \/ ans'[t][s] = ans[t][s]
        BY <1>2, <1>row DEF DispatchFails, TypeOK
      <3> QED
        BY <1>row, <2>unch, <2>same, <3>1 DEF SegInv, SegRow
    <2> QED
      BY <2>only, <2>unch, <2>1, SegOnlyStep, WansSame
  <1> QED
    BY <1>1, <1>2

-----------------------------------------------------------------------------
(* Steps of the recovery worker, and restarts *)

\* What the worker's commands may leave behind is harmless.
MayLinger(t, s) ==
    \A e \in late'[t][s] : \/ e \in late[t][s]
                           \/ e = "commitPrepared" /\ MayCommit(t)
                           \/ e = "abortPrepared" /\ Abortable(t)

\* The worker's effect on its current transaction is.
LEMMA WorkerEffectSafe ==
    ASSUME TypeOK, WorkerInv, cur # NoGxid
    PROVE  \/ WorkerEffect = "commitPrepared" /\ MayCommit(cur)
           \/ WorkerEffect = "abortPrepared" /\ Abortable(cur)
  BY DEF TypeOK, WorkerInv, WorkerEffect

\* A step of the worker that runs no command on a segment.
LEMMA WorkerOnlyStep ==
    ASSUME DtmInv,
           UNCHANGED <<dtxState, outcome, dtxSegments, wrote, qdXid, qe, ans, xact>>, Noted,
           \A t \in Gxid, s \in Seg : MayLinger(t, s),
           \A t \in committedArray : t \in committedArray' \/ AllCommitted(t),
           WorkerInv'
    PROVE  CoreInv'
  <1>same. ASSUME NEW t \in Gxid
           PROVE  /\ OnePhase(t)' <=> OnePhase(t)
                  /\ AllCommitted(t)' <=> AllCommitted(t)
                  /\ MayCommit(t) => MayCommit(t)'
                  /\ Abortable(t)' <=> Abortable(t)
    BY DEF OnePhase, AllCommitted, MayCommit, Abortable, Noted
  <1>inv. \A t \in Gxid : QDInv(t) /\ \A s \in Seg : SegInv(t, s)
    BY DEF DtmInv, CoreInv
  <1>1. ASSUME NEW t \in Gxid PROVE QDInv(t)'
    <2>1. QDInv(t)
      BY <1>inv
    <2>2. Kept(t)
      BY <1>same, <2>1 DEF Kept, Noted, QDInv
    <2> QED
      BY <2>1, <2>2, QDKept DEF Noted
  <1>2. ASSUME NEW t \in Gxid, NEW s \in Seg PROVE SegInv(t, s)'
    <2>1. SegInv(t, s) /\ QDInv(t)
      BY <1>inv
    <2>2. MayLinger(t, s)
      OBVIOUS
    <2>3. dtxState[t] = "NONE" => ~MayCommit(t) /\ ~Abortable(t)
      BY <2>1 DEF QDInv, MayCommit, Abortable, Recorded, AbortNotifying
    <2>4. dtxState[t] = "NONE" => late'[t][s] = {}
      BY <2>1, <2>2, <2>3 DEF MayLinger, SegInv, SegRow
    <2>5. qe[t][s] = "WRITER" => late'[t][s] \intersect {"prepare", "commitOnePhase"} = {}
      BY <2>1, <2>2 DEF MayLinger, SegInv, SegRow
    <2>6. /\ "commitOnePhase" \in late'[t][s] => OnePhase(t)
          /\ "commitPrepared" \in late'[t][s] => MayCommit(t)
          /\ "abortPrepared" \in late'[t][s] => Abortable(t)
      BY <2>1, <2>2 DEF MayLinger, SegInv, SegRow
    <2> QED
      BY <1>same, <2>1, <2>4, <2>5, <2>6 DEF SegInv, SegRow, Noted
  <1> QED
    BY <1>1, <1>2 DEF CoreInv

\* The worker ends and is started again.
LEMMA WorkerRestartInv ==
    ASSUME DtmInv, WorkerRestart
    PROVE  CoreInv'
  <1>inv. TypeOK /\ WorkerInv
    BY DEF DtmInv, CoreInv
  <1>unch. UNCHANGED <<dtxState, outcome, dtxSegments, wrote, qdXid, qe, ans, xact, commitLog,
                       forgot, unconfirmed, lost, dtmStarted, committedArray>>
    BY DEF WorkerRestart, qdVars, dataVars, qeVars, logVars
  <1>1. ASSUME NEW t \in Gxid, NEW s \in Seg PROVE MayLinger(t, s)
    <2>1. late'[t][s] = LateAfterWorker(t, s)
      BY DEF WorkerRestart
    <2> QED
      BY <1>inv, <2>1, WorkerEffectSafe, GxidAssumption DEF MayLinger, LateAfterWorker
  <1>same. ASSUME NEW t \in Gxid
           PROVE  /\ AllCommitted(t)' <=> AllCommitted(t)
                  /\ MayCommit(t) => MayCommit(t)'
                  /\ InProgress(t)' <=> InProgress(t)
    BY <1>unch DEF AllCommitted, MayCommit, InProgress
  <1>2. WorkerInv'
    <2>1. /\ wpc' = IF dtmStarted THEN "idle" ELSE "commit"
          /\ recovered' = {} /\ htab' = {} /\ cur' = NoGxid
      BY DEF WorkerRestart
    <2> QED
      BY <1>inv, <1>unch, <1>same, <2>1 DEF WorkerInv, TypeOK
  <1> QED
    BY <1>unch, <1>1, <1>2, WorkerOnlyStep DEF Noted

\* The DTX recovery worker's steps (recoverTM, abortOrphanedTransactions).
LEMMA WorkerStepInv ==
    ASSUME DtmInv, WorkerStep
    PROVE  CoreInv'
  <1>inv. TypeOK /\ WorkerInv /\ \A t \in Gxid : QDInv(t) /\ \A s \in Seg : SegInv(t, s)
    BY DEF DtmInv, CoreInv
  <1>linger. ASSUME UNCHANGED late, NEW t \in Gxid, NEW s \in Seg PROVE MayLinger(t, s)
    BY <1>linger DEF MayLinger
  <1>same. ASSUME UNCHANGED <<dtxState, dtxSegments, xact>>, Noted, NEW t \in Gxid
           PROVE  /\ AllCommitted(t)' <=> AllCommitted(t)
                  /\ MayCommit(t) => MayCommit(t)'
                  /\ Abortable(t)' <=> Abortable(t)
                  /\ InProgress(t)' <=> InProgress(t)
    BY <1>same DEF AllCommitted, MayCommit, Abortable, InProgress, Noted
  <1>1. CASE \E t \in Gxid : RecoverCommitted(t)
    <2>0. PICK t \in Gxid : RecoverCommitted(t)
      BY <1>1
    <2>1. UNCHANGED <<dtxState, outcome, dtxSegments, wrote, qdXid, qe, ans, late, xact,
                      dtmStarted, committedArray, wpc, recovered, htab>>
      BY <2>0 DEF RecoverCommitted, qdVars, dataVars, qeVars
    <2>2. wpc = "commit" /\ t \in committedArray /\ cur' = t /\ \A s \in Seg : wans'[s] = "sent"
      BY <2>0 DEF RecoverCommitted, AllSent
    <2>4. commitLog[t] \in {"flushed", "synced"}
      BY <1>inv, <2>2 DEF WorkerInv
    <2>5. Noted /\ UNCHANGED forgot /\ MayCommit(t)'
      BY <2>0, <2>4, NotedFacts DEF RecoverCommitted
    <2>6. UNCHANGED commitLog
      BY <2>5 DEF Noted
    <2>3. WorkerInv'
      BY <1>inv, <1>same, <2>1, <2>2, <2>5, <2>6 DEF WorkerInv, TypeOK
    <2> QED
      BY <1>linger, <2>1, <2>3, <2>5, WorkerOnlyStep
  <1>2. CASE \E t \in Gxid : AbortInDoubt(t)
    <2>0. PICK t \in Gxid : AbortInDoubt(t)
      BY <1>2
    <2>1. UNCHANGED <<dtxState, outcome, dtxSegments, wrote, qdXid, qe, ans, late, xact, commitLog,
                      forgot, unconfirmed, lost, dtmStarted, committedArray, wpc, recovered, htab>>
      BY <2>0 DEF AbortInDoubt, qdVars, dataVars, qeVars, logVars
    <2>2. wpc \in {"abort", "orphans"} /\ t \in htab /\ (wpc = "orphans" => ~InProgress(t))
          /\ cur' = t
      BY <2>0 DEF AbortInDoubt
    <2>3. Abortable(t)
      <3>1. CASE wpc = "abort"
        BY <1>inv, <2>2, <3>1 DEF WorkerInv
      <3>2. CASE wpc = "orphans"
        <4>1. dtxState[t] = "DONE" /\ committedArray = {}
          BY <1>inv, <2>2, <3>2 DEF WorkerInv, InProgress
        <4>2. QDInv(t)
          BY <1>inv
        <4> QED
          BY <4>1, <4>2 DEF QDInv, Abortable
      <3> QED
        BY <2>2, <3>1, <3>2
    <2>4. WorkerInv'
      BY <1>inv, <1>same, <2>1, <2>2, <2>3 DEF WorkerInv, TypeOK, Noted
    <2> QED
      BY <1>linger, <2>1, <2>4, WorkerOnlyStep DEF Noted
  <1>3. CASE \/ AbortedInDoubt \/ EndGathered \/ GatherOrphans
             \/ \E t \in Gxid : SkipInProgress(t)
    <2>1. UNCHANGED <<dtxState, outcome, dtxSegments, wrote, qdXid, qe, ans, late, xact, commitLog,
                      forgot, unconfirmed, lost, committedArray, recovered>>
      BY <1>3 DEF AbortedInDoubt, EndGathered, GatherOrphans, SkipInProgress, qdVars, dataVars,
                  qeVars, logVars
    <2>2. ASSUME EndGathered PROVE WorkerInv'
      BY <1>inv, <1>same, <2>1, <2>2 DEF EndGathered, WorkerInv, TypeOK, Noted
    <2>3. ASSUME AbortedInDoubt PROVE WorkerInv'
      BY <1>inv, <1>same, <2>1, <2>3 DEF AbortedInDoubt, WorkerInv, TypeOK, Noted
    <2>4. ASSUME NEW t \in Gxid, SkipInProgress(t) PROVE WorkerInv'
      <3>1. /\ wpc = "orphans" /\ cur = NoGxid /\ htab' \subseteq htab
            /\ UNCHANGED <<dtmStarted, wpc, cur>>
        BY <2>4 DEF SkipInProgress
      <3> QED
        BY <1>inv, <1>same, <2>1, <3>1 DEF WorkerInv, TypeOK, Noted
    <2>5. ASSUME GatherOrphans PROVE WorkerInv'
      <3>1. ASSUME NEW t \in Gxid, NEW s \in Seg, xact[t][s] = "prepared"
            PROVE  dtxState[t] # "NONE"
        <4>1. SegInv(t, s)
          BY <1>inv
        <4> QED
          BY <3>1, <4>1 DEF SegInv, SegRow
      <3>2. \A t \in htab' : t \in Gxid /\ dtxState[t] # "NONE"
        BY <2>5, <3>1 DEF GatherOrphans, PreparedSomewhere
      <3>3. wpc = "idle" /\ wpc' = "orphans" /\ UNCHANGED <<dtmStarted, cur>>
        BY <2>5 DEF GatherOrphans
      <3> QED
        BY <1>inv, <1>same, <2>1, <3>2, <3>3 DEF WorkerInv, TypeOK, Noted
    <2>6. WorkerInv'
      BY <1>3, <2>2, <2>3, <2>4, <2>5
    <2> QED
      BY <1>linger, <2>1, <2>6, WorkerOnlyStep DEF Noted
  <1>4. CASE RecoveredCommitted
    <2>1. UNCHANGED <<dtxState, outcome, dtxSegments, wrote, qdXid, qe, ans, late, xact, commitLog,
                      unconfirmed, lost, dtmStarted, committedArray, wpc, htab>>
      BY <1>4 DEF RecoveredCommitted, qdVars, dataVars, qeVars
    <2>2. /\ wpc = "commit" /\ cur \in Gxid /\ \A s \in Seg : wans[s] = "ok"
          /\ forgot' = forgot \union {cur} /\ recovered' = recovered \union {cur}
          /\ cur' = NoGxid
      BY <1>4, <1>inv DEF RecoveredCommitted, TypeOK
    <2>3. MayCommit(cur) /\ cur \in committedArray /\ AllCommitted(cur)
      BY <1>inv, <1>4, <2>2 DEF WorkerInv, TypeOK, AllCommitted, RecoveredCommitted
    <2>4. WorkerInv'
      BY <1>inv, <1>same, <2>1, <2>2, <2>3 DEF WorkerInv, TypeOK, Noted
    <2> QED
      BY <1>linger, <2>1, <2>4, WorkerOnlyStep DEF Noted
  <1>5. CASE GatherInDoubt
    <2>1. UNCHANGED <<dtxState, outcome, dtxSegments, wrote, qdXid, qe, ans, late, xact, commitLog,
                      forgot, unconfirmed, lost, dtmStarted, cur>>
      BY <1>5 DEF GatherInDoubt, qdVars, dataVars, qeVars, logVars
    <2>2. /\ wpc = "commit" /\ cur = NoGxid /\ wpc' = "abort"
          /\ committedArray \subseteq recovered /\ committedArray' = {} /\ recovered' = {}
          /\ \A t \in htab' : t \in Gxid /\ \E s \in Seg : xact[t][s] = "prepared"
      BY <1>5 DEF GatherInDoubt, PreparedSomewhere
    <2>3. \A t \in committedArray : AllCommitted(t)
      BY <1>inv, <2>2 DEF WorkerInv
    <2>4. ASSUME NEW t \in htab' PROVE dtxState[t] # "NONE" /\ Abortable(t)
      <3>1. PICK s \in Seg : xact[t][s] = "prepared"
        BY <2>2
      <3>2. t \in Gxid /\ QDInv(t) /\ SegInv(t, s) /\ ~InProgress(t)
        BY <1>inv, <2>2 DEF WorkerInv
      <3> QED
        BY <2>3, <3>1, <3>2 DEF QDInv, SegInv, SegRow, Abortable, InProgress
    <2>5. WorkerInv'
      BY <1>inv, <1>same, <2>1, <2>2, <2>4 DEF WorkerInv, TypeOK, Noted
    <2> QED
      BY <1>linger, <2>1, <2>3, <2>5, WorkerOnlyStep DEF Noted
  <1>6. CASE RecoverCommittedFails
    BY <1>6, WorkerRestartInv DEF RecoverCommittedFails
  <1>7. CASE \E s \in Seg : WorkerPerform(s) \/ WorkerError(s)
    <2>0. PICK s \in Seg : WorkerPerform(s) \/ WorkerError(s)
      BY <1>7
    <2>cur. cur \in Gxid /\ cur # NoGxid
      BY <1>inv, <2>0 DEF WorkerPerform, WorkerError, TypeOK
    <2>t. PICK t \in Gxid : t = cur
      BY <2>cur
    <2>row. QDInv(cur) /\ SegInv(cur, s) /\ xact[cur][s] \in XactStatus
      BY <1>inv, <2>cur, SMT DEF TypeOK
    <2>eff. \/ WorkerEffect = "commitPrepared" /\ MayCommit(cur)
            \/ WorkerEffect = "abortPrepared" /\ Abortable(cur)
      BY <1>inv, <2>cur, WorkerEffectSafe
    <2>id. /\ qe = [qe EXCEPT ![cur][s] = qe[cur][s]]
           /\ ans = [ans EXCEPT ![cur][s] = ans[cur][s]]
           /\ late = [late EXCEPT ![cur][s] = late[cur][s]]
           /\ xact = [xact EXCEPT ![cur][s] = xact[cur][s]]
      BY <1>inv, <2>cur DEF TypeOK
    <2>unch. UNCHANGED <<dtxState, outcome, dtxSegments, wrote, qdXid, qe, ans, commitLog, forgot,
                         unconfirmed, lost, dtmStarted, committedArray, wpc, recovered, htab, cur>>
      BY <2>0 DEF WorkerPerform, WorkerError, qdVars, dataVars, qeVars, logVars
    <2>rec. cur # NoGxid /\ wpc = "commit" =>
               \A r \in dtxSegments[cur] : r \in Seg /\ (wans[r] = "ok" => xact[cur][r] = "committed")
      BY <1>inv, <2>cur DEF WorkerInv, TypeOK
    <2>1. CASE WorkerPerform(s)
      <3> DEFINE x == After(WorkerEffect, xact[cur][s])
      <3>1. SegRow(cur, s, qe[cur][s], ans[cur][s], late[cur][s], x)
        <4>1. CASE WorkerEffect = "commitPrepared" /\ MayCommit(cur)
          <5>1. dtxState[cur] \in Recorded \union {"DONE"}
            BY <4>1, <2>row DEF QDInv, MayCommit
          <5> QED
            BY <4>1, <5>1, <2>row DEF After, SegInv, SegRow, Recorded
        <4>2. CASE WorkerEffect = "abortPrepared" /\ Abortable(cur)
          <5>2. commitLog[cur] = "none" \/ s \notin dtxSegments[cur] \/ xact[cur][s] = "committed"
            BY <4>2 DEF Abortable, AllCommitted
          <5>3. dtxState[cur] \notin {"PREPARED", "PREPARING", "NOTIFYING_ONE_PHASE_COMMIT",
                                    "NOTIFYING_COMMIT_PREPARED", "RETRY_COMMIT_PREPARED", "NONE"}
            BY <4>2 DEF Abortable, AbortNotifying
          <5> QED
            BY <4>2, <5>2, <5>3, <2>row DEF After, SegInv, SegRow
        <4> QED
          BY <2>eff, <4>1, <4>2
      <3>3. xact[cur][s] = "committed" => x = "committed"
        BY DEF After
      <3>4. WansKnown
        <4>1. ASSUME wpc = "commit", NEW r \in dtxSegments[cur], wans'[r] = "ok"
              PROVE  xact'[cur][r] = "committed"
          <5>1. CASE r = s
            <6>1. commitLog[cur] # "none"
              BY <1>inv, <2>cur, <4>1 DEF WorkerInv, MayCommit
            <6>2. xact[cur][s] \in {"prepared", "committed"}
              BY <4>1, <5>1, <6>1, <2>row DEF SegInv, SegRow
            <6> QED
              BY <1>inv, <2>1, <2>cur, <4>1, <5>1, <6>2 DEF WorkerPerform, After, WorkerEffect, TypeOK
          <5>2. CASE r # s
            BY <1>inv, <2>1, <2>cur, <2>rec, <4>1, <5>2 DEF WorkerPerform, TypeOK
          <5> QED
            BY <5>1, <5>2
        <4> QED
          BY <4>1 DEF WansKnown
      <3>5. RowStep(cur, s, qe[cur][s], ans[cur][s], late[cur][s], x)
        BY <2>1, <2>id, <2>unch, <3>3 DEF WorkerPerform, RowStep, qeVars
      <3> HIDE DEF x
      <3>6. SegOnly(t) /\ \A r \in Seg : SegInv(t, r)'
        BY <2>t, <3>1, <3>5, OneSegRow
      <3> QED
        BY <3>4, <3>6, SegOnlyStep
    <2>2. CASE WorkerError(s)
      <3> DEFINE l == late[cur][s] \union {WorkerEffect}
      <3>1. SegRow(cur, s, qe[cur][s], ans[cur][s], l, xact[cur][s])
        <4>1. dtxState[cur] # "NONE"
          BY <2>eff, <2>row DEF QDInv, MayCommit, Abortable, Recorded, AbortNotifying
        <4> QED
          BY <4>1, <2>eff, <2>row DEF SegInv, SegRow
      <3>3. WansKnown
        BY <1>inv, <2>2, <2>cur, <2>rec DEF WorkerError, WansKnown, TypeOK
      <3>4. RowStep(cur, s, qe[cur][s], ans[cur][s], l, xact[cur][s])
        BY <2>2, <2>id, <2>unch DEF WorkerError, RowStep, qeVars
      <3> HIDE DEF l
      <3>5. SegOnly(t) /\ \A r \in Seg : SegInv(t, r)'
        BY <2>t, <3>1, <3>4, OneSegRow
      <3> QED
        BY <3>3, <3>5, SegOnlyStep
    <2> QED
      BY <2>0, <2>1, <2>2
  <1> QED
    BY <1>1, <1>2, <1>3, <1>4, <1>5, <1>6, <1>7 DEF WorkerStep

\* The coordinator is lost.  The log that is replayed holds no record that was
\* not inserted, and every one that segments may act on, or that one is lost.
LEMMA RestartInv ==
    ASSUME DtmInv, NEW kept \in SUBSET Gxid, Restart(kept),
           \A t \in kept : commitLog[t] # "none",
           \A t \in Gxid : commitLog[t] = "synced" => t \in kept,
           lost \subseteq lost', unconfirmed \subseteq kept \union lost',
           \A t \in lost' : t \in lost \/ (t \in unconfirmed /\ t \notin kept)
    PROVE  CoreInv'
  <1>inv. TypeOK /\ WorkerInv
    BY DEF DtmInv, CoreInv
  <1>unch. UNCHANGED <<outcome, dtxSegments, wrote, qdXid, xact, forgot>>
    BY DEF Restart, dataVars
  <1>wk. /\ unconfirmed' = unconfirmed \intersect kept
         /\ dtmStarted' = FALSE /\ wpc' = "commit" /\ recovered' = {}
         /\ htab' = {} /\ cur' = NoGxid
         /\ committedArray' \subseteq kept /\ kept \ forgot \subseteq committedArray'
    BY DEF Restart
  <1>row. ASSUME NEW t \in Gxid
          PROVE  /\ dtxState'[t] = IF dtxState[t] = "NONE" THEN "NONE" ELSE "DONE"
                 /\ commitLog'[t] = IF t \notin kept THEN "none"
                                    ELSE IF commitLog[t] = "inserted" THEN "flushed"
                                    ELSE commitLog[t]
                 /\ \A s \in Seg :
                       /\ qe'[t][s] = "LOST" /\ ans'[t][s] = "none"
                       /\ late'[t][s] = LateAfterLoss(t, s) \union LateAfterWorker(t, s)
    BY DEF Restart, InProgress, NoGang, NotSent
  <1>same. ASSUME NEW t \in Gxid
           PROVE  /\ OnePhase(t)' <=> OnePhase(t)
                  /\ AllCommitted(t)' <=> AllCommitted(t)
                  /\ MayCommit(t) => MayCommit(t)'
                  /\ t \in kept => commitLog'[t] \in {"flushed", "synced"}
                  /\ t \in kept <=> commitLog'[t] # "none"
    <2>1. commitLog[t] \in {"none", "inserted", "flushed", "synced"}
      BY <1>inv DEF TypeOK
    <2>2. t \in kept => commitLog'[t] \in {"flushed", "synced"}
      BY <2>1, <1>row
    <2>3. t \notin kept => commitLog'[t] = "none"
      BY <1>row
    <2>4. (OnePhase(t)' <=> OnePhase(t)) /\ (AllCommitted(t)' <=> AllCommitted(t))
      BY <1>unch DEF OnePhase, AllCommitted
    <2>5. MayCommit(t) => MayCommit(t)'
      <3>1. CASE commitLog[t] = "synced"
        <4>1. commitLog'[t] = "synced"
          BY <3>1, <1>row
        <4> QED
          BY <4>1 DEF MayCommit
      <3>2. CASE t \in unconfirmed
        BY <3>2, <1>wk DEF MayCommit
      <3>3. CASE t \in lost
        BY <3>3 DEF MayCommit
      <3> QED
        BY <3>1, <3>2, <3>3 DEF MayCommit
    <2> QED
      BY <2>2, <2>3, <2>4, <2>5
  <1>ab. ASSUME NEW t \in Gxid, Abortable(t) PROVE Abortable(t)'
    <2>1. dtxState'[t] = "DONE"
      BY <1>ab, <1>row DEF Abortable, AbortNotifying
    <2>2. commitLog[t] = "none" => commitLog'[t] = "none"
      BY <1>same
    <2> QED
      BY <1>ab, <1>same, <2>1, <2>2 DEF Abortable
  <1>1. ASSUME NEW t \in Gxid PROVE QDInv(t)'
    <2>1. QDInv(t)
      BY DEF DtmInv, CoreInv
    <2>2. t \in forgot => AllCommitted(t)
      BY <1>inv DEF WorkerInv
    <2>3. commitLog'[t] # "none" => commitLog[t] # "none" /\ commitLog'[t] # "inserted"
      <3>1. commitLog'[t] = IF t \notin kept THEN "none"
                            ELSE IF commitLog[t] = "inserted" THEN "flushed" ELSE commitLog[t]
        BY <1>row
      <3> QED
        BY <3>1
    <2>4. dtxState[t] = "NONE" => commitLog[t] = "none"
      BY <2>1 DEF QDInv, Recorded
    <2>5. commitLog'[t] # "none" => t \in committedArray' \/ AllCommitted(t)
      BY <1>same, <1>wk, <2>2
    <2>6. t \in unconfirmed' => commitLog'[t] = "flushed"
      <3>1. t \in unconfirmed' => t \in kept /\ commitLog[t] = "flushed"
        BY <1>wk, <2>1 DEF QDInv
      <3> QED
        BY <3>1, <1>row
    <2>7. t \in lost' => /\ dtxState'[t] = "DONE" /\ commitLog'[t] = "none"
                         /\ t \in lost \/ commitLog[t] # "none"
      <3>1. t \in lost' => /\ dtxState[t] # "NONE" /\ t \notin kept
                           /\ t \in lost \/ commitLog[t] # "none"
        BY <2>1, <2>4 DEF QDInv
      <3> QED
        BY <3>1, <1>row
    <2> QED
      <3>1. /\ dtxState'[t] = IF dtxState[t] = "NONE" THEN "NONE" ELSE "DONE"
            /\ OnePhase(t)' <=> OnePhase(t)
            /\ AllCommitted(t)' <=> AllCommitted(t)
        BY <1>row, <1>same
      <3> QED
        BY <3>1, <1>unch, <2>1, <2>3, <2>4, <2>5, <2>6, <2>7 DEF QDInv, Recorded, Notifying
  <1>2. ASSUME NEW t \in Gxid, NEW s \in Seg PROVE SegInv(t, s)'
    <2>1. QDInv(t) /\ SegInv(t, s)
      BY DEF DtmInv, CoreInv
    <2>2. /\ "commitPrepared" \in LateAfterLoss(t, s) => MayCommit(t)
          /\ "abortPrepared" \in LateAfterLoss(t, s) => Abortable(t)
          /\ "commitOnePhase" \in LateAfterLoss(t, s) => OnePhase(t)
          /\ dtxState[t] = "NONE" => LateAfterLoss(t, s) = {}
      BY <2>1, <1>inv DEF LateAfterLoss, Lingering, CommandEffect, SegInv, SegRow, QDInv, Notifying,
         Recorded, Abortable, AbortNotifying
    <2>3. ASSUME NEW e \in LateAfterWorker(t, s)
          PROVE  \/ e \in late[t][s]
                 \/ e = "commitPrepared" /\ MayCommit(t)
                 \/ e = "abortPrepared" /\ Abortable(t)
      BY <2>3, <1>inv, WorkerEffectSafe, GxidAssumption DEF LateAfterWorker
    <2>4. dtxState[t] = "NONE" => ~MayCommit(t) /\ ~Abortable(t)
      BY <2>1 DEF QDInv, MayCommit, Abortable, Recorded, AbortNotifying
    <2>5. /\ "commitPrepared" \in LateAfterWorker(t, s) => MayCommit(t)
          /\ "abortPrepared" \in LateAfterWorker(t, s) => Abortable(t)
          /\ "commitOnePhase" \in LateAfterWorker(t, s) => OnePhase(t)
          /\ dtxState[t] = "NONE" => LateAfterWorker(t, s) = {}
      BY <2>1, <2>3, <2>4 DEF SegInv, SegRow
    <2>6. /\ "commitPrepared" \in late'[t][s] => MayCommit(t)'
          /\ "abortPrepared" \in late'[t][s] => Abortable(t)'
          /\ "commitOnePhase" \in late'[t][s] => OnePhase(t)'
          /\ dtxState[t] = "NONE" => late'[t][s] = {}
      <3>1. late'[t][s] = LateAfterLoss(t, s) \union LateAfterWorker(t, s)
        BY <1>row
      <3>2. /\ MayCommit(t) => MayCommit(t)'
            /\ Abortable(t) => Abortable(t)'
            /\ OnePhase(t) => OnePhase(t)'
        BY <1>same, <1>ab
      <3> QED
        BY <2>2, <2>5, <3>1, <3>2
    <2>7. commitLog'[t] # "none" => commitLog[t] # "none"
      BY <1>same
    <2> QED
      <3>1. /\ dtxState'[t] = IF dtxState[t] = "NONE" THEN "NONE" ELSE "DONE"
            /\ qe'[t][s] = "LOST" /\ ans'[t][s] = "none"
            /\ OnePhase(t)' <=> OnePhase(t)
            /\ MayCommit(t) => MayCommit(t)'
        BY <1>row, <1>same
      <3> QED
        BY <3>1, <1>unch, <2>1, <2>6, <2>7 DEF SegInv, SegRow
  <1>3. WorkerInv'
    <2>1. \A t \in Gxid : ~InProgress(t)'
      BY <1>row DEF InProgress
    <2>2. \A t \in kept : commitLog'[t] \in {"flushed", "synced"}
      BY <1>same
    <2>3. \A t \in forgot : MayCommit(t)' /\ AllCommitted(t)'
      BY <1>inv, <1>same DEF WorkerInv, TypeOK
    <2> QED
      BY <1>wk, <1>unch, <2>1, <2>2, <2>3 DEF WorkerInv
  <1> QED
    BY <1>1, <1>2, <1>3 DEF CoreInv

\* A crash, a PANIC and a promotion, each a restart from what survives.
LEMMA CrashInv ==
    ASSUME DtmInv, Crash \/ Promote \/ \E t \in Gxid : CommitPanic(t)
    PROVE  CoreInv'
  <1>type. TypeOK
    BY DEF DtmInv
  <1>un. \A t \in Gxid : t \in unconfirmed => commitLog[t] = "flushed"
    BY DEF DtmInv, CoreInv, QDInv
  <1>1. CASE Crash
    <2>1. PICK lucky : /\ lucky \subseteq Logged({"inserted"})
                       /\ Restart(lucky \union Logged({"flushed", "synced"}))
                       /\ lost' = lost
      BY <1>1 DEF Crash
    <2>2. PICK kept : kept = lucky \union Logged({"flushed", "synced"})
      OBVIOUS
    <2> kept \in SUBSET Gxid
      BY <2>1, <2>2 DEF Logged
    <2>3. \A t \in kept : commitLog[t] # "none"
      BY <2>1, <2>2 DEF Logged
    <2>4. \A t \in Gxid : commitLog[t] \in {"flushed", "synced"} => t \in kept
      BY <2>2 DEF Logged
    <2>5. unconfirmed \subseteq kept
      BY <1>type, <2>4, <1>un DEF TypeOK
    <2> QED
      BY <2>1, <2>2, <2>3, <2>4, <2>5, RestartInv
  <1>2. CASE Promote
    <2>1. PICK kept : kept = Logged({"synced"})
      OBVIOUS
    <2> kept \in SUBSET Gxid
      BY <2>1 DEF Logged
    <2>2. Restart(kept) /\ lost' = lost \union unconfirmed
      BY <1>2, <2>1 DEF Promote
    <2>3. \A t \in kept : commitLog[t] = "synced"
      BY <2>1 DEF Logged
    <2>4. \A t \in Gxid : commitLog[t] = "synced" => t \in kept
      BY <2>1 DEF Logged
    <2>5. \A t \in unconfirmed : t \notin kept
      BY <1>type, <2>3, <1>un DEF TypeOK
    <2> QED
      BY <2>2, <2>3, <2>4, <2>5, RestartInv
  <1> QED
    BY <1>1, <1>2 DEF CommitPanic

-----------------------------------------------------------------------------

\* A freshly started cluster satisfies the invariant.
LEMMA InitInv == Init => DtmInv
  <1> SUFFICES ASSUME Init PROVE DtmInv
    OBVIOUS
  <1>1. TypeOK
    <2>1. /\ dtxState \in [Gxid -> DtxState]
          /\ dtxSegments \in [Gxid -> SUBSET Seg] /\ wrote \in [Gxid -> SUBSET Seg]
          /\ qe \in [Gxid -> [Seg -> Context]] /\ ans \in [Gxid -> [Seg -> Answer]]
      BY ConstTypes DEF Init, DtxState
    <2>2. /\ late \in [Gxid -> [Seg -> SUBSET LateEffect]]
          /\ xact \in [Gxid -> [Seg -> XactStatus]]
          /\ commitLog \in [Gxid -> {"none", "inserted", "flushed", "synced"}]
          /\ outcome \in [Gxid -> {"none", "committed", "aborted"}]
      BY DEF Init, XactStatus
    <2>3. /\ qdXid \in SUBSET Gxid /\ writerGangLost \in SUBSET Gxid /\ forgot \in SUBSET Gxid
          /\ unconfirmed \in SUBSET Gxid /\ lost \in SUBSET Gxid /\ dtmStarted \in BOOLEAN /\ committedArray \in SUBSET Gxid
          /\ wpc \in {"commit", "abort", "idle", "orphans"} /\ recovered \in SUBSET Gxid
          /\ htab \in SUBSET Gxid /\ cur \in Gxid \union {NoGxid} /\ wans \in [Seg -> Answer]
      BY ConstTypes DEF Init
    <2> QED
      BY <2>1, <2>2, <2>3 DEF TypeOK
  <1>2. ASSUME NEW t \in Gxid PROVE QDInv(t)
    <2>1. /\ dtxState[t] = "NONE" /\ commitLog[t] = "none" /\ outcome[t] = "none"
          /\ wrote[t] = {} /\ dtxSegments[t] = {} /\ t \notin unconfirmed /\ t \notin lost
      BY DEF Init
    <2> QED
      BY <2>1 DEF QDInv, Recorded, Notifying
  <1>3. ASSUME NEW t \in Gxid, NEW s \in Seg PROVE SegInv(t, s)
    <2>1. /\ dtxState[t] = "NONE" /\ commitLog[t] = "none" /\ dtxSegments[t] = {}
          /\ qe[t][s] = "LOST" /\ ans[t][s] = "none" /\ late[t][s] = {} /\ xact[t][s] = "none"
      BY DEF Init, NoGang, NotSent
    <2> QED
      BY <2>1 DEF SegInv, SegRow
  <1>4. WorkerInv
    <2>1. /\ dtmStarted = FALSE /\ wpc = "commit" /\ committedArray = {} /\ recovered = {}
          /\ forgot = {} /\ htab = {} /\ cur = NoGxid /\ \A t \in Gxid : dtxState[t] = "NONE"
      BY DEF Init
    <2> QED
      BY <2>1 DEF WorkerInv, InProgress
  <1> QED
    BY <1>1, <1>2, <1>3, <1>4 DEF DtmInv, CoreInv

\* Nothing it depends on changes when no variable does.
LEMMA StutterInv ==
    ASSUME DtmInv, UNCHANGED vars
    PROVE  CoreInv'
  <1>1. UNCHANGED <<qdVars, dataVars, qeVars, late, xact, forgot, workerVars, commitLog,
                    unconfirmed, lost>>
    BY DEF vars, logVars
  <1>2. \A u \in Gxid : MayCommit(u) => MayCommit(u)'
    BY <1>1 DEF MayCommit
  <1>3. \A u \in Gxid : u \in unconfirmed => commitLog[u] = "flushed"
    BY DEF DtmInv, CoreInv, QDInv
  <1> QED
    BY <1>1, <1>2, <1>3, LogStep

\* Every step preserves it, one lemma per actor.
LEMMA NextInv == DtmInv /\ [Next]_vars => DtmInv'
  <1> SUFFICES ASSUME DtmInv, [Next]_vars PROVE DtmInv'
    OBVIOUS
  <1>type. TypeOK'
    BY NextType DEF DtmInv
  <1> SUFFICES CoreInv'
    BY <1>type DEF DtmInv
  <1>1. CASE UNCHANGED vars
    BY <1>1, StutterInv
  <1>2. ASSUME NEW t \in Gxid, QDStep(t) \/ QDChoice(t) \/ StandbyReceive(t) PROVE CoreInv'
    BY <1>2, BeginInv, InsertCommittedInv, InsertForgetInv, QDCommitInv, QDAbortInv, LogStepInv
       DEF QDStep, QDChoice, QDCommitStep, QDAbortStep
  <1>3. ASSUME NEW t \in Gxid, NEW s \in Seg, SegStep(t, s) \/ LoseConnection(t, s) PROVE CoreInv'
    BY <1>3, SegStepInv
  <1>5. CASE WorkerStep \/ WorkerDies
    BY <1>5, WorkerStepInv, WorkerRestartInv DEF WorkerDies
  <1>6. ASSUME NEW t \in Gxid, QDExit(t) \/ DispatchFails(t) PROVE CoreInv'
    BY <1>6, QDFailInv
  <1>7. CASE Crash \/ Promote \/ \E t \in Gxid : CommitPanic(t)
    BY <1>7, CrashInv
  <1> QED
    BY <1>1, <1>2, <1>3, <1>5, <1>6, <1>7 DEF Next, Failure

\* DtmInv is an inductive invariant of the specification.
LEMMA DtmInvariance == Spec => []DtmInv
  BY InitInv, NextInv, PTL DEF Spec

-----------------------------------------------------------------------------
(* The theorems *)

(* The state of the QD, QEs, recovery worker and log is always well formed:
   CommitTransaction(), performDtxProtocolCommand() and recoverTM() leave no
   other combination of states behind. *)
THEOREM TypeCorrect == Spec => []TypeOK
  <1>1. DtmInv => TypeOK
    BY DEF DtmInv
  <1> QED
    BY <1>1, DtmInvariance, PTL

(* Two-phase commit is atomic on any number of segments, through QE errors,
   broken connections, worker and coordinator restarts, and promotions of a
   standby that lacks no record whose COMMIT PREPARED was already broadcast. *)
THEOREM Atomic == Spec => []Agreement
  <1>1. DtmInv => Agreement
    <2> SUFFICES ASSUME DtmInv, NEW t \in Gxid, t \notin lost, ~OnePhase(t), NEW s \in dtxSegments[t]
                 PROVE  /\ xact[t][s] = "aborted" => commitLog[t] = "none"
                        /\ xact[t][s] = "committed" => commitLog[t] # "none"
      BY DEF Agreement
    <2>1. s \in Seg
      BY DEF DtmInv, TypeOK
    <2>2. SegInv(t, s) /\ QDInv(t)
      BY <2>1 DEF DtmInv, CoreInv
    <2> QED
      BY <2>2 DEF SegInv, SegRow, MayCommit, QDInv
  <1> QED
    BY <1>1, DtmInvariance, PTL

(* doInsertForgetCommitted() and recoverInDoubtTransactions() write a forget
   record only when every segment has committed. *)
THEOREM ForgetSafe == Spec => []ForgetIsSafe
  <1>1. DtmInv => ForgetIsSafe
    BY DEF DtmInv, CoreInv, WorkerInv, ForgetIsSafe, AllCommitted
  <1> QED
    BY <1>1, DtmInvariance, PTL

(* The client of CommitTransaction() and AbortTransaction() is told the truth. *)
THEOREM ClientToldTruth == Spec => []OutcomeIsTrue
  <1>1. DtmInv => OutcomeIsTrue
    <2> SUFFICES ASSUME DtmInv, NEW t \in Gxid, NEW s \in wrote[t]
                 PROVE  /\ outcome[t] = "committed" => xact[t][s] = "committed"
                        /\ outcome[t] = "aborted" /\ ~OnePhase(t) => xact[t][s] # "committed"
      BY DEF OutcomeIsTrue
    <2>1. QDInv(t)
      BY DEF DtmInv, CoreInv
    <2>2. s \in dtxSegments[t] /\ s \in Seg
      BY <2>1 DEF QDInv, DtmInv, TypeOK
    <2>3. SegInv(t, s)
      BY <2>2 DEF DtmInv, CoreInv
    <2> QED
      BY <2>1, <2>2, <2>3 DEF QDInv, SegInv, SegRow, MayCommit
  <1> QED
    BY <1>1, DtmInvariance, PTL

(* recoverTM() lets backends in only when every committed transaction of an
   earlier life of the coordinator is committed on all its segments. *)
THEOREM StartedRecovered == Spec => []StartedMeansRecovered
  <1>1. DtmInv => StartedMeansRecovered
    <2> SUFFICES ASSUME DtmInv, dtmStarted, NEW t \in Gxid, commitLog[t] # "none", ~InProgress(t)
                 PROVE  AllCommitted(t)
      BY DEF StartedMeansRecovered, AllCommitted
    <2>1. QDInv(t) /\ WorkerInv
      BY DEF DtmInv, CoreInv
    <2>2. committedArray = {}
      BY <2>1 DEF WorkerInv
    <2> QED
      BY <2>1, <2>2 DEF QDInv, InProgress, Recorded
  <1> QED
    BY <1>1, DtmInvariance, PTL

-----------------------------------------------------------------------------
(* Dtm implements AtomicCommit.  Every step of Dtm changes at most one of   *)
(* the things AtomicCommit speaks of; DtmInv, before and after the     *)
(* step, says that it may.                                                  *)


\* A QD tells its client at the end only, and then once.
ToldAtEnd == \A t \in Gxid : outcome[t] # "none" => dtxState[t] = "DONE"

RefInv == DtmInv /\ ToldAtEnd

-----------------------------------------------------------------------------

LEMMA ToldAtEndInit == Init => ToldAtEnd
  BY SMT DEF Init, ToldAtEnd

\* A finished transaction stays finished.
LEMMA ToldAtEndKept ==
    ASSUME DtmInv, ToldAtEnd, NEW t \in Gxid,
           \A u \in Gxid \ {t} : UNCHANGED <<outcome[u], dtxState[u]>>,
           \/ dtxState[t] # "DONE" /\ outcome'[t] = outcome[t]
           \/ dtxState'[t] = "DONE"
           \/ UNCHANGED <<outcome[t], dtxState[t]>>
    PROVE  ToldAtEnd'
  <1> SUFFICES ASSUME NEW u \in Gxid, outcome'[u] # "none" PROVE dtxState'[u] = "DONE"
    BY DEF ToldAtEnd
  <1> QED
    BY DEF ToldAtEnd

\* The things AtomicCommit speaks of depend on these variables only.
LEMMA PartSame ==
    ASSUME UNCHANGED dataVars
    PROVE  /\ UNCHANGED TwoPhaseSegments
           /\ \A t \in Gxid : OnePhase(t)' <=> OnePhase(t)
  BY DEF TwoPhaseSegments, OnePhase, dataVars

LEMMA DecidedSame ==
    ASSUME UNCHANGED <<commitLog, unconfirmed>>
    PROVE  UNCHANGED <<Decided, OnStandby>>
  BY DEF Decided, OnStandby, Logged

LEMMA DoneSame ==
    ASSUME UNCHANGED <<dataVars, xact>>
    PROVE  UNCHANGED Done
  BY PartSame DEF Done

LEMMA ToldSame ==
    ASSUME UNCHANGED <<dataVars, outcome>>
    PROVE  UNCHANGED Told
  BY PartSame DEF Told

\* Each of them is a function, and so is what replaces it.
LEMMA Functions ==
    /\ TwoPhaseSegments = [t \in Gxid |-> TwoPhaseSegments[t]]
    /\ TwoPhaseSegments' = [t \in Gxid |-> TwoPhaseSegments'[t]]
    /\ Told = [t \in Gxid |-> Told[t]]
    /\ Told' = [t \in Gxid |-> Told'[t]]
    /\ Done = [t \in Gxid |-> [s \in Seg |-> Done[t][s]]]
    /\ Done' = [t \in Gxid |-> [s \in Seg |-> Done'[t][s]]]
  <1>1. TwoPhaseSegments = [t \in Gxid |-> TwoPhaseSegments[t]] /\ Told = [t \in Gxid |-> Told[t]]
    BY DEF TwoPhaseSegments, Told
  <1>2. TwoPhaseSegments' = [t \in Gxid |-> TwoPhaseSegments'[t]] /\ Told' = [t \in Gxid |-> Told'[t]]
    BY DEF TwoPhaseSegments, Told
  <1>3. Done = [t \in Gxid |-> [s \in Seg |-> Done[t][s]]]
    BY DEF Done
  <1>4. Done' = [t \in Gxid |-> [s \in Seg |-> Done'[t][s]]]
    BY DEF Done
  <1> QED
    BY <1>1, <1>2, <1>3, <1>4

LEMMA ExceptOne ==
    ASSUME NEW D, NEW f, NEW g, f = [x \in D |-> f[x]], g = [x \in D |-> g[x]],
           NEW d \in D, \A x \in D \ {d} : g[x] = f[x]
    PROVE  g = [f EXCEPT ![d] = g[d]]
  BY SMT

LEMMA ExceptTwo ==
    ASSUME NEW D, NEW E, NEW f, NEW g,
           f = [x \in D |-> [y \in E |-> f[x][y]]], g = [x \in D |-> [y \in E |-> g[x][y]]],
           NEW d \in D, NEW e \in E,
           \A x \in D, y \in E : x # d \/ y # e => g[x][y] = f[x][y]
    PROVE  g = [f EXCEPT ![d][e] = g[d][e]]
  BY SMT

\* A two-phase transaction has segments that wrote.
LEMMA TwoPhaseFacts ==
    ASSUME DtmInv, NEW t \in Gxid
    PROVE  /\ OnePhase(t) => TwoPhaseSegments[t] = {}
           /\ ~OnePhase(t) => TwoPhaseSegments[t] = dtxSegments[t] /\ TwoPhaseSegments[t] # {}
           /\ TwoPhaseSegments[t] \subseteq Seg
  <1>1. ~OnePhase(t) => wrote[t] # {} /\ wrote[t] \subseteq dtxSegments[t]
    BY DEF DtmInv, CoreInv, QDInv, OnePhase
  <1>2. dtxSegments[t] \subseteq Seg
    BY SMT DEF DtmInv, TypeOK
  <1> QED
    BY <1>1, <1>2 DEF TwoPhaseSegments

\* Nothing aborted, on a segment or for the client, is ever decided.
DecidedNotAborted ==
    \A t \in Decided : /\ t \notin lost
                       /\ Told[t] # "aborted"
                       /\ \A s \in TwoPhaseSegments[t] : Done[t][s] # "aborted"

LEMMA DecidedFacts == DtmInv => DecidedNotAborted
  <1> SUFFICES ASSUME DtmInv, NEW t \in Decided
               PROVE  /\ t \notin lost
                      /\ Told[t] # "aborted"
                      /\ \A s \in TwoPhaseSegments[t] : Done[t][s] # "aborted"
    BY DEF DecidedNotAborted
  <1>0. t \in Gxid
    BY DEF Decided, OnStandby, Logged, DtmInv, TypeOK
  <1>4. QDInv(t)
    BY <1>0 DEF DtmInv, CoreInv
  <1>1. t \in Gxid /\ commitLog[t] # "none"
    BY <1>0, <1>4 DEF Decided, OnStandby, Logged, QDInv
  <1>5. t \notin lost
    BY <1>1, <1>4 DEF QDInv
  <1>2. Told[t] # "aborted"
    BY <1>1 DEF Told, DtmInv, CoreInv, QDInv
  <1>3. ASSUME NEW s \in TwoPhaseSegments[t] PROVE Done[t][s] # "aborted"
    <2>1. s \in dtxSegments[t] /\ s \in Seg
      BY <1>1, <1>3, TwoPhaseFacts
    <2>2. xact[t][s] \in {"prepared", "committed"}
      BY <1>1, <2>1 DEF DtmInv, CoreInv, SegInv, SegRow
    <2> QED
      BY <1>1, <2>1, <2>2 DEF Done
  <1> QED
    BY <1>2, <1>3, <1>5

-----------------------------------------------------------------------------
(* The steps, by what they change *)

\* Nothing that AtomicCommit speaks of.
LEMMA Hidden ==
    ASSUME UNCHANGED <<dataVars, xact, commitLog, unconfirmed, lost, outcome>>
    PROVE  UNCHANGED AC!vars
  BY PartSame, DecidedSame, DoneSame, ToldSame DEF AC!vars

\* A broadcast or the standby: a transaction is decided, or its decision backed.
LEMMA DecideRefines ==
    ASSUME DtmInv', NEW t \in Gxid, UNCHANGED <<dataVars, xact, outcome, lost>>,
           t \in Decided', Decided' = Decided \union {t},
           OnStandby' \in {OnStandby, OnStandby \union {t}}
    PROVE  [AC!Next]_(AC!vars)
  <1>1. UNCHANGED <<TwoPhaseSegments, Done, Told>>
    BY PartSame, DoneSame, ToldSame
  <1>2. DecidedNotAborted'
    BY DecidedFacts, PTL
  <1>3. /\ t \notin lost' /\ Told'[t] # "aborted"
        /\ \A s \in TwoPhaseSegments'[t] : Done'[t][s] # "aborted"
    BY <1>2 DEF DecidedNotAborted
  <1>4. AC!Decide(t)
    BY <1>1, <1>3 DEF AC!Decide
  <1> QED
    BY <1>4 DEF AC!Next

\* COMMIT PREPARED goes out.
LEMMA NoteRefines ==
    ASSUME DtmInv, DtmInv', NEW t \in Gxid, NoteUnconfirmed(t),
           UNCHANGED <<dataVars, xact, outcome>>
    PROVE  [AC!Next]_(AC!vars)
  <1>1. UNCHANGED <<commitLog, lost>>
    BY DEF NoteUnconfirmed
  <1>2. CASE commitLog[t] = "synced"
    <2>1. UNCHANGED unconfirmed
      BY <1>2 DEF NoteUnconfirmed
    <2> QED
      BY <1>1, <2>1, Hidden
  <1>3. CASE commitLog[t] # "synced"
    <2>1. unconfirmed' = unconfirmed \union {t}
      BY <1>3 DEF NoteUnconfirmed
    <2>2. OnStandby' = OnStandby
      BY <1>1 DEF OnStandby, Logged
    <2>3. t \in Decided' /\ Decided' = Decided \union {t}
      BY <2>1, <2>2 DEF Decided
    <2> QED
      BY <1>1, <2>2, <2>3, DecideRefines
  <1> QED
    BY <1>2, <1>3

\* A transaction begins.
LEMMA BeginRefines ==
    ASSUME DtmInv, DtmInv', NEW t \in Gxid, Begin(t)
    PROVE  [AC!Next]_(AC!vars)
  <1>0. QDInv(t) /\ \A s \in Seg : SegInv(t, s)
    BY DEF DtmInv, CoreInv
  <1>1. dtxState[t] = "NONE" /\ UNCHANGED <<commitLog, unconfirmed, lost, outcome>>
    BY DEF Begin, logVars
  <1>2. outcome[t] = "none"
    BY <1>0, <1>1 DEF QDInv
  <1>3. dtxSegments[t] = {}
    <2>1. dtxSegments[t] \subseteq Seg
      BY SMTT(30) DEF DtmInv, TypeOK
    <2> QED
      BY <1>0, <1>1, <2>1 DEF SegInv, SegRow
  <1>4. TwoPhaseSegments[t] = {}
    BY <1>3 DEF TwoPhaseSegments
  <1>5. /\ dtxSegments' = [dtxSegments EXCEPT ![t] = dtxSegments'[t]]
        /\ wrote' = [wrote EXCEPT ![t] = wrote'[t]]
        /\ xact' = [xact EXCEPT ![t] = xact'[t]]
        /\ \A s \in Seg : xact'[t][s] \in {"active", "none"}
        /\ \A u \in Gxid \ {t} : u \in qdXid' <=> u \in qdXid
    BY SMTT(30) DEF Begin, DtmInv, TypeOK
  <1>6. \A u \in Gxid \ {t} : /\ dtxSegments'[u] = dtxSegments[u] /\ wrote'[u] = wrote[u]
                              /\ xact'[u] = xact[u]
    BY <1>5, SMTT(30) DEF DtmInv, TypeOK
  <1>7. \A u \in Gxid \ {t} : OnePhase(u)' <=> OnePhase(u)
    BY <1>5, <1>6 DEF OnePhase
  <1>8. TwoPhaseSegments' = [TwoPhaseSegments EXCEPT ![t] = TwoPhaseSegments'[t]]
    <2>1. \A u \in Gxid \ {t} : TwoPhaseSegments'[u] = TwoPhaseSegments[u]
      BY <1>6, <1>7 DEF TwoPhaseSegments
    <2> QED
      BY <2>1, Functions, ExceptOne
  <1>9. TwoPhaseSegments'[t] \in SUBSET Seg
    <2>1. dtxSegments'[t] \subseteq Seg
      BY SMTT(30) DEF DtmInv, TypeOK
    <2> QED
      BY <2>1 DEF TwoPhaseSegments
  <1>10. UNCHANGED Done
    <2>1. \A u \in Gxid, s \in Seg : Done'[u][s] = Done[u][s]
      <3> TAKE u \in Gxid, s \in Seg
      <3>1. CASE u = t
        BY <1>4, <1>5, <3>1 DEF Done
      <3>2. CASE u # t
        <4>1. TwoPhaseSegments'[u] = TwoPhaseSegments[u]
          BY <1>6, <1>7, <3>2 DEF TwoPhaseSegments
        <4> QED
          BY <1>6, <3>2, <4>1 DEF Done
      <3> QED
        BY <3>1, <3>2
    <2> QED
      BY <2>1, Functions, SMT
  <1>11. UNCHANGED Told
    <2>1. \A u \in Gxid : Told'[u] = Told[u]
      BY <1>1, <1>2, <1>7 DEF Told
    <2> QED
      BY <2>1, Functions, SMT
  <1>12. AC!Begin(t)
    BY <1>1, <1>4, <1>8, <1>9, <1>10, <1>11, DecidedSame DEF AC!Begin
  <1> QED
    BY <1>12 DEF AC!Next

\* The end of a transaction on one segment.
LEMMA XactRefines ==
    ASSUME DtmInv, DtmInv', NEW t \in Gxid, NEW s \in Seg, NEW x,
           xact' = [xact EXCEPT ![t][s] = x],
           x = xact[t][s] \/ xact[t][s] \in {"active", "prepared"},
           UNCHANGED <<dataVars, commitLog, unconfirmed, lost, outcome>>
    PROVE  [AC!Next]_(AC!vars)
  <1>1. UNCHANGED <<TwoPhaseSegments, Decided, OnStandby, lost, Told>>
    BY PartSame, DecidedSame, ToldSame
  <1>2. xact'[t][s] = x /\ \A u \in Gxid, r \in Seg : u # t \/ r # s => xact'[u][r] = xact[u][r]
    BY SMTT(30) DEF DtmInv, TypeOK
  <1>3. \A u \in Gxid, r \in Seg : u # t \/ r # s => Done'[u][r] = Done[u][r]
    BY <1>1, <1>2 DEF Done
  <1>4. CASE s \notin TwoPhaseSegments[t] \/ x \notin {"committed", "aborted"} \/ x = xact[t][s]
    <2>1. Done'[t][s] = Done[t][s]
      BY <1>1, <1>2, <1>4 DEF Done
    <2>2. \A u \in Gxid, r \in Seg : Done'[u][r] = Done[u][r]
      BY <1>3, <2>1
    <2>3. UNCHANGED Done
      BY <2>2, Functions, SMT
    <2> QED
      BY <1>1, <2>3 DEF AC!vars
  <1>5. CASE s \in TwoPhaseSegments[t] /\ x \in {"committed", "aborted"} /\ x # xact[t][s]
    <2>1. ~OnePhase(t) /\ s \in dtxSegments[t]
      BY <1>5, TwoPhaseFacts
    <2>2. Done[t][s] = "no" /\ Done'[t][s] = x
      BY <1>1, <1>2, <1>5 DEF Done
    <2>3. Done' = [Done EXCEPT ![t][s] = x]
      <3>1. Done' = [Done EXCEPT ![t][s] = Done'[t][s]]
        BY <1>3, Functions, ExceptTwo, SMT
      <3> QED
        BY <2>2, <3>1
    <2>4. SegInv(t, s)' /\ (OnePhase(t)' <=> OnePhase(t)) /\ dtxSegments' = dtxSegments
      BY PartSame DEF DtmInv, CoreInv, dataVars
    <2>5. CASE x = "committed"
      <3>1. MayCommit(t)'
        BY <1>2, <2>1, <2>4, <2>5 DEF SegInv, SegRow
      <3>2. t \in Decided \union lost
        BY <3>1 DEF MayCommit, Decided, OnStandby, Logged
      <3>3. AC!Commit(t, s)
        BY <1>1, <1>5, <2>2, <2>3, <2>5, <3>2 DEF AC!Commit
      <3> QED
        BY <3>3 DEF AC!Next
    <2>6. CASE x = "aborted"
      <3>0. commitLog'[t] = "none" /\ QDInv(t)'
        BY <1>2, <2>1, <2>4, <2>6 DEF SegInv, SegRow, DtmInv, CoreInv
      <3>1. t \notin Decided
        BY <3>0 DEF QDInv, Decided, OnStandby, Logged
      <3>2. AC!Abort(t, s)
        BY <1>1, <1>5, <2>2, <2>3, <2>6, <3>1 DEF AC!Abort
      <3> QED
        BY <3>2 DEF AC!Next
    <2> QED
      BY <1>5, <2>5, <2>6
  <1> QED
    BY <1>4, <1>5

\* The answer to the client.
LEMMA TellRefines ==
    ASSUME DtmInv, DtmInv', NEW t \in Gxid, NEW what \in {"none", "committed", "aborted"},
           outcome[t] = "none", outcome' = [outcome EXCEPT ![t] = what],
           UNCHANGED <<dataVars, xact, commitLog, unconfirmed, lost>>
    PROVE  [AC!Next]_(AC!vars)
  <1>1. UNCHANGED <<TwoPhaseSegments, Decided, OnStandby, lost, Done>>
    BY PartSame, DecidedSame, DoneSame
  <1>2. outcome'[t] = what /\ \A u \in Gxid \ {t} : outcome'[u] = outcome[u]
    BY SMTT(30) DEF DtmInv, TypeOK
  <1>3. (OnePhase(t)' <=> OnePhase(t)) /\ \A u \in Gxid \ {t} : Told'[u] = Told[u]
    BY <1>2, PartSame DEF Told
  <1>4. CASE OnePhase(t) \/ what = "none"
    <2>1. Told'[t] = Told[t]
      BY <1>2, <1>3, <1>4 DEF Told
    <2>2. UNCHANGED Told
      BY <1>3, <2>1, Functions, SMT
    <2> QED
      BY <1>1, <2>2 DEF AC!vars
  <1>5. CASE ~OnePhase(t) /\ what # "none"
    <2>1. Told[t] = "none" /\ Told'[t] = what
      BY <1>2, <1>3, <1>5 DEF Told
    <2>2. Told' = [Told EXCEPT ![t] = what]
      BY <1>3, <2>1, Functions, ExceptOne
    <2>3. TwoPhaseSegments[t] = dtxSegments[t] /\ TwoPhaseSegments[t] # {} /\ dtxSegments[t] \subseteq Seg
      BY <1>5, TwoPhaseFacts
    <2>4. QDInv(t)' /\ dtxSegments' = dtxSegments /\ xact' = xact /\ commitLog' = commitLog
      BY DEF DtmInv, CoreInv, dataVars
    <2>5. CASE what = "committed"
      <3>1. \A s \in dtxSegments[t] : xact[t][s] = "committed"
        BY <1>2, <2>4, <2>5 DEF QDInv, AllCommitted
      <3>2. \A s \in TwoPhaseSegments[t] : Done[t][s] = "committed"
        BY <2>3, <3>1 DEF Done
      <3>3. AC!Tell(t, "committed")
        BY <1>1, <2>1, <2>2, <2>3, <2>5, <3>2 DEF AC!Tell
      <3> QED
        BY <3>3 DEF AC!Next
    <2>6. CASE what = "aborted"
      <3>0. commitLog[t] = "none" /\ t \notin lost /\ t \notin unconfirmed
        BY <1>2, <1>3, <1>5, <2>4, <2>6 DEF QDInv
      <3>1. t \notin Decided \union lost
        BY <3>0 DEF Decided, OnStandby, Logged
      <3>2. AC!Tell(t, "aborted")
        BY <1>1, <2>1, <2>2, <2>3, <2>6, <3>1 DEF AC!Tell
      <3> QED
        BY <3>2 DEF AC!Next
    <2> QED
      BY <1>5, <2>5, <2>6
  <1> QED
    BY <1>4, <1>5

-----------------------------------------------------------------------------
(* The actions *)

\* ToldAtEnd across the steps that leave qdVars, or all but one QD, alone.
LEMMA ToldAtEndNext == RefInv /\ [Next]_vars => ToldAtEnd'
  <1> SUFFICES ASSUME RefInv, [Next]_vars PROVE ToldAtEnd'
    OBVIOUS
  <1>t. DtmInv /\ ToldAtEnd
    BY DEF RefInv
  <1>f. /\ dtxState \in [Gxid -> DtxState]
        /\ outcome \in [Gxid -> {"none", "committed", "aborted"}]
    BY <1>t DEF DtmInv, TypeOK
  <1>k. UNCHANGED <<dtxState, outcome>> => ToldAtEnd'
    BY <1>t DEF ToldAtEnd
  <1>d. ASSUME NEW t \in Gxid, NEW st, dtxState[t] # "DONE",
               dtxState' = [dtxState EXCEPT ![t] = st], outcome' = outcome
        PROVE  ToldAtEnd'
    <2>1. \A u \in Gxid \ {t} : dtxState'[u] = dtxState[u]
      BY <1>f, <1>d, SMT
    <2> QED
      BY <1>t, <1>d, <2>1, ToldAtEndKept
  <1>e. ASSUME NEW t \in Gxid, NEW told, Finish(t, told) PROVE ToldAtEnd'
    <2>1. /\ dtxState'[t] = "DONE"
          /\ \A u \in Gxid \ {t} : dtxState'[u] = dtxState[u] /\ outcome'[u] = outcome[u]
      BY <1>f, <1>e, SMT DEF Finish
    <2> QED
      BY <1>t, <2>1, ToldAtEndKept
  <1>1. CASE UNCHANGED vars
    BY <1>1, <1>k DEF vars, qdVars
  <1>2. ASSUME NEW t \in Gxid, QDStep(t) PROVE ToldAtEnd'
    <2>1. CASE EndOnePhase(t) \/ EndCommit(t) \/ AbortNotified(t) \/ GiveUpAbort(t)
               \/ RetryAbortSucceeded(t)
      BY <1>e, <2>1 DEF EndOnePhase, EndCommit, AbortNotified, GiveUpAbort, RetryAbortSucceeded
    <2>2. CASE EndPrepare(t) \/ InsertCommitted(t) \/ NotifyCommitPrepared(t)
      BY <1>d, <2>2 DEF EndPrepare, InsertCommitted, NotifyCommitPrepared
    <2>3. CASE RetryCommitPrepared(t) \/ InsertForgetCommitted(t)
      BY <1>d, <2>3 DEF RetryCommitPrepared, CommitRoundFailed, InsertForgetCommitted
    <2>4. CASE RollbackPreparing(t) \/ AbortNotifyFailed(t)
      BY <1>d, <2>4 DEF RollbackPreparing, AbortNotifyFailed
    <2>5. CASE FlushCommitted(t) \/ RetryAbortPrepared(t)
      BY <1>k, <2>5 DEF FlushCommitted, RetryAbortPrepared, qdVars
    <2> QED
      BY <1>2, <2>1, <2>2, <2>3, <2>4, <2>5 DEF QDStep
  <1>3. ASSUME NEW t \in Gxid, QDChoice(t) PROVE ToldAtEnd'
    <2>1. CASE Begin(t) \/ CommitOnePhase(t) \/ Prepare(t)
      BY <1>d, <2>1 DEF Begin, CommitOnePhase, Prepare
    <2>2. CASE RollbackNoPrepared(t) \/ RollbackPrepared(t)
      BY <1>d, <2>2 DEF RollbackNoPrepared, RollbackPrepared
    <2>3. CASE RollbackOmitted(t)
      BY <1>e, <2>3 DEF RollbackOmitted
    <2> QED
      BY <1>3, <2>1, <2>2, <2>3 DEF QDChoice
  <1>4. ASSUME NEW t \in Gxid, NEW s \in Seg, SegStep(t, s) \/ LoseConnection(t, s)
        PROVE  ToldAtEnd'
    BY <1>4, <1>k DEF SegStep, QEStep, LateStep, QEPerform, QEError, QEFatal, LatePerform,
                      LateDies, QEExit, LoseConnection, qdVars
  <1>5. ASSUME NEW t \in Gxid, StandbyReceive(t) \/ DispatchFails(t) PROVE ToldAtEnd'
    BY <1>5, <1>k DEF StandbyReceive, DispatchFails, qdVars
  <1>7. CASE WorkerStep \/ WorkerDies
    BY <1>7, <1>k DEF WorkerStep, WorkerDies, WorkerRestart, RecoverCommitted, AbortInDoubt,
                      SkipInProgress, WorkerPerform, WorkerError, RecoveredCommitted,
                      RecoverCommittedFails, GatherInDoubt, GatherOrphans, AbortedInDoubt,
                      EndGathered, qdVars
  <1>8. ASSUME NEW t \in Gxid, QDExit(t) PROVE ToldAtEnd'
    BY <1>8, <1>e DEF QDExit
  <1>9. CASE Crash \/ Promote \/ \E t \in Gxid : CommitPanic(t)
    <2>1. PICK kept : Restart(kept)
      BY <1>9 DEF Crash, Promote, CommitPanic
    <2>2. outcome' = outcome /\ \A t \in Gxid : dtxState[t] = "DONE" => dtxState'[t] = "DONE"
      BY <2>1 DEF Restart
    <2> QED
      BY <1>t, <2>2 DEF ToldAtEnd
  <1> QED
    BY <1>1, <1>2, <1>3, <1>4, <1>5, <1>7, <1>8, <1>9 DEF Next, Failure

\* Only a running or prepared transaction ends.
LEMMA AfterMoves ==
    ASSUME NEW e, NEW x
    PROVE  After(e, x) = x \/ x \in {"active", "prepared"}
  BY DEF After

LEMMA QDRefines ==
    ASSUME RefInv, DtmInv', NEW t \in Gxid,
           QDStep(t) \/ QDChoice(t) \/ QDExit(t) \/ DispatchFails(t)
    PROVE  [AC!Next]_(AC!vars)
  <1>t. DtmInv /\ ToldAtEnd
    BY DEF RefInv
  <1>f. commitLog \in [Gxid -> {"none", "inserted", "flushed", "synced"}]
    BY <1>t DEF DtmInv, TypeOK
  <1>e. ASSUME NEW told \in {"none", "committed", "aborted"}, dtxState[t] # "DONE", Finish(t, told),
               UNCHANGED <<dataVars, xact, commitLog, unconfirmed, lost>>
        PROVE  [AC!Next]_(AC!vars)
    <2>1. outcome[t] = "none"
      BY <1>e, <1>t DEF ToldAtEnd
    <2>2. outcome' = [outcome EXCEPT ![t] = told]
      BY <1>e DEF Finish
    <2> QED
      BY <1>e, <1>t, <2>1, <2>2, TellRefines
  <1>1. CASE EndOnePhase(t) \/ EndCommit(t) \/ AbortNotified(t)
    BY <1>e, <1>1 DEF EndOnePhase, EndCommit, AbortNotified, AbortNotifying, logVars
  <1>2. CASE GiveUpAbort(t) \/ RetryAbortSucceeded(t) \/ RollbackOmitted(t)
    BY <1>e, <1>2 DEF GiveUpAbort, RetryAbortPending, RetryAbortSucceeded, RollbackOmitted, logVars
  <1>3. CASE QDExit(t)
    BY <1>e, <1>3 DEF QDExit, AbortNotifying, logVars
  <1>4. CASE EndPrepare(t) \/ RetryCommitPrepared(t) \/ InsertForgetCommitted(t)
    BY <1>4, Hidden DEF EndPrepare, RetryCommitPrepared, InsertForgetCommitted, logVars
  <1>9. CASE NotifyCommitPrepared(t)
    BY <1>9, <1>t, NoteRefines DEF NotifyCommitPrepared
  <1>5. CASE RollbackPreparing(t) \/ AbortNotifyFailed(t) \/ RetryAbortPrepared(t)
             \/ DispatchFails(t)
    BY <1>5, Hidden DEF RollbackPreparing, AbortNotifyFailed, RetryAbortPrepared, DispatchFails,
                        qdVars, logVars
  <1>6. CASE CommitOnePhase(t) \/ Prepare(t) \/ RollbackNoPrepared(t) \/ RollbackPrepared(t)
    BY <1>6, Hidden DEF CommitOnePhase, Prepare, RollbackNoPrepared, RollbackPrepared, logVars
  <1>7. CASE Begin(t)
    BY <1>7, <1>t, BeginRefines
  <1>8. CASE InsertCommitted(t) \/ FlushCommitted(t)
    <2>1. commitLog[t] \in {"none", "inserted"}
      <3>1. QDInv(t)
        BY <1>t DEF DtmInv, CoreInv
      <3> QED
        BY <1>8, <3>1 DEF InsertCommitted, FlushCommitted, QDInv, Recorded
    <2>2. /\ \A u \in Gxid \ {t} : commitLog'[u] = commitLog[u]
          /\ commitLog'[t] # "synced" /\ UNCHANGED <<unconfirmed, lost>>
      BY <1>8, <1>f DEF InsertCommitted, FlushCommitted
    <2>3. OnStandby' = OnStandby
      BY <2>1, <2>2 DEF OnStandby, Logged
    <2>4. Decided' = Decided
      BY <2>2, <2>3 DEF Decided
    <2> QED
      BY <1>8, <2>2, <2>3, <2>4, PartSame, DoneSame, ToldSame
         DEF InsertCommitted, FlushCommitted, qdVars, AC!vars
  <1> QED
    BY <1>1, <1>2, <1>3, <1>4, <1>5, <1>6, <1>7, <1>8, <1>9 DEF QDStep, QDChoice

LEMMA SegRefines ==
    ASSUME DtmInv, DtmInv', NEW t \in Gxid, NEW s \in Seg, SegStep(t, s) \/ LoseConnection(t, s)
    PROVE  [AC!Next]_(AC!vars)
  <1>1. CASE QEPerform(t, s)
    <2> DEFINE x == After(CommandEffect(dtxState[t], qe[t][s]), xact[t][s])
    <2>1. xact' = [xact EXCEPT ![t][s] = x]
      BY <1>1 DEF QEPerform
    <2>2. UNCHANGED <<dataVars, commitLog, unconfirmed, lost, outcome>>
      BY <1>1 DEF QEPerform, qdVars, logVars
    <2>3. x = xact[t][s] \/ xact[t][s] \in {"active", "prepared"}
      BY AfterMoves
    <2> HIDE DEF x
    <2> QED
      BY <2>1, <2>2, <2>3, XactRefines
  <1>2. CASE QEError(t, s)
    <2> DEFINE x == IF qe[t][s] = "WRITER" THEN After("abort", xact[t][s]) ELSE xact[t][s]
    <2>1. xact' = [xact EXCEPT ![t][s] = x]
      BY <1>2 DEF QEError
    <2>2. UNCHANGED <<dataVars, commitLog, unconfirmed, lost, outcome>>
      BY <1>2 DEF QEError, qdVars, logVars
    <2>3. x = xact[t][s] \/ xact[t][s] \in {"active", "prepared"}
      BY AfterMoves
    <2> HIDE DEF x
    <2> QED
      BY <2>1, <2>2, <2>3, XactRefines
  <1>3. ASSUME NEW e \in LateEffect, LatePerform(t, s, e) PROVE [AC!Next]_(AC!vars)
    <2> DEFINE x == After(e, xact[t][s])
    <2>1. xact' = [xact EXCEPT ![t][s] = x]
      BY <1>3 DEF LatePerform
    <2>2. UNCHANGED <<dataVars, commitLog, unconfirmed, lost, outcome>>
      BY <1>3 DEF LatePerform, qdVars, logVars
    <2>3. x = xact[t][s] \/ xact[t][s] \in {"active", "prepared"}
      BY AfterMoves
    <2> HIDE DEF x
    <2> QED
      BY <2>1, <2>2, <2>3, XactRefines
  <1>4. CASE QEExit(t, s)
    <2>1. /\ xact' = [xact EXCEPT ![t][s] = "aborted"] /\ xact[t][s] = "active"
          /\ UNCHANGED <<dataVars, commitLog, unconfirmed, lost, outcome>>
      BY <1>4 DEF QEExit, qdVars, logVars
    <2> QED
      BY <2>1, XactRefines
  <1>5. CASE QEFatal(t, s) \/ LoseConnection(t, s) \/ \E e \in LateEffect : LateDies(t, s, e)
    BY <1>5, Hidden DEF QEFatal, LoseConnection, LateDies, qdVars, logVars
  <1> QED
    BY <1>1, <1>2, <1>3, <1>4, <1>5 DEF SegStep, QEStep, LateStep

LEMMA WorkerRefines ==
    ASSUME DtmInv, DtmInv', WorkerStep \/ WorkerDies
    PROVE  [AC!Next]_(AC!vars)
  <1>1. ASSUME NEW s \in Seg, WorkerPerform(s) PROVE [AC!Next]_(AC!vars)
    <2> DEFINE x == After(WorkerEffect, xact[cur][s])
    <2>1. xact' = [xact EXCEPT ![cur][s] = x] /\ cur # NoGxid
      BY <1>1 DEF WorkerPerform
    <2>2. UNCHANGED <<dataVars, commitLog, unconfirmed, lost, outcome>>
      BY <1>1 DEF WorkerPerform, qdVars, logVars
    <2>3. x = xact[cur][s] \/ xact[cur][s] \in {"active", "prepared"}
      BY AfterMoves
    <2>4. cur \in Gxid
      BY <2>1 DEF DtmInv, TypeOK
    <2> HIDE DEF x
    <2> QED
      BY <2>1, <2>2, <2>3, <2>4, XactRefines
  <1>4. ASSUME NEW t \in Gxid, RecoverCommitted(t) PROVE [AC!Next]_(AC!vars)
    BY <1>4, NoteRefines DEF RecoverCommitted, qdVars
  <1>2. CASE \/ \E t \in Gxid : AbortInDoubt(t) \/ SkipInProgress(t)
             \/ \E s \in Seg : WorkerError(s)
    BY <1>2, Hidden DEF AbortInDoubt, SkipInProgress, WorkerError, qdVars, logVars
  <1>3. CASE RecoveredCommitted \/ RecoverCommittedFails \/ WorkerDies \/ GatherInDoubt
             \/ GatherOrphans \/ AbortedInDoubt \/ EndGathered
    BY <1>3, Hidden DEF RecoveredCommitted, RecoverCommittedFails, WorkerDies, WorkerRestart,
                        GatherInDoubt, GatherOrphans, AbortedInDoubt, EndGathered, qdVars, logVars
  <1> QED
    BY <1>1, <1>2, <1>3, <1>4 DEF WorkerStep

\* A crash takes no decision back, a promotion those the standby does not have.
LEMMA CoordinatorRefines ==
    ASSUME DtmInv, DtmInv',
           Crash \/ Promote \/ \E t \in Gxid : StandbyReceive(t) \/ CommitPanic(t)
    PROVE  [AC!Next]_(AC!vars)
  <1>f. commitLog \in [Gxid -> {"none", "inserted", "flushed", "synced"}]
    BY DEF DtmInv, TypeOK
  <1>u. unconfirmed \subseteq Gxid /\ \A t \in unconfirmed : commitLog[t] = "flushed"
    BY DEF DtmInv, CoreInv, QDInv, TypeOK
  <1>1. ASSUME NEW t \in Gxid, StandbyReceive(t) PROVE [AC!Next]_(AC!vars)
    <2>1. /\ commitLog'[t] = "synced" /\ unconfirmed' = unconfirmed \ {t}
          /\ \A u \in Gxid \ {t} : commitLog'[u] = commitLog[u]
      BY <1>1, <1>f DEF StandbyReceive
    <2>2. OnStandby' = OnStandby \union {t}
      BY <2>1 DEF OnStandby, Logged
    <2>3. t \in Decided' /\ Decided' = Decided \union {t}
      BY <2>1, <2>2 DEF Decided
    <2> QED
      BY <1>1, <2>2, <2>3, DecideRefines DEF StandbyReceive, qdVars
  <1>2. ASSUME NEW kept, Restart(kept), \A t \in Gxid : commitLog[t] = "synced" => t \in kept
        PROVE  /\ OnStandby' = OnStandby /\ unconfirmed' = unconfirmed \intersect kept
               /\ UNCHANGED <<TwoPhaseSegments, Done, Told>>
    <2>1. \A t \in Gxid : commitLog'[t] = "synced" <=> commitLog[t] = "synced"
      BY <1>2 DEF Restart
    <2> QED
      BY <1>2, <2>1, PartSame, DoneSame, ToldSame DEF Restart, OnStandby, Logged
  <1>3. CASE Crash \/ \E t \in Gxid : CommitPanic(t)
    <2>1. PICK kept : /\ Restart(kept) /\ UNCHANGED lost
                      /\ \A t \in Gxid : commitLog[t] \in {"flushed", "synced"} => t \in kept
      BY <1>3 DEF Crash, CommitPanic, Logged
    <2>2. unconfirmed \intersect kept = unconfirmed
      BY <1>u, <2>1
    <2>3. UNCHANGED <<OnStandby, unconfirmed, TwoPhaseSegments, Done, Told>>
      BY <1>2, <2>1, <2>2
    <2> QED
      BY <2>1, <2>3 DEF Decided, AC!vars
  <1>4. CASE Promote
    <2>1. Restart(OnStandby) /\ lost' = lost \union unconfirmed
      BY <1>4 DEF Promote, OnStandby
    <2>2. \A t \in Gxid : commitLog[t] = "synced" <=> t \in OnStandby
      BY DEF OnStandby, Logged
    <2>3. unconfirmed \intersect OnStandby = {}
      BY <1>u, <2>2
    <2>4. OnStandby' = OnStandby /\ unconfirmed' = {} /\ UNCHANGED <<TwoPhaseSegments, Done, Told>>
      BY <1>2, <2>1, <2>2, <2>3
    <2>5. Decided' = OnStandby /\ unconfirmed = Decided \ OnStandby
      BY <2>3, <2>4 DEF Decided
    <2>6. AC!FailOver
      BY <2>1, <2>4, <2>5 DEF AC!FailOver
    <2> QED
      BY <2>6 DEF AC!Next
  <1> QED
    BY <1>1, <1>3, <1>4

LEMMA NextRefines == RefInv /\ DtmInv' /\ [Next]_vars => [AC!Next]_(AC!vars)
  <1> SUFFICES ASSUME RefInv, DtmInv', [Next]_vars PROVE [AC!Next]_(AC!vars)
    OBVIOUS
  <1>t. DtmInv
    BY DEF RefInv
  <1>1. CASE UNCHANGED vars
    BY <1>1, Hidden DEF vars, qdVars, logVars
  <1>2. CASE Next
    BY <1>2, <1>t, QDRefines, SegRefines, WorkerRefines, CoordinatorRefines DEF Next, Failure
  <1> QED
    BY <1>1, <1>2

LEMMA InitRefines == Init => AC!Init
  <1> SUFFICES ASSUME Init PROVE AC!Init
    OBVIOUS
  <1>1. \A t \in Gxid : OnePhase(t)
    BY DEF Init, OnePhase
  <1>2. TwoPhaseSegments = [t \in Gxid |-> {}] /\ Told = [t \in Gxid |-> "none"]
    BY <1>1, SMT DEF TwoPhaseSegments, Told
  <1>3. Decided = {} /\ OnStandby = {} /\ lost = {}
    BY DEF Decided, OnStandby, Logged, Init
  <1>4. Done = [t \in Gxid |-> [s \in Seg |-> "no"]]
    BY <1>2, SMT DEF Done
  <1> QED
    BY <1>2, <1>3, <1>4 DEF AC!Init

(* The whole of distributed commit, with every failure of the model and any
   number of transactions and segments, implements atomic commit:
   CommitTransaction() and the recovery worker let a segment commit only what is
   decided and abort only what is not, no crash takes a decision back, a
   promotion only one whose record the standby lacked, and the client is told
   accordingly. *)
THEOREM Refinement == Spec => ImplementsAtomicCommit
  <1>1. Init => RefInv
    BY InitInv, ToldAtEndInit DEF RefInv
  <1>2. RefInv /\ [Next]_vars => RefInv'
    BY NextInv, ToldAtEndNext DEF RefInv
  <1>3. RefInv /\ RefInv' /\ [Next]_vars => [AC!Next]_(AC!vars)
    BY NextRefines DEF RefInv
  <1> QED
    BY <1>1, <1>2, <1>3, InitRefines, PTL DEF Spec, ImplementsAtomicCommit, AC!Spec

=============================================================================
