---------------------------- MODULE DistSnapshot ----------------------------
(***************************************************************************)
(* Distributed snapshots.  The QD draws up a snapshot of the distributed   *)
(* transactions in progress from its proc array; a segment receives it     *)
(* later, takes a local snapshot beside it, and decides with both which    *)
(* local transactions a query sees.  A commit reaches the segments one by  *)
(* one, so between the first of them and ProcArrayEndGxact() on the QD the *)
(* two snapshots disagree.  A segment finds the distributed xid of a local *)
(* one in its distributed log, which it forgets, with the dead rows, below *)
(* a horizon that it advances from the snapshots it is sent.               *)
(***************************************************************************)
EXTENDS Integers, Sequences, FiniteSets

CONSTANTS
    Txn,            \* distributed transactions, each with a backend on the QD
    Segment,        \* segments, each with a QE of every transaction
    MaxSnapshots    \* bound: snapshots one transaction takes

ASSUME MaxSnapshotsAssumption == MaxSnapshots \in Nat
ASSUME TxnAssumption == IsFiniteSet(Txn)   \* the proc array is bounded

VARIABLES
    phase,                \* where each transaction is on the QD
    nextGxid,             \* ShmemVariableCache->nextGxid
    gxid,                 \* TMGXACT.gxid of each backend, or 0
    xminDS,               \* TMGXACT.xminDistributedSnapshot, or 0
    latestCompletedGxid,
    creating,             \* the snapshot being created under ProcArrayLock, if any
    snaps,                \* distributed snapshots of each transaction
    xid,                  \* local xid of each transaction on each segment, or 0
    branch,               \* where each transaction is on each segment
    distributedLog,       \* DistributedLogEntry.distribXid of its local xid, or 0
    latestCompletedXid,   \* of each segment
    oldestXmin,           \* DistributedLogShared->oldestXmin of each segment
    pgxactXmin,           \* PGXACT.xmin of each QE, or 0
    local,                \* local snapshots of each QE, one per distributed snapshot
    ignore                \* transactions with rows hinted DISTRIBUTED_SNAPSHOT_IGNORE

qdVars == <<phase, nextGxid, gxid, xminDS, latestCompletedGxid, creating, snaps>>
segVars == <<xid, branch, distributedLog, latestCompletedXid, oldestXmin, pgxactXmin, local,
             ignore>>
vars == <<qdVars, segVars>>

\* "commit" and "abort" while the protocol of Dtm runs, then the outcome.
Phase == {"active", "commit", "abort", "committed", "aborted"}
\* "prepared" covers the time before, too: the xid is in the proc array.
Branch == {"none", "prepared", "logged", "clog", "committed", "aborted"}
Gxid == 1 .. Cardinality(Txn)
Xid == 1 .. Cardinality(Txn)

None == [at |-> "none"]

Min(S) == CHOOSE x \in S : \A y \in S : x <= y
Larger(x, y) == IF x < y THEN y ELSE x

\* Local xids in the proc array of s: running transactions and the dummy
\* entries of prepared ones.
Running(s) == {xid[s][t] : t \in {u \in Txn : branch[s][u] \in {"prepared", "logged", "clog"}}}

NextXid(s) == Cardinality({t \in Txn : xid[s][t] # 0}) + 1

Init ==
    /\ phase = [t \in Txn |-> "active"]
    /\ nextGxid = 1
    /\ gxid = [t \in Txn |-> 0]
    /\ xminDS = [t \in Txn |-> 0]
    /\ latestCompletedGxid = 0
    /\ creating = [t \in Txn |-> None]
    /\ snaps = [t \in Txn |-> <<>>]
    /\ xid = [s \in Segment |-> [t \in Txn |-> 0]]
    /\ branch = [s \in Segment |-> [t \in Txn |-> "none"]]
    /\ distributedLog = [s \in Segment |-> [t \in Txn |-> 0]]
    /\ latestCompletedXid = [s \in Segment |-> 0]
    /\ oldestXmin = [s \in Segment |-> 1]
    /\ pgxactXmin = [s \in Segment |-> [t \in Txn |-> 0]]
    /\ local = [s \in Segment |-> [t \in Txn |-> <<>>]]
    /\ ignore = [s \in Segment |-> {}]

-----------------------------------------------------------------------------
(* The QD *)

\* currentDtxActivate(): the number is taken and advertised under
\* shmGxidGenLock, which does not keep snapshots out.
Activate(t) ==
    /\ phase[t] = "active"
    /\ creating[t] = None
    /\ gxid[t] = 0
    /\ gxid' = [gxid EXCEPT ![t] = nextGxid]
    /\ nextGxid' = nextGxid + 1
    /\ UNCHANGED <<phase, xminDS, latestCompletedGxid, creating, snaps, segVars>>

\* What CreateDistributedSnapshot() computes in its scan of the proc array.
\* "seen" is a history: the transactions that are over and have committed.
Scan(t) ==
    LET xmax == latestCompletedGxid + 1
        running == {gxid[u] : u \in {v \in Txn : gxid[v] \in 1 .. latestCompletedGxid}}
        xmin == Min(running \union {xmax})
        published == {xminDS[u] : u \in Txn} \ {0}
    IN [at |-> "scanned",
        xmin |-> xmin,
        xmax |-> xmax,
        xminAll |-> Min(published \union {xmin}),
        inProgress |-> running \ {gxid[t]},
        seen |-> {u \in Txn : phase[u] = "committed"}]

\* GetSnapshotData() on the QD, under ProcArrayLock in shared mode.  Several
\* backends may be between the scan and the publication of their xmin.
SnapshotScan(t) ==
    /\ phase[t] = "active"
    /\ creating[t] = None
    /\ Len(snaps[t]) < MaxSnapshots
    /\ creating' = [creating EXCEPT ![t] = Scan(t)]
    /\ UNCHANGED <<phase, nextGxid, gxid, xminDS, latestCompletedGxid, snaps, segVars>>

\* The end of CreateDistributedSnapshot(): a transaction advertises the xmin
\* of its first snapshot and keeps it while it lives.
SnapshotPublish(t) ==
    /\ creating[t] # None
    /\ xminDS' = [xminDS EXCEPT ![t] = IF @ = 0 THEN creating[t].xmin ELSE @]
    /\ snaps' = [snaps EXCEPT ![t] = Append(@, creating[t])]
    /\ creating' = [creating EXCEPT ![t] = None]
    /\ UNCHANGED <<phase, nextGxid, gxid, latestCompletedGxid, segVars>>

\* The QEs leave their transaction, and with it its snapshots.
DropSnapshots(t) ==
    /\ snaps' = [snaps EXCEPT ![t] = <<>>]
    /\ local' = [s \in Segment |-> [local[s] EXCEPT ![t] = <<>>]]
    /\ pgxactXmin' = [s \in Segment |-> [pgxactXmin[s] EXCEPT ![t] = 0]]
    /\ UNCHANGED <<nextGxid, creating, xid, branch, distributedLog, latestCompletedXid,
                   oldestXmin, ignore>>

\* All segments are prepared and the distributed commit record is written, or
\* the one-phase commit is sent; or the transaction gives up.
Decide(t) ==
    /\ phase[t] = "active"
    /\ creating[t] = None
    /\ gxid[t] # 0
    /\ \E p \in {"commit", "abort"} : phase' = [phase EXCEPT ![t] = p]
    /\ DropSnapshots(t)
    /\ UNCHANGED <<gxid, xminDS, latestCompletedGxid>>

\* No backend holds ProcArrayLock in shared mode for a distributed snapshot.
ProcArrayLockFree == \A u \in Txn : creating[u] = None

ResetTmGxact(t, outcome) ==
    /\ phase' = [phase EXCEPT ![t] = outcome]
    /\ gxid' = [gxid EXCEPT ![t] = 0]
    /\ xminDS' = [xminDS EXCEPT ![t] = 0]

\* Every segment that takes part has answered.
Answered(t) ==
    \/ phase[t] = "commit" /\ \A s \in Segment : branch[s][t] \in {"none", "committed"}
    \/ phase[t] = "abort" /\ \A s \in Segment : branch[s][t] \in {"none", "aborted"}

Outcome(t) == IF phase[t] = "commit" THEN "committed" ELSE "aborted"

EndGxactUnlocked(t) ==
    /\ Answered(t)
    /\ latestCompletedGxid' = Larger(latestCompletedGxid, gxid[t])
    /\ ResetTmGxact(t, Outcome(t))
    /\ UNCHANGED <<nextGxid, creating, snaps, segVars>>

\* ProcArrayEndGxact() in ProcArrayEndTransaction(): ProcArrayLock is held
\* exclusively.
EndGxact(t) ==
    /\ ProcArrayLockFree
    /\ Answered(t)
    /\ latestCompletedGxid' = Larger(latestCompletedGxid, gxid[t])
    /\ ResetTmGxact(t, Outcome(t))
    /\ UNCHANGED <<nextGxid, creating, snaps, segVars>>

\* A transaction that never got a gxid takes no lock.
EndReadOnly(t) ==
    /\ phase[t] = "active"
    /\ creating[t] = None
    /\ gxid[t] = 0
    /\ ResetTmGxact(t, "committed")
    /\ DropSnapshots(t)
    /\ UNCHANGED latestCompletedGxid

-----------------------------------------------------------------------------
(* A segment: commit *)

\* The first write of a transaction on a segment assigns its local xid.
AssignXid(t, s) ==
    /\ phase[t] = "active"
    /\ creating[t] = None
    /\ gxid[t] # 0
    /\ xid[s][t] = 0
    /\ xid' = [xid EXCEPT ![s][t] = NextXid(s)]
    /\ branch' = [branch EXCEPT ![s][t] = "prepared"]
    /\ UNCHANGED <<qdVars, distributedLog, latestCompletedXid, oldestXmin, pgxactXmin, local,
                   ignore>>

SetDistributedLogAtPrepare(t, s) ==
    /\ branch[s][t] = "prepared"
    /\ distributedLog' = [distributedLog EXCEPT ![s][t] = gxid[t]]
    /\ UNCHANGED <<qdVars, xid, branch, latestCompletedXid, oldestXmin, pgxactXmin, local,
                   ignore>>

\* The steps of RecordTransactionCommitPrepared(), in their order, and of
\* RecordTransactionCommit() after a one-phase commit.
SetDistributedLog(t, s) ==
    /\ phase[t] = "commit"
    /\ branch[s][t] = "prepared"
    /\ distributedLog' = [distributedLog EXCEPT ![s][t] = gxid[t]]
    /\ branch' = [branch EXCEPT ![s][t] = "logged"]
    /\ UNCHANGED <<qdVars, xid, latestCompletedXid, oldestXmin, pgxactXmin, local, ignore>>

SetClog(t, s) ==
    /\ branch[s][t] = "logged"
    /\ branch' = [branch EXCEPT ![s][t] = "clog"]
    /\ UNCHANGED <<qdVars, xid, distributedLog, latestCompletedXid, oldestXmin, pgxactXmin,
                   local, ignore>>

\* The xid leaves the proc array of the segment.
LeaveProcArray(t, s, outcome) ==
    /\ branch' = [branch EXCEPT ![s][t] = outcome]
    /\ latestCompletedXid' = [latestCompletedXid EXCEPT ![s] = Larger(@, xid[s][t])]
    /\ UNCHANGED <<qdVars, xid, distributedLog, oldestXmin, pgxactXmin, local, ignore>>

RemoveCommitted(t, s) ==
    /\ branch[s][t] = "clog"
    /\ LeaveProcArray(t, s, "committed")

RemoveAborted(t, s) ==
    /\ phase[t] = "abort"
    /\ branch[s][t] = "prepared"
    /\ LeaveProcArray(t, s, "aborted")

-----------------------------------------------------------------------------
(* A segment: the snapshot of a QE *)

\* What GetSnapshotData() computes on a QE, under the segment's ProcArrayLock.
LocalScan(t, s) ==
    LET xmax == latestCompletedXid[s] + 1
        running == Running(s) \intersect 1 .. latestCompletedXid[s]
        xmin == Min(running \union {xmax})
        advertised == {pgxactXmin[s][u] : u \in Txn} \ {0}
    IN [at |-> "taken",
        xmin |-> xmin,
        xmax |-> xmax,
        xip |-> running \ {xid[s][t]},
        globalxmin |-> Min(advertised \union {xmin})]

TakeLocalSnapshotUnadvertised(t, s) ==
    /\ phase[t] = "active"
    /\ Len(local[s][t]) < Len(snaps[t])
    /\ local' = [local EXCEPT ![s][t] = Append(@, LocalScan(t, s))]
    /\ UNCHANGED <<qdVars, xid, branch, distributedLog, latestCompletedXid, oldestXmin,
                   pgxactXmin, ignore>>

\* The QE of t starts a statement with the next distributed snapshot it was
\* sent.
TakeLocalSnapshot(t, s) ==
    /\ phase[t] = "active"
    /\ Len(local[s][t]) < Len(snaps[t])
    /\ local' = [local EXCEPT ![s][t] = Append(@, LocalScan(t, s))]
    /\ pgxactXmin' = [pgxactXmin EXCEPT ![s][t] = IF @ = 0 THEN LocalScan(t, s).xmin ELSE @]
    /\ UNCHANGED <<qdVars, xid, branch, distributedLog, latestCompletedXid, oldestXmin, ignore>>

\* The entry the distributed log has for local xid x: zero for an xid that
\* has not committed.
LogEntry(s, x) == LET owner == {t \in Txn : xid[s][t] = x}
                  IN IF owner = {} THEN 0 ELSE distributedLog[s][CHOOSE t \in owner : TRUE]

AdvancedXminToGlobal(s, globalxmin, xminAll) == Larger(globalxmin, oldestXmin[s])

\* The loop of DistributedLog_AdvanceOldestXmin(): the first xid that the
\* distributed snapshots may still need, at most globalxmin.
AdvancedXmin(s, globalxmin, xminAll) ==
    Min({x \in oldestXmin[s] .. Larger(globalxmin, oldestXmin[s]) :
            x >= globalxmin \/ LogEntry(s, x) >= xminAll})

\* GetSnapshotData(), after it has released ProcArrayLock.  globalxmin may be
\* stale by now, and the horizon beyond it.
AdvanceOldestXmin(t, s) ==
    \E i \in 1 .. Len(local[s][t]) :
        /\ local[s][t][i].at = "taken"
        /\ oldestXmin' = [oldestXmin EXCEPT
              ![s] = AdvancedXmin(s, local[s][t][i].globalxmin, snaps[t][i].xminAll)]
        /\ local' = [local EXCEPT ![s][t][i].at = "ready"]
        /\ UNCHANGED <<qdVars, xid, branch, distributedLog, latestCompletedXid, pgxactXmin,
                       ignore>>

-----------------------------------------------------------------------------
(* A segment: visibility of the rows of transaction u to snapshot i of t *)

\* DistributedLog_CommittedCheck(), or a hit in the backend's own cache of
\* what this call returned before.
FindsDistribXid(s, u, hit) ==
    distributedLog[s][u] # 0 /\ (hit \/ xid[s][u] >= oldestXmin[s])

\* DistributedSnapshotWithLocalMapping_CommittedTest()
CommittedTest(s, ds, u, hit) ==
    LET g == distributedLog[s][u]
    IN IF ~FindsDistribXid(s, u, hit) THEN "UNKNOWN"
       ELSE IF g < ds.xminAll THEN "IGNORE"
       ELSE IF g < ds.xmin THEN "VISIBLE"
       ELSE IF g >= ds.xmax \/ g \in ds.inProgress THEN "INPROGRESS"
       ELSE "VISIBLE"

XidInMVCCSnapshot_Local(s, l, u) ==
    xid[s][u] >= l.xmin /\ (xid[s][u] >= l.xmax \/ xid[s][u] \in l.xip)

\* XidInMVCCSnapshot(); "hinted" is its argument distributedSnapshotIgnore.
XidInMVCCSnapshot(s, ds, l, u, hinted, hit) ==
    LET test == CommittedTest(s, ds, u, hit)
    IN IF ~hinted /\ (xid[s][u] >= l.xmax \/ test = "INPROGRESS") THEN "IN"
       ELSE IF ~hinted /\ test = "VISIBLE" THEN "SURELY_COMMITTED"
       ELSE IF XidInMVCCSnapshot_Local(s, l, u) THEN "IN"
       ELSE "NOT_IN"

\* HeapTupleSatisfiesMVCC() for a row of u that nobody has deleted.
Visible(s, t, i, u, hinted, hit) ==
    LET in == XidInMVCCSnapshot(s, snaps[t][i], local[s][t][i], u, hinted, hit)
    IN \/ in = "SURELY_COMMITTED"
       \/ in = "NOT_IN" /\ branch[s][u] \in {"clog", "committed"}

\* The hint is left on the row for all who come later.
SetIgnore(t, s, u) ==
    /\ u \notin ignore[s]
    /\ \E i \in 1 .. Len(local[s][t]), hit \in BOOLEAN :
          /\ local[s][t][i].at = "ready"
          /\ xid[s][u] < local[s][t][i].xmax
          /\ CommittedTest(s, snaps[t][i], u, hit) = "IGNORE"
    /\ ignore' = [ignore EXCEPT ![s] = @ \union {u}]
    /\ UNCHANGED <<qdVars, xid, branch, distributedLog, latestCompletedXid, oldestXmin,
                   pgxactXmin, local>>

-----------------------------------------------------------------------------

Next ==
    \/ \E t \in Txn :
          \/ Activate(t) \/ SnapshotScan(t) \/ SnapshotPublish(t)
          \/ Decide(t) \/ EndGxact(t) \/ EndReadOnly(t)
    \/ \E t \in Txn, s \in Segment :
          \/ AssignXid(t, s)
          \/ SetDistributedLog(t, s) \/ SetClog(t, s)
          \/ RemoveCommitted(t, s) \/ RemoveAborted(t, s)
          \/ TakeLocalSnapshot(t, s) \/ AdvanceOldestXmin(t, s)
    \/ \E t, u \in Txn, s \in Segment : SetIgnore(t, s, u)

Spec == Init /\ [][Next]_vars

-----------------------------------------------------------------------------
(* Properties *)

\* Every variable keeps its type; an entry of the distributed log belongs to a
\* transaction that commits on that segment, and two transactions never share
\* a local xid.
TypeOK ==
    /\ phase \in [Txn -> Phase]
    /\ nextGxid \in 1 .. Cardinality(Txn) + 1
    /\ gxid \in [Txn -> Gxid \union {0}]
    /\ xminDS \in [Txn -> 0 .. Cardinality(Txn) + 1]
    /\ latestCompletedGxid \in 0 .. nextGxid - 1
    /\ xid \in [Segment -> [Txn -> Xid \union {0}]]
    /\ branch \in [Segment -> [Txn -> Branch]]
    /\ distributedLog \in [Segment -> [Txn -> Gxid \union {0}]]
    /\ \A s \in Segment : oldestXmin[s] \in 1 .. latestCompletedXid[s] + 1
    /\ \A s \in Segment, t \in Txn :
          /\ distributedLog[s][t] # 0 => branch[s][t] \in {"logged", "clog", "committed"}
          /\ \A u \in Txn \ {t} : xid[s][t] = xid[s][u] => xid[s][t] = 0

\* A query sees, on every segment, the rows of exactly those transactions that
\* were over on the QD when its distributed snapshot was taken.  It does not
\* matter how far Commit Prepared has got on each segment, when the segment
\* took its local snapshot, how far the horizon of the distributed log has
\* moved, what hint bits others left, or whether a cached distributed xid is
\* used: XidInMVCCSnapshot() gives the same answer.
ConsistentSnapshot ==
    \A s \in Segment, t \in Txn : \A i \in 1 .. Len(local[s][t]) :
        local[s][t][i].at = "ready" =>
            \A u \in Txn \ {t} : xid[s][u] # 0 =>
                \A hinted, hit \in BOOLEAN : (hinted => u \in ignore[s]) =>
                    (Visible(s, t, i, u, hinted, hit) <=> u \in snaps[t][i].seen)

\* A committed transaction falls below a segment's horizon (where vacuum
\* removes what it deleted, and the distributed log forgets its gxid) only
\* when every distributed snapshot there is sees it, those included that have
\* not reached the segment yet.
HorizonBelowSnapshots ==
    \A s \in Segment, u \in Txn :
        (distributedLog[s][u] # 0 /\ xid[s][u] < oldestXmin[s]) =>
            \A t \in Txn \ {u} :
                /\ \A i \in 1 .. Len(snaps[t]) : u \in snaps[t][i].seen
                /\ creating[t] # None => u \in creating[t].seen

\* Another QE may advance the horizon between the local scan and
\* DistributedLog_AdvanceOldestXmin(), which then returns more than the
\* globalxmin it was given; it never returns more than the snapshot's xmin,
\* on which GetSnapshotData() would fail with "global xmin is higher than
\* transaction xmin".
GlobalXminInSnapshot ==
    \A s \in Segment, t \in Txn : \A i \in 1 .. Len(local[s][t]) :
        local[s][t][i].at = "taken" =>
            AdvancedXmin(s, local[s][t][i].globalxmin, snaps[t][i].xminAll) <= local[s][t][i].xmin

=============================================================================
