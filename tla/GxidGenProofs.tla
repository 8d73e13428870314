--------------------------- MODULE GxidGenProofs ---------------------------
(***************************************************************************)
(* Proof, for every number of backends and every batch size, that gxids    *)
(* are handed out once, but for those that a promoted standby had not      *)
(* confirmed.                                                              *)
(***************************************************************************)
EXTENDS GxidGen, TLAPS

\* The gxids handed out that no promotion has lost, and those in the batch.
Kept == assigned \ lost
Batch == nextGxid .. BatchEnd - 1

\* A value of nextGxid that redo may resume from: no gxid at or above it has
\* been handed out, and none can be before the batch is enlarged.
SafeStart(v) ==
    /\ \A g \in Kept : g < v
    /\ GxidCount > 0 => v >= BatchEnd

\* One that a promoted standby may resume from: a gxid at or above it that has
\* been or can be handed out is one the standby was not waited for.
Covered(v) == \A g \in Kept \union Batch : g < v \/ g \in unwaited

\* What the standby holds after n records.
ReplayedGxid(n) == IF n >= 1 THEN wal[n] ELSE FirstGxid

\* The lock protects bumpGxid()'s section from the limit to the enlargement.
Bumping == {"insert", "flush", "sync", "count"}
BumpMutex ==
    /\ \A p \in Proc : pc[p] \in Bumping => bumpLock = p
    /\ bumpLock # NoProc => pc[bumpLock] \in Bumping

\* What the lock holder has achieved so far.
BumpProgress ==
    bumpLock # NoProc =>
        /\ nextLimit = BatchEnd + Prefetch
        /\ pc[bumpLock] # "insert" =>
              /\ Len(wal) > 0 /\ wal[Len(wal)] = nextLimit
              /\ control.redo <= Len(wal)
              /\ ckpt.at = "gxid" => ckpt.redo <= Len(wal)
        /\ pc[bumpLock] \in {"sync", "count"} => flushed = Len(wal)
        /\ pc[bumpLock] = "count" => synced = Len(wal) \/ NewBatch \subseteq unwaited

\* Every WAL cut that a crash may leave is a safe start, and every one that
\* the standby may have is covered.
WalSafe == \A n \in flushed .. Len(wal) : SafeStart(ReplayedGxid(n))
StandbySafe == \A n \in synced .. Len(wal) : Covered(ReplayedGxid(n))

\* When no record follows the redo pointer, the checkpoint's own value is one.
ControlSafe ==
    /\ control.redo <= flushed + 1
    /\ flushed < control.redo => SafeStart(control.gxid)
CkptSafe ==
    /\ ckpt.at # "none" => ckpt.redo <= Len(wal) + 1
    /\ ckpt.at = "gxid" /\ ckpt.redo = Len(wal) + 1 => SafeStart(ckpt.gxid)

AssignedBelow == \A g \in Kept : g < nextGxid

\* The inductive invariant.
GxidInv ==
    /\ TypeOK
    /\ BumpMutex
    /\ BumpProgress
    /\ WalSafe
    /\ StandbySafe
    /\ ControlSafe
    /\ CkptSafe
    /\ AssignedBelow

\* During redo no process and no checkpoint is left from before the crash.
RedoQuiet ==
    mode = "redo" =>
        /\ bumpLock = NoProc /\ ckpt.at = "none"
        /\ \A p \in Proc : pc[p] \notin Bumping

-----------------------------------------------------------------------------

(* Leaves with arithmetic or sequences cite SMT; the others are Zenon's.       *)
USE Zenon

USE BackendAssumption, PrefetchAssumption, GxidAssumption, ShutdownAssumption

\* The initial state of bootstrap satisfies the invariant.
LEMMA InitInv == Init => GxidInv
  <1> SUFFICES ASSUME Init PROVE GxidInv
    OBVIOUS
  <1>0. /\ wal = <<>> /\ flushed = 0 /\ synced = 0 /\ GxidCount = 0
        /\ assigned = {} /\ lost = {} /\ unwaited = {}
        /\ control = [redo |-> 1, gxid |-> FirstGxid] /\ ckpt = NoCkpt
        /\ bumpLock = NoProc /\ nextGxid = FirstGxid
        /\ pc = [p \in Proc |-> IF p = DtxRecovery THEN "start" ELSE "idle"]
    BY DEF Init
  <1>1. TypeOK
    <2>1. pc \in [Proc -> BackendPC \union RecoveryPC]
      BY <1>0 DEF BackendPC, RecoveryPC
    <2>2. wal \in Seq(Nat \ {0}) /\ flushed \in 0 .. Len(wal) /\ synced \in 0 .. flushed
      BY <1>0, SMT
    <2>3. /\ control \in [redo : Nat \ {0}, gxid : Nat \ {0}]
          /\ ckpt \in [at : {"none", "redo", "gxid"}, redo : Nat \ {0}, gxid : Nat \ {0}]
      BY <1>0, SMT DEF NoCkpt
    <2>4. bumpEvent \in BOOLEAN
      BY DEF Init
    <2>5. /\ mode \in {"up", "redo"} /\ nextLimit \in Nat /\ shutdowns \in Nat
          /\ gxid \in [Backend -> Nat]
      BY DEF Init, InvalidGxid
    <2> QED BY <1>0, <2>1, <2>2, <2>3, <2>4, <2>5 DEF TypeOK
  <1>2. BumpMutex /\ BumpProgress
    BY <1>0 DEF BumpMutex, BumpProgress, Bumping, Proc, NoProc
  <1>3. WalSafe
    BY <1>0, SMT DEF WalSafe, SafeStart, Kept
  <1>4. ControlSafe /\ CkptSafe
    BY <1>0, SMT DEF ControlSafe, CkptSafe, SafeStart, Kept, NoCkpt
  <1>5. Kept = {} /\ Batch = {}
    BY <1>0, SMT DEF Kept, Batch, BatchEnd
  <1>6. StandbySafe
    BY <1>5 DEF StandbySafe, Covered
  <1> QED BY <1>0, <1>1, <1>2, <1>3, <1>4, <1>5, <1>6 DEF GxidInv, AssignedBelow

\* The lengths of WAL as numbers.
LEMMA Lengths ==
  ASSUME TypeOK
  PROVE  /\ Len(wal) \in Nat /\ flushed \in Nat /\ synced \in Nat
         /\ synced <= flushed /\ flushed <= Len(wal)
         /\ control.redo \in Nat /\ ckpt.redo \in Nat
  BY SMTT(30) DEF TypeOK

\* Redo after any crash starts above every gxid handed out.
LEMMA RedoSafe ==
  ASSUME GxidInv
  PROVE  /\ \A n \in flushed .. Len(wal) : RedoGxid(n) \in Nat \ {0} /\ SafeStart(RedoGxid(n))
         /\ Covered(PromotedGxid)
  <1>1. Covered(PromotedGxid)
    <2>1. synced \in synced .. Len(wal)
      BY SMT DEF GxidInv, TypeOK
    <2>2. PromotedGxid = ReplayedGxid(synced)
      BY DEF PromotedGxid, ReplayedGxid
    <2> QED BY <2>1, <2>2 DEF GxidInv, StandbySafe
  <1>2. ASSUME NEW n \in flushed .. Len(wal)
        PROVE  RedoGxid(n) \in Nat \ {0} /\ SafeStart(RedoGxid(n))
    <2>1. CASE n >= control.redo
      <3>1. n >= 1 /\ n \in Nat
        BY <2>1, SMT DEF GxidInv, TypeOK
      <3>2. RedoGxid(n) = ReplayedGxid(n) /\ RedoGxid(n) = wal[n]
        BY <2>1, <3>1 DEF RedoGxid, ReplayedGxid
      <3>3. wal[n] \in Nat \ {0}
        BY <3>1, SMT DEF GxidInv, TypeOK
      <3> QED BY <3>1, <3>2, <3>3 DEF GxidInv, WalSafe
    <2>2. CASE n < control.redo
      BY <2>2, SMT DEF GxidInv, TypeOK, ControlSafe, RedoGxid
    <2> QED BY <2>1, <2>2, SMT DEF GxidInv, TypeOK
  <1> QED BY <1>1, <1>2

\* Every step but a crash or a promotion leaves the coordinator up.
LEMMA RedoQuietStep == RedoQuiet /\ [Next]_vars => RedoQuiet'
  <1> SUFFICES ASSUME RedoQuiet, [Next]_vars PROVE RedoQuiet'
    OBVIOUS
  <1>1. CASE CrashedProcesses
    BY <1>1 DEF CrashedProcesses, RedoQuiet, NoCkpt, Bumping
  <1>2. CASE UNCHANGED vars
    BY <1>2 DEF vars, RedoQuiet
  <1>3. CASE mode' = "up"
    BY <1>3 DEF RedoQuiet
  <1> QED
    BY <1>1, <1>2, <1>3 DEF Next, ActivateStart, ActivateAlloc, ActivateBump, FinishGxact,
       RecoveryBump, RecoveryResetEvent, BumpWait, BumpWaited, BumpNotNeeded, BumpLimit,
       BumpInsert, BumpFlush, BumpSynced, BumpUnsynced, BumpCount, BumpPanic, StandbyReceive, CkptRedo,
       CkptGxid, CkptWrite, Crash, CrashTo, StartupXLOG, Shutdown, Promote

\* The steps that leave the batch, WAL and the checkpoints alone and move a
\* process outside bumpGxid()'s locked section.
QuietVars == <<nextGxid, GxidCount, bumpLock, nextLimit, wal, flushed, synced, control,
               ckpt, assigned, unwaited, lost>>
StandbyVars == <<nextGxid, GxidCount, wal, synced, assigned, unwaited, lost>>

\* A step that leaves the batch, WAL and what the standby has of it alone leaves
\* the standby's part of the invariant.
LEMMA StandbyQuiet ==
  ASSUME StandbySafe, UNCHANGED StandbyVars
  PROVE  StandbySafe'
  BY DEF StandbySafe, StandbyVars, Covered, Kept, Batch, BatchEnd, ReplayedGxid

\* Such a step preserves the invariant.
LEMMA QuietStep ==
  ASSUME GxidInv, TypeOK', UNCHANGED QuietVars,
         NEW p \in Proc, NEW l, l \notin Bumping, pc[p] \notin Bumping,
         pc' = [pc EXCEPT ![p] = l]
  PROVE  GxidInv'
  <1>1. StandbySafe'
    BY StandbyQuiet DEF GxidInv, QuietVars, StandbyVars
  <1>2. BumpMutex' /\ BumpProgress'
    BY DEF QuietVars, GxidInv, TypeOK, BumpMutex, BumpProgress, NewBatch, BatchEnd, Bumping, Proc
  <1>3. WalSafe' /\ ControlSafe' /\ CkptSafe' /\ AssignedBelow'
    BY DEF QuietVars, GxidInv, WalSafe, ControlSafe, CkptSafe, SafeStart, Kept, ReplayedGxid,
           BatchEnd, AssignedBelow
  <1> QED BY <1>1, <1>2, <1>3 DEF GxidInv

\* A crash that leaves n records of WAL, or a promotion that leaves the
\* standby's: all processes are gone, and what is left is a safe start.
LEMMA CrashStep ==
  ASSUME GxidInv, TypeOK', CrashedProcesses, UNCHANGED <<nextGxid, synced, assigned, unwaited>>,
         NEW n \in synced .. Len(wal), wal' = SubSeq(wal, 1, n), flushed' = n,
         lost \subseteq lost', SafeStart(ReplayedGxid(n))', ControlSafe'
  PROVE  GxidInv'
  <1>0. n \in 0 .. Len(wal) /\ wal \in Seq(Nat \ {0}) /\ synced \in Nat /\ n \in Nat
    BY SMT DEF GxidInv, TypeOK
  <1>1. Len(wal') = n /\ \A i \in 1 .. n : wal'[i] = wal[i]
    BY <1>0, SMT
  <1>2. BumpMutex' /\ BumpProgress'
    BY DEF CrashedProcesses, BumpMutex, BumpProgress, Bumping, Proc, NoProc
  <1>3. WalSafe'
    BY <1>0, <1>1, SMT DEF WalSafe
  <1>4. CkptSafe'
    BY DEF CrashedProcesses, CkptSafe, NoCkpt
  <1>5. Kept' \subseteq Kept /\ Batch' = {}
    <2>1. Kept' \subseteq Kept
      BY DEF Kept
    <2>2. Batch' = {}
      BY SMT DEF CrashedProcesses, Batch, BatchEnd, GxidInv, TypeOK
    <2> QED BY <2>1, <2>2
  <1>6. StandbySafe'
    <2> SUFFICES ASSUME NEW i \in synced .. n PROVE Covered(ReplayedGxid(i))'
      BY <1>1 DEF StandbySafe
    <2>1. i \in synced .. Len(wal) /\ i \in 0 .. n
      BY <1>0, SMT
    <2>2. ReplayedGxid(i)' = ReplayedGxid(i)
      BY <1>1, <2>1, SMT DEF ReplayedGxid
    <2>3. Covered(ReplayedGxid(i))
      BY <2>1 DEF GxidInv, StandbySafe
    <2> QED BY <1>5, <2>2, <2>3 DEF Covered
  <1>7. AssignedBelow'
    BY <1>5 DEF GxidInv, AssignedBelow
  <1> QED BY <1>2, <1>3, <1>4, <1>6, <1>7 DEF GxidInv

\* While a bump is under way its limit is above all gxids handed out or in hand.
LEMMA BelowLimit ==
  ASSUME GxidInv, bumpLock # NoProc
  PROVE  \A g \in Kept \union Batch : g < nextLimit
  <1>1. nextGxid \in Nat /\ GxidCount \in Nat /\ nextLimit = BatchEnd + Prefetch
    BY DEF GxidInv, TypeOK, BumpProgress
  <1>2. \A g \in Kept : g \in Nat /\ g < nextGxid
    BY DEF GxidInv, TypeOK, AssignedBelow, Kept
  <1> QED BY <1>1, <1>2, SMT DEF Batch, BatchEnd

\* With no gxid left the batch is empty.
LEMMA EmptyBatch ==
  ASSUME GxidCount' = 0, nextGxid' \in Nat
  PROVE  Batch' = {}
  <1>1. ASSUME NEW k \in Nat PROVE k .. (k + 0) - 1 = {}
    BY SMT
  <1>2. Batch' = nextGxid' .. (nextGxid' + 0) - 1
    BY DEF Batch, BatchEnd
  <1> QED BY <1>1, <1>2

\* A shutdown checkpoint with a safe value g, after which the batch is empty.
LEMMA LoggedSafe ==
  ASSUME GxidInv, NEW g \in Nat \ {0}, SafeStart(g)', wal' = LogGxid(wal, g), flushed' = Len(wal'),
         UNCHANGED <<synced, assigned, unwaited, lost>>, GxidCount' = 0, nextGxid' \in Nat,
         control' = [redo |-> Len(wal') + 1, gxid |-> g]
  PROVE  WalSafe' /\ StandbySafe' /\ ControlSafe'
  <1>0. wal \in Seq(Nat \ {0}) /\ Len(wal) \in Nat /\ synced \in Nat /\ synced <= Len(wal)
    BY SMT DEF GxidInv, TypeOK
  <1>1. /\ Len(wal') \in Nat /\ Len(wal') >= 1 /\ wal'[Len(wal')] = g
        /\ Len(wal') \in {Len(wal), Len(wal) + 1}
        /\ \A i \in 1 .. Len(wal) : wal'[i] = wal[i]
    <2>1. CASE wal' = wal /\ wal # <<>> /\ wal[Len(wal)] = g
      BY <1>0, <2>1, SMT
    <2>2. CASE wal' = Append(wal, g)
      BY <1>0, <2>2, SMT
    <2> QED BY <2>1, <2>2 DEF LogGxid
  <1>2. WalSafe'
    <2> SUFFICES ASSUME NEW n \in Len(wal') .. Len(wal') PROVE SafeStart(ReplayedGxid(n))'
      BY DEF WalSafe
    <2>1. n = Len(wal') /\ n >= 1
      BY <1>1, SMT
    <2>2. ReplayedGxid(n)' = g
      BY <1>1, <2>1 DEF ReplayedGxid
    <2> QED BY <2>2 DEF SafeStart
  <1>3. Kept' = Kept /\ Batch' = {}
    <2>1. Batch' = {}
      BY EmptyBatch
    <2> QED BY <2>1 DEF Kept
  <1>4. StandbySafe'
    <2> SUFFICES ASSUME NEW n \in synced .. Len(wal') PROVE Covered(ReplayedGxid(n))'
      BY DEF StandbySafe
    <2>0. n \in Nat
      BY <1>0, <1>1, SMT
    <2>1. CASE n <= Len(wal)
      <3>1. n \in synced .. Len(wal) /\ (n >= 1 => n \in 1 .. Len(wal))
        BY <1>0, <1>1, <2>0, <2>1, SMT
      <3>2. ReplayedGxid(n)' = ReplayedGxid(n)
        BY <1>1, <3>1 DEF ReplayedGxid
      <3>3. Covered(ReplayedGxid(n))
        BY <3>1 DEF GxidInv, StandbySafe
      <3> QED BY <1>3, <3>2, <3>3 DEF Covered
    <2>2. CASE n = Len(wal')
      <3>1. ReplayedGxid(n)' = g
        BY <1>1, <2>2 DEF ReplayedGxid
      <3> QED BY <1>3, <3>1 DEF SafeStart, Covered
    <2> QED BY <1>0, <1>1, <2>0, <2>1, <2>2, SMT
  <1>5. ControlSafe'
    <2>1. control'.redo = Len(wal') + 1 /\ control'.gxid = g
      OBVIOUS
    <2>2. Len(wal') + 1 <= Len(wal') + 1
      BY <1>1, SMT
    <2> QED BY <2>1, <2>2 DEF ControlSafe, SafeStart
  <1> QED BY <1>2, <1>4, <1>5

\* Types, one action at a time.
LEMMA NextType ==
  ASSUME GxidInv, [Next]_vars
  PROVE  TypeOK'
  <1> USE DEF GxidInv
  <1>1. ASSUME NEW b \in Backend, ActivateStart(b) PROVE TypeOK'
    BY <1>1 DEF ActivateStart, TypeOK, BackendPC, RecoveryPC, BumpPC, AfterBump, Proc, walVars, history, BatchEnd, NoCkpt, NoProc, InvalidGxid
  <1>2. ASSUME NEW b \in Backend, ActivateAlloc(b) PROVE TypeOK'
    BY <1>2, SMT DEF ActivateAlloc, TypeOK, BackendPC, RecoveryPC, BumpPC, AfterBump, Proc, walVars, history, BatchEnd, NoCkpt, NoProc, InvalidGxid
  <1>3. ASSUME NEW b \in Backend, ActivateBump(b) PROVE TypeOK'
    BY <1>3 DEF ActivateBump, TypeOK, BackendPC, RecoveryPC, BumpPC, AfterBump, Proc, walVars, history, BatchEnd, NoCkpt, NoProc, InvalidGxid
  <1>4. ASSUME NEW b \in Backend, FinishGxact(b) PROVE TypeOK'
    BY <1>4 DEF FinishGxact, TypeOK, BackendPC, RecoveryPC, BumpPC, AfterBump, Proc, walVars, history, BatchEnd, NoCkpt, NoProc, InvalidGxid
  <1>5. CASE RecoveryBump
    BY <1>5 DEF RecoveryBump, TypeOK, BackendPC, RecoveryPC, BumpPC, AfterBump, Proc, walVars, history, BatchEnd, NoCkpt, NoProc, InvalidGxid
  <1>6. CASE RecoveryResetEvent
    BY <1>6 DEF RecoveryResetEvent, TypeOK, BackendPC, RecoveryPC, BumpPC, AfterBump, Proc, walVars, history, BatchEnd, NoCkpt, NoProc, InvalidGxid
  <1>7. ASSUME NEW p \in Proc, BumpWait(p) PROVE TypeOK'
    BY <1>7 DEF BumpWait, TypeOK, BackendPC, RecoveryPC, BumpPC, AfterBump, Proc, walVars, history, BatchEnd, NoCkpt, NoProc, InvalidGxid
  <1>8. ASSUME NEW p \in Proc, BumpWaited(p) PROVE TypeOK'
    BY <1>8 DEF BumpWaited, TypeOK, BackendPC, RecoveryPC, BumpPC, AfterBump, Proc, walVars, history, BatchEnd, NoCkpt, NoProc, InvalidGxid
  <1>9. ASSUME NEW p \in Proc, BumpNotNeeded(p) PROVE TypeOK'
    BY <1>9 DEF BumpNotNeeded, TypeOK, BackendPC, RecoveryPC, BumpPC, AfterBump, Proc, walVars, history, BatchEnd, NoCkpt, NoProc, InvalidGxid
  <1>10. ASSUME NEW p \in Proc, BumpLimit(p) PROVE TypeOK'
    BY <1>10, SMT DEF BumpLimit, TypeOK, BackendPC, RecoveryPC, BumpPC, AfterBump, Proc, walVars, history, BatchEnd, NoCkpt, NoProc, InvalidGxid
  <1>11. ASSUME NEW p \in Proc, BumpInsert(p) PROVE TypeOK'
    <2>1. nextLimit \in Nat \ {0}
      BY <1>11, SMT DEF BumpInsert, TypeOK, BumpMutex, BumpProgress, Bumping, NoProc, BatchEnd, Proc
    <2>2. wal' \in Seq(Nat \ {0}) /\ Len(wal') = Len(wal) + 1
      BY <1>11, <2>1, SMT DEF BumpInsert, TypeOK
    <2> QED BY <1>11, <2>2, SMT DEF BumpInsert, TypeOK, BackendPC, BumpPC, history
  <1>12. ASSUME NEW p \in Proc, BumpFlush(p) PROVE TypeOK'
    BY <1>12, SMT DEF BumpFlush, TypeOK, BackendPC, RecoveryPC, BumpPC, AfterBump, Proc, walVars, history, BatchEnd, NoCkpt, NoProc, InvalidGxid
  <1>13. ASSUME NEW p \in Proc, BumpSynced(p) \/ BumpUnsynced(p) PROVE TypeOK'
    <2>1. NewBatch \subseteq Nat
      BY SMT DEF NewBatch, BatchEnd, TypeOK
    <2>2. unwaited' \subseteq Nat
      BY <1>13, <2>1 DEF BumpSynced, BumpUnsynced, TypeOK
    <2> QED BY <1>13, <2>2 DEF BumpSynced, BumpUnsynced, TypeOK, BackendPC, RecoveryPC, BumpPC, AfterBump, Proc, walVars, history, BatchEnd, NoCkpt, NoProc, InvalidGxid
  <1>14. ASSUME NEW p \in Proc, BumpCount(p) PROVE TypeOK'
    BY <1>14, SMT DEF BumpCount, TypeOK, BackendPC, RecoveryPC, BumpPC, AfterBump, Proc, walVars, history, BatchEnd, NoCkpt, NoProc, InvalidGxid
  <1>15. CASE StandbyReceive
    BY <1>15, SMT DEF StandbyReceive, TypeOK, BackendPC, RecoveryPC, BumpPC, AfterBump, Proc, walVars, history, BatchEnd, NoCkpt, NoProc, InvalidGxid
  <1>16. CASE CkptRedo
    BY <1>16, SMTT(30) DEF CkptRedo, TypeOK, BackendPC, RecoveryPC, BumpPC, AfterBump, Proc, walVars, history, BatchEnd, NoCkpt, NoProc, InvalidGxid
  <1>17. CASE CkptGxid
    BY <1>17, SMT DEF CkptGxid, TypeOK, BackendPC, RecoveryPC, BumpPC, AfterBump, Proc, walVars, history, BatchEnd, NoCkpt, NoProc, InvalidGxid
  <1>18. CASE CkptWrite
    <2>1. /\ flushed' = Len(wal) /\ ckpt' = NoCkpt
          /\ control' = [redo |-> ckpt.redo, gxid |-> ckpt.gxid]
          /\ UNCHANGED <<mode, nextGxid, GxidCount, bumpLock, nextLimit, pc, bumpEvent, gxid,
                         wal, synced, shutdowns, assigned, unwaited, lost>>
      BY <1>18 DEF CkptWrite, history
    <2>2. flushed' \in 0 .. Len(wal) /\ synced \in 0 .. Len(wal)
      BY <2>1, Lengths, SMT
    <2>3. ckpt' \in [at : {"none", "redo", "gxid"}, redo : Nat \ {0}, gxid : Nat \ {0}]
      BY <2>1, SMT DEF NoCkpt
    <2>4. control' \in [redo : Nat \ {0}, gxid : Nat \ {0}]
      BY <2>1, SMT DEF TypeOK
    <2> QED BY <2>1, <2>2, <2>3, <2>4 DEF TypeOK
  <1>19. ASSUME NEW n \in synced .. Len(wal), CrashedProcesses, wal' = SubSeq(wal, 1, n),
                flushed' = n, UNCHANGED <<nextGxid, synced, shutdowns, assigned, unwaited>>,
                lost' \subseteq assigned,
                control' \in [redo : Nat \ {0}, gxid : Nat \ {0}]
         PROVE  TypeOK'
    <2>1. wal' \in Seq(Nat \ {0}) /\ Len(wal') = n
      BY <1>19, SMTT(30) DEF TypeOK
    <2>2. pc' \in [Proc -> BackendPC \union RecoveryPC]
      BY <1>19 DEF CrashedProcesses, BackendPC, RecoveryPC
    <2>3. bumpEvent' \in BOOLEAN
      BY <1>19 DEF CrashedProcesses
    <2>4. flushed' \in 0 .. Len(wal') /\ synced' \in 0 .. flushed' /\ GxidCount' \in Nat
      BY <1>19, <2>1, Lengths, SMT DEF CrashedProcesses
    <2>5. ckpt' \in [at : {"none", "redo", "gxid"}, redo : Nat \ {0}, gxid : Nat \ {0}]
      BY <1>19, SMT DEF CrashedProcesses, NoCkpt
    <2>6. nextLimit' \in Nat /\ gxid' \in [Backend -> Nat]
      BY <1>19, SMT DEF CrashedProcesses, InvalidGxid
    <2> QED BY <1>19, <2>1, <2>2, <2>3, <2>4, <2>5, <2>6 DEF CrashedProcesses, TypeOK
  <1>20. CASE Crash \/ (\E p \in Proc : BumpPanic(p))
    <2>1. PICK n \in flushed .. Len(wal) : CrashTo(n)
      <3>1. flushed \in flushed .. Len(wal)
        BY SMT DEF TypeOK
      <3> QED BY <1>20, <3>1 DEF Crash, BumpPanic
    <2>2. n \in synced .. Len(wal)
      BY <2>1, Lengths, SMT
    <2>3. /\ CrashedProcesses /\ wal' = SubSeq(wal, 1, n) /\ flushed' = n
          /\ UNCHANGED <<nextGxid, synced, shutdowns, assigned, unwaited>>
          /\ control' = control /\ lost' = lost
      BY <2>1 DEF CrashTo, history
    <2> QED BY <1>19, <2>2, <2>3 DEF TypeOK
  <1>21. CASE Promote
    <2>1. synced \in synced .. Len(wal)
      BY SMT DEF TypeOK
    <2>2. lost' \subseteq assigned
      BY <1>21 DEF Promote, TypeOK
    <2>3. control' \in [redo : Nat \ {0}, gxid : Nat \ {0}]
      BY <1>21, SMT DEF Promote
    <2>4. /\ CrashedProcesses /\ wal' = SubSeq(wal, 1, synced) /\ flushed' = synced
          /\ UNCHANGED <<nextGxid, synced, shutdowns, assigned, unwaited>>
      BY <1>21 DEF Promote
    <2> QED BY <1>19, <2>1, <2>2, <2>3, <2>4
  <1>22. ASSUME NEW g \in Nat \ {0}, wal' = LogGxid(wal, g)
         PROVE  wal' \in Seq(Nat \ {0}) /\ Len(wal') \in Nat /\ Len(wal') >= Len(wal)
    <2>1. CASE wal' = wal
      BY <2>1, SMT DEF TypeOK
    <2>2. CASE wal' = Append(wal, g)
      BY <2>2, SMT DEF TypeOK
    <2> QED BY <1>22, <2>1, <2>2 DEF LogGxid
  <1>23. CASE StartupXLOG
    <2>1. Len(wal) \in flushed .. Len(wal)
      BY SMT DEF TypeOK
    <2>2. nextGxid' \in Nat \ {0}
      BY <1>23, <2>1, RedoSafe DEF StartupXLOG
    <2>3. wal' \in Seq(Nat \ {0}) /\ Len(wal') \in Nat /\ Len(wal') >= Len(wal)
      BY <1>22, <1>23, <2>2 DEF StartupXLOG
    <2>4. /\ flushed' = Len(wal') /\ synced' = synced /\ mode' = "up" /\ GxidCount' = 0
          /\ control' = [redo |-> Len(wal') + 1, gxid |-> nextGxid']
          /\ UNCHANGED <<bumpLock, nextLimit, pc, bumpEvent, gxid, ckpt, shutdowns, assigned,
                         unwaited, lost>>
      BY <1>23 DEF StartupXLOG, history
    <2>5. flushed' \in 0 .. Len(wal') /\ synced' \in 0 .. flushed' /\ GxidCount' \in Nat
      BY <2>3, <2>4, Lengths, SMT
    <2>6. control' \in [redo : Nat \ {0}, gxid : Nat \ {0}]
      BY <2>2, <2>3, <2>4, SMT
    <2> QED BY <2>2, <2>3, <2>4, <2>5, <2>6 DEF TypeOK
  <1>24. CASE Shutdown
    <2>1. /\ wal' \in Seq(Nat \ {0}) /\ Len(wal') \in Nat
          /\ synced' \in 0 .. Len(wal')
      <3>1. wal' = LogGxid(wal, nextGxid) /\ nextGxid \in Nat \ {0} /\ synced' = synced
        BY <1>24 DEF Shutdown, TypeOK
      <3>2. wal' \in Seq(Nat \ {0}) /\ Len(wal') \in Nat /\ Len(wal') >= Len(wal)
        BY <1>22, <3>1
      <3> QED BY <3>1, <3>2, Lengths, SMT
    <2>2. bumpEvent' \in BOOLEAN
      BY <1>24 DEF Shutdown
    <2>3. pc' \in [Proc -> BackendPC \union RecoveryPC]
      BY <1>24 DEF Shutdown, TypeOK, RecoveryPC
    <2>4. control' \in [redo : Nat \ {0}, gxid : Nat \ {0}]
      BY <1>24, <2>1, SMT DEF Shutdown, TypeOK
    <2>5. flushed' \in 0 .. Len(wal') /\ synced' \in 0 .. flushed' /\ flushed' = Len(wal')
      BY <1>24, <2>1, SMT DEF Shutdown
    <2>6. shutdowns' \in Nat /\ GxidCount' \in Nat /\ nextLimit' \in Nat
      BY <1>24, SMT DEF Shutdown, TypeOK
    <2>7. UNCHANGED <<mode, nextGxid, bumpLock, gxid, ckpt, assigned, unwaited, lost>>
      BY <1>24 DEF Shutdown, history
    <2> QED BY <2>1, <2>2, <2>3, <2>4, <2>5, <2>6, <2>7 DEF TypeOK
  <1>25. CASE UNCHANGED vars
    BY <1>25 DEF vars, TypeOK
  <1> QED
    BY <1>1, <1>2, <1>3, <1>4, <1>5, <1>6, <1>7, <1>8, <1>9, <1>10, <1>11, <1>12, <1>13,
       <1>14, <1>15, <1>16, <1>17, <1>18, <1>20, <1>21, <1>23, <1>24, <1>25 DEF Next

\* Every step preserves the invariant.
LEMMA NextInv ==
  ASSUME GxidInv, RedoQuiet, [Next]_vars
  PROVE  GxidInv'
  <1>t. TypeOK'
    BY NextType
  <1>1. ASSUME NEW b \in Backend, ActivateStart(b) PROVE GxidInv'
    <2>1. UNCHANGED QuietVars /\ pc' = [pc EXCEPT ![b] = "alloc"]
      BY <1>1 DEF ActivateStart, QuietVars, walVars, history
    <2>2. b \in Proc /\ pc[b] \notin Bumping /\ "alloc" \notin Bumping
      BY <1>1 DEF ActivateStart, Proc, Bumping, AfterBump
    <2> QED BY <1>t, <2>1, <2>2, QuietStep
  <1>2. ASSUME NEW b \in Backend, ActivateBump(b) PROVE GxidInv'
    <2>1. UNCHANGED QuietVars /\ pc' = [pc EXCEPT ![b] = "lock"]
      BY <1>2 DEF ActivateBump, QuietVars, walVars, history
    <2>2. b \in Proc /\ pc[b] \notin Bumping /\ "lock" \notin Bumping
      BY <1>2 DEF ActivateBump, Proc, Bumping, AfterBump
    <2> QED BY <1>t, <2>1, <2>2, QuietStep
  <1>3. CASE RecoveryBump
    <2>1. UNCHANGED QuietVars /\ pc' = [pc EXCEPT ![DtxRecovery] = "lock"]
      BY <1>3 DEF RecoveryBump, QuietVars, walVars, history
    <2>2. DtxRecovery \in Proc /\ pc[DtxRecovery] \notin Bumping /\ "lock" \notin Bumping
      BY <1>3 DEF RecoveryBump, Proc, Bumping, AfterBump
    <2> QED BY <1>t, <2>1, <2>2, QuietStep
  <1>4. CASE RecoveryResetEvent
    <2>1. UNCHANGED QuietVars /\ pc' = [pc EXCEPT ![DtxRecovery] = "idle"]
      BY <1>4 DEF RecoveryResetEvent, QuietVars, walVars, history
    <2>2. DtxRecovery \in Proc /\ pc[DtxRecovery] \notin Bumping /\ "idle" \notin Bumping
      BY <1>4 DEF RecoveryResetEvent, Proc, Bumping, AfterBump
    <2> QED BY <1>t, <2>1, <2>2, QuietStep
  <1>5. ASSUME NEW p \in Proc, BumpWait(p) PROVE GxidInv'
    <2>1. UNCHANGED QuietVars /\ pc' = [pc EXCEPT ![p] = "wait"]
      BY <1>5 DEF BumpWait, QuietVars, walVars, history
    <2>2. p \in Proc /\ pc[p] \notin Bumping /\ "wait" \notin Bumping
      BY <1>5 DEF BumpWait, Proc, Bumping, AfterBump
    <2> QED BY <1>t, <2>1, <2>2, QuietStep
  <1>6. ASSUME NEW p \in Proc, BumpWaited(p) PROVE GxidInv'
    <2>1. UNCHANGED QuietVars /\ pc' = [pc EXCEPT ![p] = AfterBump(p)]
      BY <1>6 DEF BumpWaited, QuietVars, walVars, history
    <2>2. p \in Proc /\ pc[p] \notin Bumping /\ AfterBump(p) \notin Bumping
      BY <1>6 DEF BumpWaited, Proc, Bumping, AfterBump
    <2> QED BY <1>t, <2>1, <2>2, QuietStep
  <1>7. ASSUME NEW p \in Proc, BumpNotNeeded(p) PROVE GxidInv'
    <2>1. UNCHANGED QuietVars /\ pc' = [pc EXCEPT ![p] = AfterBump(p)]
      BY <1>7 DEF BumpNotNeeded, QuietVars, walVars, history
    <2>2. p \in Proc /\ pc[p] \notin Bumping /\ AfterBump(p) \notin Bumping
      BY <1>7 DEF BumpNotNeeded, Proc, Bumping, AfterBump
    <2> QED BY <1>t, <2>1, <2>2, QuietStep
  <1>8. ASSUME NEW b \in Backend, ActivateAlloc(b) PROVE GxidInv'
    <2>0. /\ nextGxid \in Nat /\ GxidCount \in Nat /\ GxidCount > 0
          /\ nextGxid' = nextGxid + 1 /\ GxidCount' = GxidCount - 1
          /\ UNCHANGED <<bumpLock, nextLimit, wal, flushed, synced, control, ckpt, unwaited>>
          /\ wal \in Seq(Nat \ {0}) /\ control.gxid \in Nat /\ ckpt.gxid \in Nat
      BY <1>8 DEF GxidInv, TypeOK, ActivateAlloc, walVars
    <2>a. Kept' = Kept \union {nextGxid} /\ Kept \subseteq Nat
      BY <1>8 DEF ActivateAlloc, Kept, GxidInv, TypeOK
    <2>b. BatchEnd' = BatchEnd /\ BatchEnd \in Nat /\ nextGxid < BatchEnd
      BY <2>0, SMT DEF BatchEnd
    <2>c. ASSUME NEW v \in Nat, SafeStart(v) PROVE SafeStart(v)'
      BY <2>0, <2>a, <2>b, <2>c, SMT DEF SafeStart
    <2>d. \A n \in flushed .. Len(wal) : ReplayedGxid(n) \in Nat /\ ReplayedGxid(n)' = ReplayedGxid(n)
      BY <2>0, SMT DEF ReplayedGxid, GxidInv, TypeOK
    <2>1. BumpMutex'
      BY <1>8, <1>t DEF GxidInv, TypeOK, ActivateAlloc, BumpMutex, Bumping, Proc, NoProc, walVars, history
    <2>2. BumpProgress'
      <3>1. bumpLock # NoProc => pc'[bumpLock] = pc[bumpLock]
        BY <1>8 DEF GxidInv, TypeOK, ActivateAlloc, BumpMutex, Bumping, Proc
      <3> QED BY <2>0, <2>b, <3>1 DEF GxidInv, BumpProgress, NewBatch
    <2>3. WalSafe'
      BY <2>0, <2>c, <2>d DEF GxidInv, WalSafe
    <2>4. ControlSafe'
      BY <2>0, <2>c DEF GxidInv, ControlSafe
    <2>5. CkptSafe'
      BY <2>0, <2>c DEF GxidInv, CkptSafe
    <2>6. AssignedBelow'
      BY <2>0, <2>a, SMT DEF GxidInv, AssignedBelow
    <2>7. StandbySafe'
      <3>1. Batch' \subseteq Batch /\ nextGxid \in Batch
        BY <2>0, <2>b, SMT DEF Batch
      <3> QED BY <2>0, <2>a, <3>1 DEF GxidInv, StandbySafe, Covered, ReplayedGxid
    <2> QED BY <1>t, <2>1, <2>2, <2>3, <2>4, <2>5, <2>6, <2>7 DEF GxidInv
  <1>9. ASSUME NEW b \in Backend, FinishGxact(b) PROVE GxidInv'
    <2>1. BumpMutex'
      BY <1>9, <1>t DEF GxidInv, TypeOK, FinishGxact, BumpMutex, Bumping, Proc, NoProc, walVars, history
    <2>2. BumpProgress'
      BY <1>9, <1>t DEF GxidInv, TypeOK, FinishGxact, BumpMutex, BumpProgress, NewBatch, BatchEnd, Bumping, NoProc, Proc, walVars, history
    <2>3. WalSafe'
      BY <1>9, <1>t DEF GxidInv, TypeOK, FinishGxact, BumpMutex, BumpProgress, WalSafe, SafeStart, Kept, ReplayedGxid, BatchEnd, Bumping, NoProc, Proc, walVars, history
    <2>4. ControlSafe'
      BY <1>9, <1>t DEF GxidInv, TypeOK, FinishGxact, BumpMutex, BumpProgress, ControlSafe, SafeStart, Kept, BatchEnd, Bumping, NoProc, Proc, walVars, history
    <2>5. CkptSafe'
      BY <1>9, <1>t DEF GxidInv, TypeOK, FinishGxact, BumpMutex, BumpProgress, CkptSafe, SafeStart, Kept, BatchEnd, Bumping, NoProc, Proc, walVars, history
    <2>6. AssignedBelow'
      BY <1>9 DEF GxidInv, TypeOK, AssignedBelow, Kept, history, FinishGxact
    <2>7. StandbySafe'
      BY <1>9, StandbyQuiet DEF GxidInv, FinishGxact, StandbyVars, walVars, history
    <2> QED BY <1>t, <2>1, <2>2, <2>3, <2>4, <2>5, <2>6, <2>7 DEF GxidInv
  <1>10. ASSUME NEW p \in Proc, BumpLimit(p) PROVE GxidInv'
    <2>1. BumpMutex'
      BY <1>10, <1>t DEF GxidInv, TypeOK, BumpLimit, BumpMutex, Bumping, Proc, NoProc, walVars, history
    <2>2. BumpProgress'
      BY <1>10, <1>t DEF GxidInv, TypeOK, BumpLimit, BumpMutex, BumpProgress, NewBatch, BatchEnd, Bumping, NoProc, Proc, walVars, history
    <2>3. WalSafe'
      BY <1>10, <1>t DEF GxidInv, TypeOK, BumpLimit, BumpMutex, BumpProgress, WalSafe, SafeStart, Kept, ReplayedGxid, BatchEnd, Bumping, NoProc, Proc, walVars, history
    <2>4. ControlSafe'
      BY <1>10, <1>t DEF GxidInv, TypeOK, BumpLimit, BumpMutex, BumpProgress, ControlSafe, SafeStart, Kept, BatchEnd, Bumping, NoProc, Proc, walVars, history
    <2>5. CkptSafe'
      BY <1>10, <1>t DEF GxidInv, TypeOK, BumpLimit, BumpMutex, BumpProgress, CkptSafe, SafeStart, Kept, BatchEnd, Bumping, NoProc, Proc, walVars, history
    <2>6. AssignedBelow'
      BY <1>10 DEF GxidInv, TypeOK, AssignedBelow, Kept, history, BumpLimit
    <2>7. StandbySafe'
      BY <1>10, StandbyQuiet DEF GxidInv, BumpLimit, StandbyVars, walVars, history
    <2> QED BY <1>t, <2>1, <2>2, <2>3, <2>4, <2>5, <2>6, <2>7 DEF GxidInv
  <1>11. ASSUME NEW p \in Proc, BumpInsert(p) PROVE GxidInv'
    <2>0. /\ wal' = Append(wal, nextLimit) /\ Len(wal') = Len(wal) + 1 /\ wal'[Len(wal')] = nextLimit
          /\ \A i \in 1 .. Len(wal) : wal'[i] = wal[i]
          /\ bumpLock = p /\ nextLimit \in Nat /\ Len(wal) \in Nat
      BY <1>11, SMTT(30) DEF GxidInv, TypeOK, BumpInsert, BumpMutex, Bumping
    <2>1. BumpMutex'
      BY <1>11, <1>t, <2>0 DEF GxidInv, TypeOK, BumpInsert, BumpMutex, Bumping, Proc, NoProc, walVars, history
    <2>2. BumpProgress'
      <3>1. bumpLock' = p /\ pc'[p] = "flush" /\ nextLimit' = BatchEnd' + Prefetch
        BY <1>11, <2>0 DEF GxidInv, TypeOK, BumpInsert, BumpProgress, NewBatch, BatchEnd, NoProc, Proc
      <3>2. control'.redo <= Len(wal') /\ (ckpt'.at = "gxid" => ckpt'.redo <= Len(wal'))
        BY <1>11, <2>0, SMT DEF GxidInv, TypeOK, BumpInsert, ControlSafe, CkptSafe
      <3>3. wal'[Len(wal')] = nextLimit' /\ Len(wal') > 0
        BY <1>11, <2>0, SMT DEF BumpInsert
      <3> QED BY <3>1, <3>2, <3>3 DEF BumpProgress
    <2>3. WalSafe'
      <3> SUFFICES ASSUME NEW i \in flushed .. Len(wal) + 1 PROVE SafeStart(ReplayedGxid(i))'
        BY <1>11, <2>0 DEF BumpInsert, WalSafe
      <3>0. i \in Nat /\ flushed \in Nat
        BY SMT DEF GxidInv, TypeOK
      <3>1. ASSUME NEW v PROVE SafeStart(v)' = SafeStart(v)
        BY <1>11 DEF BumpInsert, SafeStart, Kept, BatchEnd, history
      <3>2. CASE i <= Len(wal)
        <4>1. ReplayedGxid(i)' = ReplayedGxid(i)
          BY <2>0, <3>0, <3>2, SMT DEF ReplayedGxid
        <4> QED BY <3>0, <3>1, <3>2, <4>1, <2>0, SMT DEF GxidInv, TypeOK, WalSafe
      <3>3. CASE i = Len(wal) + 1
        <4>1. ReplayedGxid(i)' = nextLimit
          BY <2>0, <3>0, <3>3, SMT DEF ReplayedGxid
        <4>2. SafeStart(nextLimit)
          <5>1. \A g \in Kept : g < nextLimit
            BY <2>0, BelowLimit DEF Proc, NoProc
          <5>2. nextLimit >= BatchEnd
            BY <2>0, SMT DEF GxidInv, TypeOK, BumpProgress, BatchEnd, NoProc, Proc
          <5> QED BY <5>1, <5>2 DEF SafeStart
        <4> QED BY <3>1, <4>1, <4>2
      <3> QED BY <2>0, <3>0, <3>2, <3>3, SMT
    <2>4. ControlSafe'
      BY <1>11, <1>t, <2>0 DEF GxidInv, TypeOK, BumpInsert, BumpMutex, BumpProgress, ControlSafe, SafeStart, Kept, BatchEnd, Bumping, NoProc, Proc, walVars, history
    <2>5. CkptSafe'
      <3>1. ckpt' = ckpt /\ (ckpt.at # "none" => ckpt.redo <= Len(wal) + 1)
        BY <1>11 DEF GxidInv, BumpInsert, CkptSafe
      <3>2. ckpt.redo <= Len(wal) + 1 => ckpt.redo <= Len(wal') + 1 /\ ckpt.redo # Len(wal') + 1
        BY <2>0, Lengths, SMT DEF GxidInv
      <3> QED BY <3>1, <3>2 DEF CkptSafe
    <2>6. AssignedBelow'
      BY <1>11 DEF GxidInv, TypeOK, AssignedBelow, Kept, history, BumpInsert
    <2>7. StandbySafe'
      <3> SUFFICES ASSUME NEW i \in synced .. Len(wal) + 1 PROVE Covered(ReplayedGxid(i))'
        BY <1>11, <2>0 DEF BumpInsert, StandbySafe
      <3>0. i \in Nat /\ synced \in Nat
        BY SMT DEF GxidInv, TypeOK
      <3>1. ASSUME NEW v PROVE Covered(v)' = Covered(v)
        BY <1>11 DEF BumpInsert, Covered, Kept, Batch, BatchEnd, history
      <3>2. CASE i <= Len(wal)
        <4>1. ReplayedGxid(i)' = ReplayedGxid(i)
          BY <2>0, <3>0, <3>2, SMT DEF ReplayedGxid
        <4>2. i \in synced .. Len(wal)
          BY <2>0, <3>0, <3>2, SMT
        <4> QED BY <3>1, <4>1, <4>2 DEF GxidInv, StandbySafe
      <3>3. CASE i = Len(wal) + 1
        <4>1. ReplayedGxid(i)' = nextLimit
          BY <2>0, <3>0, <3>3, SMT DEF ReplayedGxid
        <4>2. Covered(nextLimit)
          BY <2>0, BelowLimit DEF Covered, NoProc, Proc
        <4> QED BY <3>1, <4>1, <4>2
      <3> QED BY <2>0, <3>0, <3>2, <3>3, SMT
    <2> QED BY <1>t, <2>1, <2>2, <2>3, <2>4, <2>5, <2>6, <2>7 DEF GxidInv
  <1>12. ASSUME NEW p \in Proc, BumpFlush(p) PROVE GxidInv'
    <2>1. BumpMutex'
      BY <1>12, <1>t DEF GxidInv, TypeOK, BumpFlush, BumpMutex, Bumping, Proc, NoProc, walVars, history
    <2>2. BumpProgress'
      BY <1>12, <1>t DEF GxidInv, TypeOK, BumpFlush, BumpMutex, BumpProgress, NewBatch, BatchEnd, Bumping, NoProc, Proc, walVars, history
    <2>3. WalSafe'
      <3>1. flushed' = Len(wal) /\ UNCHANGED <<nextGxid, GxidCount, wal, assigned, lost>>
        BY <1>12 DEF BumpFlush, history
      <3>2. \A n \in Len(wal) .. Len(wal) : n \in flushed .. Len(wal)
        BY Lengths, SMT DEF GxidInv
      <3> QED BY <3>1, <3>2 DEF GxidInv, WalSafe, SafeStart, Kept, ReplayedGxid, BatchEnd
    <2>4. ControlSafe'
      <3>1. flushed' = Len(wal) /\ UNCHANGED <<nextGxid, GxidCount, control, assigned, lost>>
        BY <1>12 DEF BumpFlush, history
      <3>2. control.redo <= flushed + 1
        BY DEF GxidInv, ControlSafe
      <3>3. control.redo <= Len(wal) + 1 /\ (Len(wal) < control.redo => flushed < control.redo)
        BY <3>2, Lengths, SMT DEF GxidInv
      <3> QED BY <3>1, <3>3 DEF GxidInv, ControlSafe, SafeStart, Kept, BatchEnd
    <2>5. CkptSafe'
      BY <1>12, <1>t DEF GxidInv, TypeOK, BumpFlush, BumpMutex, BumpProgress, CkptSafe, SafeStart, Kept, BatchEnd, Bumping, NoProc, Proc, walVars, history
    <2>6. AssignedBelow'
      BY <1>12 DEF GxidInv, TypeOK, AssignedBelow, Kept, history, BumpFlush
    <2>7. StandbySafe'
      BY <1>12, StandbyQuiet DEF GxidInv, BumpFlush, StandbyVars, walVars, history
    <2> QED BY <1>t, <2>1, <2>2, <2>3, <2>4, <2>5, <2>6, <2>7 DEF GxidInv
  <1>13. ASSUME NEW p \in Proc, BumpSynced(p) \/ BumpUnsynced(p) PROVE GxidInv'
    <2>0. /\ pc[p] = "sync" /\ pc' = [pc EXCEPT ![p] = "count"]
          /\ UNCHANGED <<nextGxid, GxidCount, bumpLock, nextLimit, wal, flushed, synced, control,
                         ckpt, assigned, lost>>
      BY <1>13 DEF BumpSynced, BumpUnsynced, walVars
    <2>a. bumpLock = p /\ p # NoProc
      BY <2>0 DEF GxidInv, BumpMutex, Bumping, Proc, NoProc
    <2>1. BumpMutex'
      BY <2>0, <2>a DEF GxidInv, TypeOK, BumpMutex, Bumping, Proc, NoProc
    <2>2. BumpProgress'
      <3>1. synced' = Len(wal') \/ NewBatch' \subseteq unwaited'
        BY <1>13, <2>0 DEF BumpSynced, BumpUnsynced, NewBatch, BatchEnd
      <3>2. pc'[p] = "count"
        BY <2>0 DEF GxidInv, TypeOK
      <3> QED BY <2>0, <2>a, <3>1, <3>2 DEF GxidInv, TypeOK, BumpProgress, BatchEnd
    <2>3. WalSafe' /\ ControlSafe' /\ CkptSafe' /\ AssignedBelow'
      BY <2>0 DEF GxidInv, WalSafe, ControlSafe, CkptSafe, AssignedBelow, SafeStart, Kept,
         ReplayedGxid, BatchEnd
    <2>4. CASE BumpSynced(p)
      <3>1. synced = Len(wal) /\ Len(wal) \in Nat /\ Len(wal) > 0 /\ wal[Len(wal)] = nextLimit
        BY <2>0, <2>a, <2>4, Lengths DEF BumpSynced, GxidInv, BumpProgress
      <3>2. \A g \in Kept \union Batch : g < nextLimit
        BY <2>a, BelowLimit
      <3>3. Kept' = Kept /\ Batch' = Batch
        BY <2>0 DEF Kept, Batch, BatchEnd
      <3>4. Covered(nextLimit)'
        BY <2>0, <3>2, <3>3 DEF Covered
      <3>5. ASSUME NEW i \in synced .. Len(wal) PROVE Covered(ReplayedGxid(i))'
        <4>1. i = Len(wal) /\ i >= 1
          BY <3>1, SMT
        <4>2. ReplayedGxid(i)' = nextLimit /\ nextLimit' = nextLimit
          BY <2>0, <3>1, <4>1 DEF ReplayedGxid
        <4> QED BY <3>4, <4>2 DEF Covered
      <3>6. StandbySafe'
        BY <2>0, <3>5 DEF StandbySafe
      <3> QED BY <1>t, <2>1, <2>2, <2>3, <3>6 DEF GxidInv
    <2>5. CASE BumpUnsynced(p)
      <3>1. unwaited \subseteq unwaited'
        BY <2>5 DEF BumpUnsynced
      <3>2. StandbySafe'
        BY <2>0, <3>1 DEF GxidInv, StandbySafe, Covered, Kept, Batch, BatchEnd, ReplayedGxid
      <3> QED BY <1>t, <2>1, <2>2, <2>3, <3>2 DEF GxidInv
    <2> QED BY <1>13, <2>4, <2>5
  <1>14. ASSUME NEW p \in Proc, BumpCount(p) PROVE GxidInv'
    <2>0. /\ pc[p] = "count" /\ pc' = [pc EXCEPT ![p] = AfterBump(p)] /\ bumpLock' = NoProc
          /\ UNCHANGED <<nextGxid, wal, flushed, synced, control, ckpt, assigned, unwaited, lost>>
          /\ GxidCount' = GxidCount + Prefetch
      BY <1>14 DEF BumpCount, walVars, history
    <2>a. bumpLock = p /\ p # NoProc
      BY <2>0 DEF GxidInv, BumpMutex, Bumping, Proc, NoProc
    <2>b. PICK v \in Nat : v = nextLimit
      BY DEF GxidInv, TypeOK
    <2>c. /\ v = BatchEnd + Prefetch
          /\ Len(wal) > 0 /\ wal[Len(wal)] = v /\ flushed = Len(wal)
          /\ control.redo <= Len(wal) /\ (ckpt.at = "gxid" => ckpt.redo <= Len(wal))
          /\ synced = Len(wal) \/ NewBatch \subseteq unwaited
      BY <2>0, <2>a, <2>b DEF GxidInv, BumpProgress
    <2>d. /\ nextGxid \in Nat /\ GxidCount \in Nat /\ Len(wal) \in Nat /\ synced \in Nat
          /\ control.redo \in Nat /\ ckpt.redo \in Nat
      BY SMT DEF GxidInv, TypeOK
    <2>e. Kept' = Kept /\ (\A g \in Kept \union Batch : g < v)
      BY <2>0, <2>a, <2>b, BelowLimit DEF Kept
    <2>f. BatchEnd' = v
      BY <2>0, <2>c, <2>d, SMT DEF BatchEnd
    <2>g. SafeStart(v)'
      BY <2>b, <2>e, <2>f, SMT DEF SafeStart
    <2>h. \A n \in flushed .. Len(wal) : n = Len(wal) /\ n >= 1
      BY <2>c, <2>d, SMT
    <2>1. BumpMutex'
      BY <2>0, <2>a DEF GxidInv, TypeOK, BumpMutex, Bumping, Proc, NoProc, AfterBump
    <2>2. BumpProgress'
      BY <2>0 DEF BumpProgress
    <2>3. WalSafe'
      <3> SUFFICES ASSUME NEW n \in flushed .. Len(wal) PROVE SafeStart(ReplayedGxid(n))'
        BY <2>0 DEF WalSafe
      <3>1. ReplayedGxid(n)' = v
        BY <2>0, <2>c, <2>h DEF ReplayedGxid
      <3> QED BY <2>g, <3>1 DEF SafeStart
    <2>4. ControlSafe' /\ CkptSafe'
      <3>1. ~(flushed < control.redo) /\ (ckpt.at = "gxid" => ckpt.redo # Len(wal) + 1)
        BY <2>c, <2>d, SMT
      <3> QED BY <2>0, <3>1 DEF GxidInv, ControlSafe, CkptSafe
    <2>5. AssignedBelow'
      BY <2>0, <2>e DEF GxidInv, AssignedBelow
    <2>6. Batch' = Batch \union NewBatch /\ \A g \in NewBatch : g < v
      BY <2>0, <2>b, <2>c, <2>d, <2>f, SMTT(30) DEF Batch, NewBatch, BatchEnd
    <2>7. StandbySafe'
      <3> SUFFICES ASSUME NEW n \in synced .. Len(wal) PROVE Covered(ReplayedGxid(n))'
        BY <2>0 DEF StandbySafe
      <3>1. CASE synced = Len(wal)
        <4>1. n = Len(wal) /\ n >= 1
          BY <2>c, <2>d, <3>1, SMT
        <4>2. ReplayedGxid(n)' = v
          BY <2>0, <2>c, <4>1 DEF ReplayedGxid
        <4> QED BY <2>e, <2>6, <4>2 DEF Covered
      <3>2. CASE NewBatch \subseteq unwaited
        <4>1. Covered(ReplayedGxid(n)) /\ ReplayedGxid(n)' = ReplayedGxid(n)
          BY <2>0 DEF GxidInv, StandbySafe, ReplayedGxid
        <4> QED BY <2>0, <2>e, <2>6, <3>2, <4>1 DEF Covered
      <3> QED BY <2>c, <3>1, <3>2
    <2> QED BY <1>t, <2>1, <2>2, <2>3, <2>4, <2>5, <2>7 DEF GxidInv
  <1>15. CASE StandbyReceive
    <2>1. BumpMutex'
      BY <1>15, <1>t DEF GxidInv, TypeOK, StandbyReceive, BumpMutex, Bumping, Proc, NoProc, walVars, history
    <2>2. BumpProgress'
      <3>1. synced # Len(wal)
        BY <1>15, Lengths, SMTT(30) DEF GxidInv, StandbyReceive
      <3> QED BY <1>15, <3>1 DEF GxidInv, StandbyReceive, BumpProgress, NewBatch, BatchEnd, history
    <2>3. WalSafe'
      BY <1>15 DEF GxidInv, StandbyReceive, WalSafe, SafeStart, Kept, ReplayedGxid, BatchEnd, history
    <2>4. ControlSafe'
      BY <1>15, <1>t DEF GxidInv, TypeOK, StandbyReceive, BumpMutex, BumpProgress, ControlSafe, SafeStart, Kept, BatchEnd, Bumping, NoProc, Proc, walVars, history
    <2>5. CkptSafe'
      BY <1>15, <1>t DEF GxidInv, TypeOK, StandbyReceive, BumpMutex, BumpProgress, CkptSafe, SafeStart, Kept, BatchEnd, Bumping, NoProc, Proc, walVars, history
    <2>6. AssignedBelow'
      BY <1>15 DEF GxidInv, TypeOK, AssignedBelow, Kept, history, StandbyReceive
    <2>7. StandbySafe'
      <3>1. /\ synced' \in Nat /\ synced \in Nat /\ synced' >= synced /\ Len(wal) \in Nat
            /\ UNCHANGED <<nextGxid, GxidCount, wal, assigned, unwaited, lost>>
        <4>1. /\ synced' = synced + 1
              /\ UNCHANGED <<nextGxid, GxidCount, wal, assigned, unwaited, lost>>
          BY <1>15 DEF StandbyReceive, history
        <4>2. synced + 1 \in Nat /\ synced + 1 >= synced
          BY Lengths, SMT DEF GxidInv
        <4> QED BY <4>1, <4>2, Lengths DEF GxidInv
      <3>2. \A n \in synced' .. Len(wal) : n \in synced .. Len(wal)
        BY <3>1, SMT
      <3> QED BY <3>1, <3>2 DEF GxidInv, StandbySafe, Covered, Kept, Batch, BatchEnd, ReplayedGxid
    <2> QED BY <1>t, <2>1, <2>2, <2>3, <2>4, <2>5, <2>6, <2>7 DEF GxidInv
  <1>16. CASE CkptRedo
    <2>1. BumpMutex'
      BY <1>16, <1>t DEF GxidInv, TypeOK, CkptRedo, BumpMutex, Bumping, Proc, NoProc, walVars, history
    <2>2. BumpProgress'
      BY <1>16, <1>t DEF GxidInv, TypeOK, CkptRedo, BumpMutex, BumpProgress, NewBatch, BatchEnd, Bumping, NoProc, Proc, walVars, history
    <2>3. WalSafe'
      BY <1>16, <1>t DEF GxidInv, TypeOK, CkptRedo, BumpMutex, BumpProgress, WalSafe, SafeStart, Kept, ReplayedGxid, BatchEnd, Bumping, NoProc, Proc, walVars, history
    <2>4. ControlSafe'
      BY <1>16, <1>t DEF GxidInv, TypeOK, CkptRedo, BumpMutex, BumpProgress, ControlSafe, SafeStart, Kept, BatchEnd, Bumping, NoProc, Proc, walVars, history
    <2>5. CkptSafe'
      <3>1. ckpt'.redo = Len(wal) + 1 /\ ckpt'.at = "redo" /\ wal' = wal
        BY <1>16 DEF CkptRedo, walVars
      <3>2. Len(wal) + 1 <= Len(wal) + 1
        BY Lengths, SMT DEF GxidInv
      <3> QED BY <3>1, <3>2 DEF CkptSafe
    <2>6. AssignedBelow'
      BY <1>16 DEF GxidInv, TypeOK, AssignedBelow, Kept, history, CkptRedo
    <2>7. StandbySafe'
      BY <1>16, StandbyQuiet DEF GxidInv, CkptRedo, StandbyVars, walVars, history
    <2> QED BY <1>t, <2>1, <2>2, <2>3, <2>4, <2>5, <2>6, <2>7 DEF GxidInv
  <1>17. CASE CkptGxid
    <2>1. BumpMutex'
      BY <1>17, <1>t DEF GxidInv, TypeOK, CkptGxid, BumpMutex, Bumping, Proc, NoProc, walVars, history
    <2>2. BumpProgress'
      BY <1>17, <1>t DEF GxidInv, TypeOK, CkptGxid, BumpMutex, BumpProgress, NewBatch, BatchEnd, Bumping, NoProc, Proc, walVars, history
    <2>3. WalSafe'
      BY <1>17, <1>t DEF GxidInv, TypeOK, CkptGxid, BumpMutex, BumpProgress, WalSafe, SafeStart, Kept, ReplayedGxid, BatchEnd, Bumping, NoProc, Proc, walVars, history
    <2>4. ControlSafe'
      BY <1>17, <1>t DEF GxidInv, TypeOK, CkptGxid, BumpMutex, BumpProgress, ControlSafe, SafeStart, Kept, BatchEnd, Bumping, NoProc, Proc, walVars, history
    <2>5. CkptSafe'
      <3>1. SafeStart(BatchEnd)
        <4>1. nextGxid \in Nat /\ GxidCount \in Nat
          BY DEF GxidInv, TypeOK
        <4>2. \A g \in Kept : g \in Nat /\ g < nextGxid
          BY DEF GxidInv, TypeOK, AssignedBelow, Kept
        <4> QED BY <4>1, <4>2, SMT DEF SafeStart, BatchEnd
      <3>2. /\ ckpt'.redo = ckpt.redo /\ ckpt'.gxid = BatchEnd /\ ckpt.at # "none"
            /\ UNCHANGED <<nextGxid, GxidCount, wal, assigned, lost>>
        BY <1>17 DEF CkptGxid, walVars, history
      <3>3. SafeStart(BatchEnd)'
        BY <3>1, <3>2 DEF SafeStart, Kept, BatchEnd
      <3> QED BY <3>2, <3>3 DEF GxidInv, CkptSafe, SafeStart, BatchEnd
    <2>6. AssignedBelow'
      BY <1>17 DEF GxidInv, TypeOK, AssignedBelow, Kept, history, CkptGxid
    <2>7. StandbySafe'
      BY <1>17, StandbyQuiet DEF GxidInv, CkptGxid, StandbyVars, walVars, history
    <2> QED BY <1>t, <2>1, <2>2, <2>3, <2>4, <2>5, <2>6, <2>7 DEF GxidInv
  <1>18. CASE CkptWrite
    <2>1. BumpMutex'
      BY <1>18, <1>t DEF GxidInv, TypeOK, CkptWrite, BumpMutex, Bumping, Proc, NoProc, walVars, history
    <2>2. BumpProgress'
      BY <1>18, <1>t DEF GxidInv, TypeOK, CkptWrite, BumpMutex, BumpProgress, NewBatch, BatchEnd, Bumping, NoProc, Proc, walVars, history, NoCkpt, WalSafe, CkptSafe, ReplayedGxid, SafeStart, Kept
    <2>3. WalSafe'
      <3>1. flushed' = Len(wal) /\ UNCHANGED <<nextGxid, GxidCount, wal, assigned, lost>>
        BY <1>18 DEF CkptWrite, history
      <3>2. \A n \in Len(wal) .. Len(wal) : n \in flushed .. Len(wal)
        BY Lengths, SMT DEF GxidInv
      <3> QED BY <3>1, <3>2 DEF GxidInv, WalSafe, SafeStart, Kept, ReplayedGxid, BatchEnd
    <2>4. ControlSafe'
      <3>1. /\ flushed' = Len(wal) /\ UNCHANGED <<nextGxid, GxidCount, assigned, lost>>
            /\ control'.redo = ckpt.redo /\ control'.gxid = ckpt.gxid /\ ckpt.at = "gxid"
        BY <1>18 DEF CkptWrite, history
      <3>2. ckpt.redo <= Len(wal) + 1 /\ (Len(wal) < ckpt.redo => ckpt.redo = Len(wal) + 1)
        <4>1. ckpt.redo <= Len(wal) + 1
          BY <3>1 DEF GxidInv, CkptSafe
        <4> QED BY <4>1, Lengths, SMT DEF GxidInv
      <3>3. Len(wal) < ckpt.redo => SafeStart(ckpt.gxid)
        BY <3>1, <3>2 DEF GxidInv, CkptSafe
      <3> QED BY <3>1, <3>2, <3>3 DEF ControlSafe, SafeStart, Kept, BatchEnd
    <2>5. CkptSafe'
      BY <1>18, <1>t DEF GxidInv, TypeOK, CkptWrite, BumpMutex, BumpProgress, CkptSafe, SafeStart, Kept, BatchEnd, Bumping, NoProc, Proc, walVars, history, NoCkpt, WalSafe, CkptSafe, ReplayedGxid, SafeStart, Kept
    <2>6. AssignedBelow'
      BY <1>18 DEF GxidInv, TypeOK, AssignedBelow, Kept, history, CkptWrite
    <2>7. StandbySafe'
      BY <1>18, StandbyQuiet DEF GxidInv, CkptWrite, StandbyVars, walVars, history
    <2> QED BY <1>t, <2>1, <2>2, <2>3, <2>4, <2>5, <2>6, <2>7 DEF GxidInv
  <1>19. CASE Crash \/ (\E p \in Proc : BumpPanic(p))
    <2>1. PICK n \in flushed .. Len(wal) : CrashTo(n)
      <3>1. flushed \in flushed .. Len(wal)
        BY SMT DEF GxidInv, TypeOK
      <3> QED BY <1>19, <3>1 DEF Crash, BumpPanic
    <2>2. n \in synced .. Len(wal) /\ n \in Nat /\ wal \in Seq(Nat \ {0}) /\ n <= Len(wal)
      BY SMT DEF GxidInv, TypeOK
    <2>3. ASSUME NEW v, SafeStart(v) PROVE SafeStart(v)'
      BY <2>1, <2>3, SMT DEF CrashTo, CrashedProcesses, SafeStart, Kept, history
    <2>4. SafeStart(ReplayedGxid(n))'
      <3>1. SafeStart(ReplayedGxid(n))
        BY DEF GxidInv, WalSafe
      <3>2. ReplayedGxid(n)' = ReplayedGxid(n)
        BY <2>1, <2>2, SMT DEF CrashTo, ReplayedGxid
      <3>3. PICK v : v = ReplayedGxid(n)
        OBVIOUS
      <3> QED BY <2>3, <3>1, <3>2, <3>3 DEF SafeStart
    <2>5. ControlSafe'
      <3>1. control' = control /\ flushed' = n
        BY <2>1 DEF CrashTo
      <3>2. control.redo <= n + 1 /\ (n < control.redo => SafeStart(control.gxid))
        BY <2>2, SMT DEF GxidInv, TypeOK, ControlSafe
      <3>3. PICK v : v = control.gxid
        OBVIOUS
      <3> QED BY <2>3, <3>1, <3>2, <3>3 DEF ControlSafe, SafeStart
    <2>6. UNCHANGED <<nextGxid, synced, assigned, unwaited, lost>>
      BY <2>1 DEF CrashTo, history
    <2> QED BY <1>t, <2>1, <2>2, <2>4, <2>5, <2>6, CrashStep DEF CrashTo
  <1>20. CASE Promote
    <2>0. /\ CrashedProcesses /\ wal' = SubSeq(wal, 1, synced) /\ flushed' = synced
          /\ UNCHANGED <<nextGxid, synced, assigned, unwaited>>
          /\ control' = [redo |-> 1, gxid |-> FirstGxid]
          /\ lost' = lost \union {g \in assigned \intersect unwaited : g >= PromotedGxid}
      BY <1>20 DEF Promote
    <2>1. synced \in synced .. Len(wal) /\ synced \in Nat /\ wal \in Seq(Nat \ {0})
      BY SMT DEF GxidInv, TypeOK
    <2>2. PICK v \in Nat : v = PromotedGxid
      BY <2>1, SMT DEF GxidInv, TypeOK, PromotedGxid
    <2>3. SafeStart(v)'
      <3>1. ASSUME NEW g \in Kept' PROVE g < v
        <4>1. g \in assigned /\ g \in Kept /\ g \in Nat /\ (g \in unwaited => ~(g >= v))
          BY <2>0, <2>2, <3>1 DEF Kept, GxidInv, TypeOK
        <4>2. g < v \/ g \in unwaited
          BY <2>2, <4>1, RedoSafe DEF Covered
        <4> QED BY <4>1, <4>2, SMT
      <3>2. ~(GxidCount' > 0)
        BY <2>0, SMT DEF CrashedProcesses
      <3> QED BY <3>1, <3>2 DEF SafeStart
    <2>4. ReplayedGxid(synced)' = v
      BY <2>0, <2>1, <2>2, SMT DEF ReplayedGxid, PromotedGxid
    <2>5. SafeStart(ReplayedGxid(synced))'
      BY <2>3, <2>4 DEF SafeStart
    <2>6. ControlSafe'
      <3>1. synced < 1 => v = FirstGxid
        BY <2>1, <2>2, SMT DEF PromotedGxid
      <3>2. 1 <= synced + 1
        BY <2>1, SMT
      <3> QED BY <2>0, <2>3, <3>1, <3>2 DEF ControlSafe, SafeStart
    <2>7. lost \subseteq lost'
      BY <2>0
    <2> QED BY <1>t, <2>0, <2>1, <2>5, <2>6, <2>7, CrashStep
  <1>22. CASE StartupXLOG
    <2>1. Len(wal) \in flushed .. Len(wal)
      BY SMT DEF GxidInv, TypeOK
    <2>2. PICK g \in Nat \ {0} : g = RedoGxid(Len(wal)) /\ SafeStart(g)
      BY <2>1, RedoSafe
    <2>3. SafeStart(g)' /\ AssignedBelow'
      <3>0. nextGxid' = g /\ Kept' = Kept /\ GxidCount' = 0
        BY <1>22, <2>2 DEF StartupXLOG, Kept, history
      <3>1. nextGxid' = g /\ Kept' = Kept /\ ~(GxidCount' > 0)
        BY <3>0, SMT
      <3> QED BY <2>2, <3>1 DEF SafeStart, AssignedBelow
    <2>4. WalSafe' /\ StandbySafe' /\ ControlSafe'
      <3>1. /\ wal' = LogGxid(wal, g) /\ flushed' = Len(wal') /\ GxidCount' = 0 /\ nextGxid' \in Nat
            /\ UNCHANGED <<synced, assigned, unwaited, lost>>
            /\ control' = [redo |-> Len(wal') + 1, gxid |-> g]
        BY <1>22, <2>2 DEF StartupXLOG, history
      <3> QED BY <2>3, <3>1, LoggedSafe
    <2>6. bumpLock = NoProc /\ (\A p \in Proc : pc[p] \notin Bumping) /\ ckpt.at = "none"
      BY <1>22 DEF StartupXLOG, RedoQuiet
    <2>7. BumpMutex' /\ BumpProgress' /\ CkptSafe'
      BY <1>22, <2>6 DEF StartupXLOG, BumpMutex, BumpProgress, CkptSafe
    <2> QED BY <1>t, <2>3, <2>4, <2>7 DEF GxidInv
  <1>23. CASE Shutdown
    <2>1. PICK g \in Nat \ {0} : g = nextGxid
      BY DEF GxidInv, TypeOK
    <2>2. SafeStart(g)' /\ AssignedBelow'
      <3>0. nextGxid' = g /\ Kept' = Kept /\ GxidCount' = 0
        BY <1>23, <2>1 DEF Shutdown, Kept, history
      <3>1. nextGxid' = g /\ Kept' = Kept /\ ~(GxidCount' > 0)
        BY <3>0, SMT
      <3> QED BY <2>1, <3>1 DEF GxidInv, SafeStart, AssignedBelow
    <2>3. WalSafe' /\ StandbySafe' /\ ControlSafe'
      <3>1. /\ wal' = LogGxid(wal, g) /\ flushed' = Len(wal') /\ GxidCount' = 0 /\ nextGxid' \in Nat
            /\ UNCHANGED <<synced, assigned, unwaited, lost>>
            /\ control' = [redo |-> Len(wal') + 1, gxid |-> g]
        BY <1>23, <2>1 DEF Shutdown, history
      <3> QED BY <2>2, <3>1, LoggedSafe
    <2>5. bumpLock = NoProc /\ (\A p \in Proc : pc'[p] \notin Bumping) /\ ckpt.at = "none"
      BY <1>23 DEF Shutdown, GxidInv, TypeOK, BumpMutex, Bumping, Proc, NoProc
    <2>6. BumpMutex' /\ BumpProgress' /\ CkptSafe'
      BY <1>23, <2>5 DEF Shutdown, BumpMutex, BumpProgress, CkptSafe
    <2> QED BY <1>t, <2>2, <2>3, <2>6 DEF GxidInv
  <1>24. CASE UNCHANGED vars
    <2>1. BumpMutex' /\ BumpProgress' /\ AssignedBelow'
      BY <1>24 DEF vars, GxidInv, BumpMutex, BumpProgress, AssignedBelow, Kept, NewBatch, BatchEnd
    <2>2. WalSafe'
      BY <1>24 DEF vars, GxidInv, WalSafe, SafeStart, Kept, ReplayedGxid, BatchEnd
    <2>3. ControlSafe' /\ CkptSafe'
      BY <1>24 DEF vars, GxidInv, ControlSafe, CkptSafe, SafeStart, Kept, BatchEnd
    <2>4. StandbySafe'
      BY <1>24, StandbyQuiet DEF vars, GxidInv, StandbyVars
    <2> QED BY <1>t, <2>1, <2>2, <2>3, <2>4 DEF GxidInv
  <1> QED
    BY <1>1, <1>2, <1>3, <1>4, <1>5, <1>6, <1>7, <1>8, <1>9, <1>10, <1>11, <1>12, <1>13,
       <1>14, <1>15, <1>16, <1>17, <1>18, <1>19, <1>20, <1>22, <1>23, <1>24 DEF Next

-----------------------------------------------------------------------------

\* The invariant of the allocator, and that redo starts from what a crash left,
\* hold in every state.
LEMMA Invariance == Spec => [](GxidInv /\ RedoQuiet)
  <1>1. Init => GxidInv /\ RedoQuiet
    BY InitInv DEF Init, RedoQuiet
  <1>2. GxidInv /\ RedoQuiet /\ [Next]_vars => (GxidInv /\ RedoQuiet)'
    BY NextInv, RedoQuietStep
  <1> QED BY <1>1, <1>2, PTL DEF Spec

\* The variables keep their types whatever currentDtxActivate, bumpGxid,
\* CreateCheckPoint, a crash or a promotion do.
THEOREM TypeCorrect == Spec => []TypeOK
  <1>1. GxidInv => TypeOK
    BY DEF GxidInv
  <1> QED BY Invariance, <1>1, PTL

\* For every number of backends, every prefetch size and every gxid range:
\* wherever a crash cuts WAL, redo resumes above all gxids handed out that no
\* promotion has lost, and a promoted standby above those it had confirmed.
THEOREM RestartSafe == Spec => []RestartAboveAssigned
  <1>1. GxidInv => RestartAboveAssigned
    <2> SUFFICES ASSUME GxidInv PROVE RestartAboveAssigned
      OBVIOUS
    <2>1. \A g \in assigned \ lost, n \in flushed .. Len(wal) : g < RedoGxid(n)
      BY RedoSafe DEF SafeStart, Kept
    <2>2. \A g \in assigned \ (lost \union unwaited) : g < PromotedGxid
      BY RedoSafe DEF Covered, Kept
    <2> QED BY <2>1, <2>2 DEF RestartAboveAssigned
  <1> QED BY Invariance, <1>1, PTL

\* No step of currentDtxActivate hands out for the second time a gxid that a
\* promoted standby had confirmed, or that no promotion has come after.
THEOREM GxidsUnique == Spec => NoGxidReuse
  <1> DEFINE Fresh == \A b \in Backend :
                gxid'[b] \notin {gxid[b], InvalidGxid} => gxid'[b] \notin assigned \ lost
  <1>1. GxidInv /\ [Next]_vars => [Fresh]_vars
    <2> SUFFICES ASSUME GxidInv, Next PROVE Fresh
      OBVIOUS
    <2>0. gxid \in [Backend -> Nat] /\ nextGxid \in Nat /\ \A g \in assigned \ lost : g < nextGxid
      BY DEF GxidInv, TypeOK, AssignedBelow, Kept
    <2>1. ASSUME NEW b \in Backend, ActivateAlloc(b) PROVE Fresh
      <3>1. nextGxid \notin assigned \ lost
        BY <2>0, SMT
      <3>2. gxid' = [gxid EXCEPT ![b] = nextGxid]
        BY <2>1 DEF ActivateAlloc
      <3> QED BY <2>0, <3>1, <3>2
    <2>2. ASSUME NEW b \in Backend, FinishGxact(b) PROVE Fresh
      BY <2>0, <2>2 DEF FinishGxact
    <2>3. CASE CrashedProcesses
      BY <2>3 DEF CrashedProcesses
    <2>4. CASE gxid' = gxid
      BY <2>4
    <2> QED
      BY <2>1, <2>2, <2>3, <2>4 DEF Next, ActivateStart, ActivateBump, RecoveryBump,
         RecoveryResetEvent, BumpWait, BumpWaited, BumpNotNeeded, BumpLimit, BumpInsert,
         BumpFlush, BumpSynced, BumpUnsynced, BumpCount, BumpPanic, StandbyReceive, CkptRedo, CkptGxid,
         CkptWrite, Crash, CrashTo, StartupXLOG, Shutdown, Promote
  <1> QED BY Invariance, <1>1, PTL DEF Spec, NoGxidReuse
=============================================================================
