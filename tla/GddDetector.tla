----------------------------- MODULE GddDetector -----------------------------
(***************************************************************************)
(* The global deadlock detector beside the transactions it watches.  It    *)
(* collects the wait graph segment by segment while transactions go on to  *)
(* wait, release, end and abort, drops the edges of transactions the QD no *)
(* longer knows, reduces the rest and cancels a victim per deadlock.       *)
(***************************************************************************)
EXTENDS GddGraph

CONSTANTS
    QD,             \* the coordinator's own local graph
    MaxWaits,       \* bound: waits at one time
    MaxUpgrades     \* bound: upgrades among them

ASSUME QDAssumption == QD \in Seg
ASSUME MaxWaitsAssumption == MaxWaits \in Nat /\ MaxUpgrades \in Nat
ASSUME VidFiniteAssumption == IsFiniteSet(Vid)   \* the proc array is bounded

VARIABLES
    alive,      \* transactions with a gxid in the QD's proc array
    waits,      \* who really waits for whose lock
    upgrading,  \* <<v, s>>: v holds another mode of the lock it waits for on s
    signalled,  \* transactions with the detector's query cancel pending
    pc,         \* where the detector's round is
    pending,    \* segments whose graph it has still to receive
    collected,  \* edges received so far
    core,       \* what GddCtxReduce() has left
    left,       \* what GddCtxBreakDeadLock() has left of it
    victims,    \* gxids still to cancel
    rolledBack  \* history: a savepoint was rolled back to in this round

sysVars == <<alive, waits, upgrading, signalled>>
vars == <<alive, waits, upgrading, signalled, pc, pending, collected, core, left, victims, rolledBack>>

Init ==
    /\ alive = Vid
    /\ waits = {}
    /\ upgrading = {}
    /\ signalled = {}
    /\ pc = "collect"
    /\ pending = Seg \ {QD}
    /\ collected = {}
    /\ core = {}
    /\ left = {}
    /\ victims = {}
    /\ rolledBack = FALSE

-----------------------------------------------------------------------------
(* Transactions and their locks *)

WaitsOn(v, s) == LocalOut(waits, s, v) # {}
Waits(v) == GlobalOut(waits, v) # {}

\* What is left of upgrading when the waits are w.
StillUpgrading(w) == {p \in upgrading : LocalOut(w, p[2], p[1]) # {}}

\* v asks on segment s for a lock that all of H hold; it may have the lock in a
\* weaker mode already.
Wait(v, s, solid, upgrade) ==
    /\ v \in alive \ signalled
    /\ ~WaitsOn(v, s)
    /\ Cardinality(waits) < MaxWaits
    /\ upgrade => Cardinality(upgrading) < MaxUpgrades
    /\ \E H \in SUBSET (alive \ {v}) :
          /\ Cardinality(H) \in 1 .. MaxWaits - Cardinality(waits)
          /\ waits' = waits \union [seg : {s}, from : {v}, to : H, solid : {solid}]
    /\ upgrading' = upgrading \union {p \in {<<v, s>>} : upgrade}
    /\ UNCHANGED <<alive, signalled, pc, pending, collected, core, left, victims, rolledBack>>

\* A lock that is not kept to the end of the transaction is released as the
\* holder's statement goes on: on a segment once the holder waits for nothing
\* there, on the QD, which has dispatched the statement, nowhere.
MovesOn(u, s) == u \in alive /\ IF s = QD THEN ~Waits(u) ELSE ~WaitsOn(u, s)

ReleaseDotted(e) ==
    /\ e \in waits
    /\ ~e.solid
    /\ MovesOn(e.to, e.seg)
    /\ waits' = waits \ {e}
    /\ upgrading' = StillUpgrading(waits')
    /\ UNCHANGED <<alive, signalled, pc, pending, collected, core, left, victims, rolledBack>>

\* A transaction that waits for nothing ends; its locks go.
End(v) ==
    /\ v \in alive
    /\ ~Waits(v)
    /\ alive' = alive \ {v}
    /\ signalled' = signalled \ {v}
    /\ waits' = RemoveVid(waits, v)
    /\ upgrading' = StillUpgrading(waits')
    /\ UNCHANGED <<pc, pending, collected, core, left, victims, rolledBack>>

\* The xid lock of a subtransaction goes with ROLLBACK TO SAVEPOINT.
RollbackToSavepoint(e) ==
    /\ e \in waits
    /\ e.solid
    /\ e.to \in alive /\ ~Waits(e.to)
    /\ waits' = waits \ {e}
    /\ upgrading' = StillUpgrading(waits')
    /\ rolledBack' = TRUE
    /\ UNCHANGED <<alive, signalled, pc, pending, collected, core, left, victims>>

\* A transaction aborts: its user cancels it, it fails, or the detector's
\* signal is served.
Abort(v) ==
    /\ v \in alive
    /\ alive' = alive \ {v}
    /\ signalled' = signalled \ {v}
    /\ waits' = RemoveVid(waits, v)
    /\ upgrading' = StillUpgrading(waits')
    /\ UNCHANGED <<pc, pending, collected, core, left, victims, rolledBack>>

-----------------------------------------------------------------------------
(* The detector: rounds of doDeadLockCheck() *)

\* The waits gp_dist_wait_status() has a row for: isGranted() skips a waiter
\* that holds any mode of the lock.
Reported(G) == {e \in G : <<e.from, e.seg>> \notin upgrading}

\* gp_dist_wait_status() on a segment.  The edges are one picture of its lock
\* table, GetLockStatusData() holds all its partitions.
CollectSegment(s) ==
    /\ pc = "collect"
    /\ s \in pending
    /\ pending' = pending \ {s}
    /\ collected' = collected \union {e \in Reported(waits) : e.seg = s}
    /\ UNCHANGED <<sysVars, pc, core, left, victims, rolledBack>>

\* The QD's own edges come last.
CollectQD ==
    /\ pc = "collect"
    /\ pending = {}
    /\ collected' = collected \union {e \in Reported(waits) : e.seg = QD}
    /\ pc' = "build"
    /\ UNCHANGED <<sysVars, pending, core, left, victims, rolledBack>>

\* ListAllGxid() and IsValidGxid()
KnownGxids(G) == {e \in G : e.from \in alive /\ e.to \in alive}

BuildUnchecked ==
    /\ pc = "build"
    /\ core' = Core(collected)
    /\ left' = core'
    /\ pc' = IF core' = {} THEN "collect" ELSE "break"
    /\ pending' = Seg \ {QD}
    /\ collected' = {}
    /\ rolledBack' = FALSE
    /\ UNCHANGED <<sysVars, victims>>

\* The end of buildWaitGraph(), from ListAllGxid() on, and GddCtxReduce().
BuildWaitGraph ==
    /\ pc = "build"
    /\ core' = Core(KnownGxids(collected))
    /\ left' = core'
    /\ pc' = IF core' = {} THEN "collect" ELSE "break"
    /\ pending' = Seg \ {QD}
    /\ collected' = {}
    /\ rolledBack' = FALSE
    /\ UNCHANGED <<sysVars, victims>>

\* One round of GddCtxBreakDeadLock(): the youngest goes, the rest is reduced.
BreakDeadLock ==
    /\ pc = "break"
    /\ victims' = victims \union {MaxVid(left)}
    /\ left' = Core(RemoveVid(left, MaxVid(left)))
    /\ pc' = IF left' = {} THEN "cancel" ELSE "break"
    /\ UNCHANGED <<sysVars, pending, collected, core, rolledBack>>

CancelVictimBlind(v) ==
    /\ pc = "cancel"
    /\ v \in victims
    /\ victims' = victims \ {v}
    /\ signalled' = signalled \union {v}
    /\ UNCHANGED <<alive, waits, upgrading, pc, pending, collected, core, left, rolledBack>>

CancelVictimSkips(v) ==
    /\ pc = "cancel"
    /\ v \in victims
    /\ victims' = victims \ {v}
    /\ UNCHANGED <<alive, waits, upgrading, signalled, pc, pending, collected, core, left, rolledBack>>

\* breakDeadLock(): the pid of the victim, if it is still there, is signalled.
CancelVictim(v) ==
    /\ pc = "cancel"
    /\ v \in victims
    /\ victims' = victims \ {v}
    /\ signalled' = signalled \union ({v} \intersect alive)
    /\ UNCHANGED <<alive, waits, upgrading, pc, pending, collected, core, left, rolledBack>>

EndRound ==
    /\ pc = "cancel"
    /\ victims = {}
    /\ pc' = "collect"
    /\ core' = {}
    /\ rolledBack' = FALSE
    /\ UNCHANGED <<sysVars, pending, collected, left, victims>>

-----------------------------------------------------------------------------

Detector ==
    \/ \E s \in Seg : CollectSegment(s)
    \/ CollectQD
    \/ BuildWaitGraph
    \/ BreakDeadLock
    \/ \E v \in Vid : CancelVictim(v)
    \/ EndRound

Next ==
    \/ \E v \in Vid, s \in Seg, solid, upgrade \in BOOLEAN : Wait(v, s, solid, upgrade)
    \/ \E e \in waits : ReleaseDotted(e) \/ RollbackToSavepoint(e)
    \/ \E v \in Vid : End(v) \/ Abort(v)
    \/ Detector

Spec == Init /\ [][Next]_vars

\* The detector's rounds go on, and a backend serves its interrupts.
Fairness == WF_vars(Detector) /\ \A v \in Vid : WF_vars(v \in signalled /\ Abort(v))
FairSpec == Spec /\ Fairness

-----------------------------------------------------------------------------
(* Properties *)

\* The variables keep their types, and only live transactions wait or are
\* waited for.
TypeOK ==
    /\ alive \subseteq Vid
    /\ waits \subseteq Edge
    /\ upgrading \subseteq {<<e.from, e.seg>> : e \in waits}
    /\ signalled \subseteq alive
    /\ pc \in {"collect", "build", "break", "cancel"}
    /\ pending \subseteq Seg
    /\ collected \subseteq Edge
    /\ core \subseteq Edge /\ left \subseteq core
    /\ victims \subseteq Verts(core)
    /\ rolledBack \in BOOLEAN
    /\ Verts(waits) \subseteq alive

\* When the detector reports a deadlock (doDeadLockCheck() with edges left
\* after GddCtxReduce()), its transactions do wait for each other at that
\* moment, although each segment was looked at at a time of its own; unless
\* somebody has rolled back to a savepoint meanwhile.
NoFalseAlarm == [][core = {} /\ ~rolledBack => core' \subseteq Deadlocked(waits)]_vars

\* No deadlock that gp_dist_wait_status() reports all the waits of lasts: while
\* there is one, rounds of doDeadLockCheck() find it and cancel a transaction of
\* it.  One that needs the upgrade of a lock is not reported, and one that needs
\* a dotted edge on the QD whose holder is blocked on a segment only is reduced
\* away by gddVertReduce(): those last until a user or a timeout ends them.
DeadlockIsBroken == []<>(Deadlocked(Reported(waits)) = {})

=============================================================================
