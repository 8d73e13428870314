------------------------- MODULE GddDetectorProofs -------------------------
(***************************************************************************)
(* The detector raises no false alarm, for any number of transactions and  *)
(* segments, in a round in which nobody rolls back to a savepoint.         *)
(***************************************************************************)
EXTENDS GddDetector, FiniteSetTheorems, TLAPS

USE Zenon

\* In a graph that gddVertReduce() cannot make smaller every wait is for a
\* transaction that waits itself.
LEMMA IrreducibleWaits ==
    ASSUME NEW H, H \subseteq Edge, Irreducible(H), NEW e \in H
    PROVE  GlobalOut(H, e.to) # {}
<1>1. e.seg \in Seg /\ e.to \in Vid
  BY DEF Edge
<1>2. VertReduce(H, e.seg, e.to) = H
  BY <1>1 DEF Irreducible
<1>3. e \in LocalIn(H, e.seg, e.to)
  BY DEF LocalIn
<1>4. QED
  BY <1>2, <1>3 DEF VertReduce

\* ... and a wait for a dotted lock is for one that waits on that segment.
LEMMA IrreducibleDotted ==
    ASSUME NEW H, H \subseteq Edge, Irreducible(H), NEW e \in H, ~e.solid
    PROVE  LocalOut(H, e.seg, e.to) # {}
<1>1. e.seg \in Seg /\ e.to \in Vid
  BY DEF Edge
<1>2. VertReduce(H, e.seg, e.to) = H
  BY <1>1 DEF Irreducible
<1>3. e \in LocalIn(H, e.seg, e.to)
  BY DEF LocalIn
<1>4. GlobalIn(H, e.to) # {}
  BY DEF GlobalIn
<1>5. GlobalOut(H, e.to) # {}
  BY IrreducibleWaits
<1>6. SUFFICES ASSUME LocalOut(H, e.seg, e.to) = {} PROVE FALSE
  OBVIOUS
<1>7. VertReduce(H, e.seg, e.to) = H \ {f \in LocalIn(H, e.seg, e.to) : ~f.solid}
  BY <1>4, <1>5, <1>6 DEF VertReduce
<1>8. QED
  BY <1>2, <1>3, <1>7

\* What gddVertReduce() cannot make smaller is a deadlock.
LEMMA IrreducibleSelfBlocking ==
    ASSUME NEW H, H \subseteq Edge, Irreducible(H)
    PROVE  SelfBlocking(H)
<1> SUFFICES ASSUME NEW e \in H
             PROVE  \E f \in H : f.from = e.to /\ (e.solid \/ f.seg = e.seg)
  BY DEF SelfBlocking
<1>1. CASE e.solid
  <2>1. PICK f \in H : f.from = e.to
    BY IrreducibleWaits DEF GlobalOut
  <2>2. QED
    BY <1>1, <2>1
<1>2. CASE ~e.solid
  <2>1. LocalOut(H, e.seg, e.to) # {}
    BY <1>2, IrreducibleDotted
  <2>2. PICK f \in H : f.from = e.to /\ f.seg = e.seg
    BY <2>1 DEF LocalOut
  <2>3. QED
    BY <2>2
<1>3. QED
  BY <1>1, <1>2

\* Every dotted edge of H is for a transaction that waits, in H, on the same
\* segment.
Held(H) == \A e \in H : ~e.solid => LocalOut(H, e.seg, e.to) # {}

\* The inductive invariant: such a set of collected edges, all of whose
\* transactions are alive, is still there.  It is what an irreducible graph
\* is made of, and none of its waits can be the first to end.
DetectorInv ==
    /\ alive \subseteq Vid
    /\ waits \subseteq Edge
    /\ collected \subseteq Edge
    /\ QD \notin pending
    /\ pc = "collect" => \A e \in collected : e.seg \notin pending /\ e.seg # QD
    /\ pc \in {"break", "cancel"} => collected = {}
    /\ ~rolledBack => \A H \in SUBSET KnownGxids(collected) : Held(H) => H \subseteq waits

LEMMA DetectorInit == Init => DetectorInv
BY DEF Init, DetectorInv, KnownGxids

\* A step that adds no collected edge and no live transaction, and ends no
\* wait of a held set.
LEMMA KeepsHeld ==
    ASSUME DetectorInv, UNCHANGED <<pc, pending, collected, rolledBack>>, alive' \subseteq alive,
           waits' \subseteq Edge,
           \A H \in SUBSET KnownGxids(collected)' :
               (Held(H) /\ H \subseteq waits) => H \subseteq waits'
    PROVE  DetectorInv'
<1>1. KnownGxids(collected)' \subseteq KnownGxids(collected)
  BY DEF KnownGxids
<1>2. QED
  BY <1>1 DEF DetectorInv

LEMMA DetectorStep == DetectorInv /\ [Next]_vars => DetectorInv'
<1> SUFFICES ASSUME DetectorInv, [Next]_vars PROVE DetectorInv'
  OBVIOUS
<1>1. ASSUME NEW v \in Vid, NEW s \in Seg, NEW solid \in BOOLEAN, NEW upgrade \in BOOLEAN,
             Wait(v, s, solid, upgrade)
      PROVE  DetectorInv'
  <2>1. PICK H \in SUBSET (alive \ {v}) :
           waits' = waits \union [seg : {s}, from : {v}, to : H, solid : {solid}]
    BY <1>1 DEF Wait
  <2>2. UNCHANGED <<pc, pending, collected, rolledBack>> /\ alive' = alive /\ waits \subseteq waits'
    BY <1>1, <2>1 DEF Wait
  <2>3. waits' \subseteq Edge
    <3>1. [seg : {s}, from : {v}, to : H, solid : {solid}] \subseteq Edge
      BY SMT DEF DetectorInv, Edge
    <3>2. QED
      BY <2>1, <3>1 DEF DetectorInv
  <2>4. QED
    BY <2>2, <2>3, KeepsHeld
<1>2. ASSUME NEW e \in waits, ReleaseDotted(e) PROVE DetectorInv'
  <2>1. /\ UNCHANGED <<pc, pending, collected, rolledBack>> /\ alive' = alive /\ waits' = waits \ {e}
        /\ ~e.solid /\ MovesOn(e.to, e.seg)
    BY <1>2 DEF ReleaseDotted
  <2>2. LocalOut(waits, e.seg, e.to) = {}
    BY <2>1 DEF MovesOn, Waits, WaitsOn, GlobalOut, LocalOut
  <2>3. ASSUME NEW H, Held(H), H \subseteq waits PROVE e \notin H
    BY <2>1, <2>2, <2>3 DEF Held, LocalOut
  <2>4. waits' \subseteq Edge
    BY <2>1 DEF DetectorInv
  <2>5. QED
    BY <2>1, <2>3, <2>4, KeepsHeld
<1>3. ASSUME NEW e \in waits, RollbackToSavepoint(e) PROVE DetectorInv'
  <2>1. UNCHANGED <<alive, pc, pending, collected>> /\ waits' \subseteq waits /\ rolledBack'
    BY <1>3 DEF RollbackToSavepoint
  <2>2. QED
    BY <2>1 DEF DetectorInv
<1>4. ASSUME NEW v \in Vid, End(v) \/ Abort(v) PROVE DetectorInv'
  <2>1. /\ UNCHANGED <<pc, pending, collected, rolledBack>>
        /\ alive' = alive \ {v} /\ waits' = RemoveVid(waits, v)
    BY <1>4 DEF End, Abort
  <2>2. ASSUME NEW H \in SUBSET KnownGxids(collected)', H \subseteq waits PROVE H \subseteq waits'
    BY <2>1, <2>2 DEF KnownGxids, RemoveVid, GlobalIn, GlobalOut
  <2>3. waits' \subseteq Edge /\ alive' \subseteq alive
    BY <2>1 DEF DetectorInv, RemoveVid
  <2>4. QED
    BY <2>1, <2>2, <2>3, KeepsHeld
<1>5. ASSUME NEW s \in Seg, collected' = collected \union {e \in Reported(waits) : e.seg = s},
             \A e \in collected : e.seg # s, UNCHANGED sysVars, ~rolledBack
      PROVE  \A H \in SUBSET KnownGxids(collected)' : Held(H) => H \subseteq waits'
  <2>1. waits' = waits /\ alive' = alive
    BY <1>5 DEF sysVars
  <2>2. SUFFICES ASSUME NEW H \in SUBSET KnownGxids(collected)', Held(H) PROVE H \subseteq waits
    BY <2>1
  <2> DEFINE old == {e \in H : e.seg # s}
  <2>3. old \in SUBSET KnownGxids(collected)
    BY <1>5, <2>1, <2>2 DEF KnownGxids
  <2>4. Held(old)
    BY <2>2 DEF Held, LocalOut
  <2>5. old \subseteq waits
    BY <1>5, <2>3, <2>4 DEF DetectorInv
  <2>6. ASSUME NEW e \in H, e.seg = s PROVE e \in waits
    BY <1>5, <2>1, <2>6 DEF KnownGxids, Reported
  <2>7. QED
    BY <2>5, <2>6
<1>6. ASSUME NEW s \in Seg, CollectSegment(s) PROVE DetectorInv'
  <2>1. /\ pc = "collect" /\ pc' = pc /\ s \in pending /\ pending' = pending \ {s}
        /\ collected' = collected \union {e \in Reported(waits) : e.seg = s}
        /\ UNCHANGED sysVars /\ rolledBack' = rolledBack
    BY <1>6 DEF CollectSegment
  <2>2. \A e \in collected : e.seg # s
    BY <2>1 DEF DetectorInv
  <2>3. ~rolledBack => \A H \in SUBSET KnownGxids(collected)' : Held(H) => H \subseteq waits'
    BY <1>5, <2>1, <2>2
  <2>4. s # QD
    BY <2>1 DEF DetectorInv
  <2>5. \A e \in collected' : e.seg \notin pending' /\ e.seg # QD
    BY <2>1, <2>4 DEF DetectorInv, Reported
  <2>6. alive' \subseteq Vid /\ waits' \subseteq Edge /\ collected' \subseteq Edge
    BY <2>1 DEF DetectorInv, Reported, sysVars
  <2>7. QD \notin pending' /\ pc' # "cancel"
    BY <2>1 DEF DetectorInv
  <2>8. QED
    BY <2>1, <2>3, <2>5, <2>6, <2>7 DEF DetectorInv
<1>7. CASE CollectQD
  <2>1. /\ pc = "collect" /\ pc' = "build"
        /\ collected' = collected \union {e \in Reported(waits) : e.seg = QD}
        /\ UNCHANGED sysVars /\ rolledBack' = rolledBack
    BY <1>7 DEF CollectQD
  <2>2. \A e \in collected : e.seg # QD
    BY <2>1 DEF DetectorInv
  <2>3. ~rolledBack => \A H \in SUBSET KnownGxids(collected)' : Held(H) => H \subseteq waits'
    BY <1>5, <2>1, <2>2, QDAssumption
  <2>4. alive' \subseteq Vid /\ waits' \subseteq Edge /\ collected' \subseteq Edge
    BY <2>1 DEF DetectorInv, Reported, sysVars
  <2>5. pc' # "collect" /\ pc' # "cancel" /\ QD \notin pending'
    BY <1>7, <2>1 DEF DetectorInv, CollectQD
  <2>6. QED
    BY <2>1, <2>3, <2>4, <2>5 DEF DetectorInv
<1>8. CASE BuildWaitGraph
  <2>1. collected' = {} /\ UNCHANGED sysVars /\ pending' = Seg \ {QD}
    BY <1>8 DEF BuildWaitGraph
  <2>2. QED
    BY <2>1 DEF DetectorInv, KnownGxids, sysVars
<1>9. ASSUME BreakDeadLock \/ \E v \in Vid : CancelVictim(v) PROVE DetectorInv'
  <2>1. CASE BreakDeadLock
    <3>1. pc = "break" /\ pc' \in {"break", "cancel"} /\ UNCHANGED <<sysVars, pending, collected, rolledBack>>
      BY <2>1 DEF BreakDeadLock
    <3>2. QED
      BY <3>1 DEF DetectorInv, KnownGxids, sysVars
  <2>2. ASSUME NEW v \in Vid, CancelVictim(v) PROVE DetectorInv'
    BY <2>2, KeepsHeld DEF CancelVictim, DetectorInv
  <2>3. QED
    BY <1>9, <2>1, <2>2
<1>10. CASE EndRound
  <2>1. pc = "cancel" /\ pc' = "collect" /\ UNCHANGED <<sysVars, pending, collected>>
    BY <1>10 DEF EndRound
  <2>2. QED
    BY <2>1 DEF DetectorInv, KnownGxids, sysVars
<1>11. CASE UNCHANGED vars
  BY <1>11, KeepsHeld DEF vars, DetectorInv
<1>12. QED
  BY <1>1, <1>2, <1>3, <1>4, <1>6, <1>7, <1>8, <1>9, <1>10, <1>11 DEF Next, Detector

\* A graph with edges has a youngest transaction: it has finitely many, and one
\* with the fewest younger ones has none.
LEMMA MaxVidInGraph ==
    ASSUME NEW G \in SUBSET Edge, G # {} PROVE MaxVid(G) \in Verts(G)
<1> DEFINE V == Verts(G)
           Younger(v) == {u \in V : u > v}
           T == {Younger(v) : v \in V}
<1>1. V \in SUBSET Vid /\ V # {}
  BY DEF Verts, Edge
<1>2. IsFiniteSet(V)
  BY <1>1, VidFiniteAssumption, FS_Subset
<1> HIDE DEF V
<1>3. T \subseteq FiniteSubsetsOf(V) /\ T # {}
  <2>1. FiniteSubsetsOf(V) = SUBSET V
    BY <1>2, FS_FiniteSubsetsOfFinite
  <2>2. \A v \in V : Younger(v) \in SUBSET V
    OBVIOUS
  <2>3. T # {}
    BY <1>1
  <2> HIDE DEF Younger
  <2>4. T \subseteq SUBSET V
    BY <2>2
  <2>5. QED
    BY <2>1, <2>3, <2>4
<1>4. IsWellFoundedOn(StrictSubsetOrdering(V), FiniteSubsetsOf(V))
  BY FS_StrictSubsetOrderingWellFounded
<1>5. PICK Y \in T : \A X \in T : <<X, Y>> \notin StrictSubsetOrdering(V)
  <2> HIDE DEF T
  <2>1. QED
    BY <1>3, <1>4, WFMin
<1>6. PICK v \in V : Y = Younger(v)
  BY <1>5
<1>7. ASSUME NEW u \in V, u > v PROVE FALSE
  <2>1. u \in Nat /\ v \in Nat /\ \A w \in V : w \in Nat
    BY <1>1, VidAssumption
  <2>2. Younger(u) \in SUBSET V /\ Younger(v) \in SUBSET V
    OBVIOUS
  <2>3. Younger(u) \subseteq Younger(v)
    <3> SUFFICES ASSUME NEW w \in V, w > u PROVE w > v
      OBVIOUS
    <3>1. QED
      BY <1>7, <2>1, SMT
  <2>4. u \in Younger(v) /\ u \notin Younger(u)
    BY <1>7, <2>1, SMT
  <2>5. <<Younger(u), Younger(v)>> \notin StrictSubsetOrdering(V)
    BY <1>5, <1>6
  <2> HIDE DEF Younger
  <2>6. QED
    BY <2>2, <2>3, <2>4, <2>5, SMT DEF StrictSubsetOrdering
<1>8. \A u \in V : u <= v
  <2>1. \A u \in V : u \in Nat
    BY <1>1, VidAssumption
  <2>2. QED
    BY <1>6, <1>7, <2>1, SMT
<1>9. QED
  BY <1>6, <1>8 DEF MaxVid, V

\* An upgrade ends with the wait it is for.
LEMMA StillUpgradingWaits ==
    ASSUME NEW w, upgrading \subseteq {<<e.from, e.seg>> : e \in waits},
           upgrading' = StillUpgrading(w)
    PROVE  upgrading' \subseteq {<<e.from, e.seg>> : e \in w}
<1> SUFFICES ASSUME NEW p \in upgrading' PROVE \E e \in w : p = <<e.from, e.seg>>
  OBVIOUS
<1>1. p \in upgrading /\ LocalOut(w, p[2], p[1]) # {}
  BY DEF StillUpgrading
<1>2. PICK f \in waits : p = <<f.from, f.seg>>
  BY <1>1
<1>3. PICK e \in w : e.from = p[1] /\ e.seg = p[2]
  BY <1>1 DEF LocalOut
<1>4. QED
  BY <1>2, <1>3

\* The strengthening of TypeOK: what GddCtxBreakDeadLock() has left is empty
\* but for its rounds, and there are no victims while the edges are collected.
RoundInv ==
    /\ TypeOK
    /\ pc = "break" <=> left # {}
    /\ pc \in {"collect", "build"} => victims = {}

LEMMA RoundStep == RoundInv /\ [Next]_vars => RoundInv'
<1> SUFFICES ASSUME RoundInv, [Next]_vars PROVE RoundInv'
  OBVIOUS
<1>1. ASSUME NEW v \in Vid, NEW s \in Seg, NEW solid \in BOOLEAN, NEW upgrade \in BOOLEAN,
             Wait(v, s, solid, upgrade)
      PROVE  RoundInv'
  <2>1. PICK H \in SUBSET (alive \ {v}) :
           /\ Cardinality(H) \in 1 .. MaxWaits - Cardinality(waits)
           /\ waits' = waits \union [seg : {s}, from : {v}, to : H, solid : {solid}]
    BY <1>1 DEF Wait
  <2>2. /\ UNCHANGED <<alive, signalled, pc, pending, collected, core, left, victims, rolledBack>>
        /\ v \in alive
    BY <1>1 DEF Wait
  <2>3. /\ [seg : {s}, from : {v}, to : H, solid : {solid}] \subseteq Edge
        /\ \A e \in [seg : {s}, from : {v}, to : H, solid : {solid}] : e.from \in alive /\ e.to \in alive
    BY <2>2, SMT DEF RoundInv, TypeOK, Edge
  <2>4. waits' \subseteq Edge
    BY <2>1, <2>3 DEF RoundInv, TypeOK
  <2>5. \A e \in waits' : e.from \in alive /\ e.to \in alive
    BY <2>1, <2>3 DEF RoundInv, TypeOK, Verts
  <2>6. Verts(waits') \subseteq alive
    BY <2>5 DEF Verts
  <2>7. upgrading' \subseteq {<<e.from, e.seg>> : e \in waits'}
    <3>1. PICK h \in H : TRUE
      <4>1. H # {}
        <5>1. 0 \notin 1 .. MaxWaits - Cardinality(waits)
          BY SMT
        <5>2. QED
          BY <2>1, <5>1, FS_EmptySet
      <4>2. QED
        BY <4>1
    <3>2. [seg |-> s, from |-> v, to |-> h, solid |-> solid] \in waits'
      BY <2>1
    <3>3. <<v, s>> \in {<<e.from, e.seg>> : e \in waits'}
      <4> DEFINE f == [seg |-> s, from |-> v, to |-> h, solid |-> solid]
      <4>1. f.from = v /\ f.seg = s
        OBVIOUS
      <4> HIDE DEF f
      <4>2. QED
        BY <3>2, <4>1 DEF f
    <3>4. upgrading' \subseteq upgrading \union {<<v, s>>} /\ waits \subseteq waits'
      BY <1>1, <2>1 DEF Wait
    <3>5. QED
      BY <3>3, <3>4 DEF RoundInv, TypeOK
  <2>8. QED
    BY <2>2, <2>4, <2>6, <2>7 DEF RoundInv, TypeOK
<1>2. ASSUME NEW e \in waits, ReleaseDotted(e) \/ RollbackToSavepoint(e) PROVE RoundInv'
  <2>1. /\ UNCHANGED <<alive, signalled, pc, pending, collected, core, left, victims>>
        /\ waits' \subseteq waits /\ rolledBack' \in BOOLEAN /\ upgrading' = StillUpgrading(waits')
    BY <1>2 DEF ReleaseDotted, RollbackToSavepoint, RoundInv, TypeOK
  <2>2. Verts(waits') \subseteq Verts(waits)
    BY <2>1 DEF Verts
  <2>3. upgrading' \subseteq {<<f.from, f.seg>> : f \in waits'}
    BY <2>1, StillUpgradingWaits DEF RoundInv, TypeOK
  <2>4. QED
    BY <2>1, <2>2, <2>3 DEF RoundInv, TypeOK
<1>3. ASSUME NEW v \in Vid, End(v) \/ Abort(v) PROVE RoundInv'
  <2>1. /\ UNCHANGED <<pc, pending, collected, core, left, victims, rolledBack>>
        /\ alive' = alive \ {v} /\ signalled' = signalled \ {v} /\ waits' = RemoveVid(waits, v)
        /\ upgrading' = StillUpgrading(waits')
    BY <1>3 DEF End, Abort
  <2>2. waits' \subseteq waits /\ \A e \in waits' : e.from # v /\ e.to # v
    BY <2>1 DEF RemoveVid, GlobalIn, GlobalOut
  <2>3. Verts(waits') \subseteq alive'
    BY <2>1, <2>2 DEF Verts, RoundInv, TypeOK
  <2>4. upgrading' \subseteq {<<e.from, e.seg>> : e \in waits'}
    BY <2>1, StillUpgradingWaits DEF RoundInv, TypeOK
  <2>5. QED
    BY <2>1, <2>2, <2>3, <2>4 DEF RoundInv, TypeOK
<1>4. ASSUME (\E s \in Seg : CollectSegment(s)) \/ CollectQD PROVE RoundInv'
  <2>1. /\ UNCHANGED <<sysVars, core, left, victims, rolledBack>> /\ pending' \subseteq pending
        /\ pc = "collect" /\ pc' \in {"collect", "build"} /\ collected' \subseteq collected \union waits
    BY <1>4 DEF CollectSegment, CollectQD, Reported
  <2>2. QED
    BY <2>1 DEF RoundInv, TypeOK, sysVars
<1>5. CASE BuildWaitGraph
  <2>1. /\ UNCHANGED sysVars /\ victims' = {} /\ rolledBack' = FALSE /\ collected' = {}
        /\ pending' = Seg \ {QD} /\ left' = core' /\ core' = Core(KnownGxids(collected))
        /\ pc' = IF core' = {} THEN "collect" ELSE "break"
    BY <1>5 DEF BuildWaitGraph, RoundInv
  <2>2. core' \subseteq Edge
    BY <2>1 DEF Core, KnownGxids, RoundInv, TypeOK
  <2>3. QED
    BY <2>1, <2>2 DEF RoundInv, TypeOK, sysVars
<1>6. CASE BreakDeadLock
  <2>1. /\ UNCHANGED <<sysVars, pending, collected, core, rolledBack>> /\ pc = "break"
        /\ victims' = victims \union {MaxVid(left)} /\ left' = Core(RemoveVid(left, MaxVid(left)))
        /\ pc' = IF left' = {} THEN "cancel" ELSE "break"
    BY <1>6 DEF BreakDeadLock
  <2>2. left \in SUBSET Edge /\ left # {} /\ left \subseteq core
    BY <2>1 DEF RoundInv, TypeOK
  <2>3. MaxVid(left) \in Verts(left)
    BY <2>2, MaxVidInGraph
  <2>4. Verts(left) \subseteq Verts(core)
    BY <2>2 DEF Verts
  <2>5. left' \subseteq left
    BY <2>1 DEF Core, RemoveVid
  <2>6. QED
    BY <2>1, <2>2, <2>3, <2>4, <2>5 DEF RoundInv, TypeOK, sysVars
<1>7. ASSUME NEW v \in Vid, CancelVictim(v) PROVE RoundInv'
  BY <1>7 DEF CancelVictim, RoundInv, TypeOK
<1>8. CASE EndRound
  <2>1. /\ pc = "cancel" /\ pc' = "collect" /\ core' = {} /\ rolledBack' = FALSE /\ victims = {}
        /\ UNCHANGED <<sysVars, pending, collected, left, victims>>
    BY <1>8 DEF EndRound
  <2>2. QED
    BY <2>1 DEF RoundInv, TypeOK, sysVars
<1>9. CASE UNCHANGED vars
  BY <1>9 DEF vars, RoundInv, TypeOK
<1>10. QED
  BY <1>1, <1>2, <1>3, <1>4, <1>5, <1>6, <1>7, <1>8, <1>9 DEF Next, Detector

\* Only live transactions wait, are waited for or are signalled, and the
\* victims of a round are transactions of the deadlocks it has found, for any
\* number of transactions and segments.
THEOREM TypeCorrect == Spec => []TypeOK
<1>1. Init => RoundInv
  BY DEF Init, RoundInv, TypeOK, Verts
<1>2. RoundInv => TypeOK
  BY DEF RoundInv
<1>3. QED
  BY <1>1, <1>2, RoundStep, PTL DEF Spec

\* The report of doDeadLockCheck() is true although the segments were looked
\* at one after the other: the waits that GddCtxReduce() has left are waits of
\* a deadlock at the moment it stops.
THEOREM FalseAlarms == Spec => NoFalseAlarm
<1>1. ASSUME DetectorInv, [Next]_vars
      PROVE  [core = {} /\ ~rolledBack => core' \subseteq Deadlocked(waits)]_vars
  <2>1. CASE BuildWaitGraph
    <3>1. core' = Core(KnownGxids(collected))
      BY <2>1 DEF BuildWaitGraph
    <3>2. ASSUME NEW H \in SUBSET KnownGxids(collected), Irreducible(H), ~rolledBack
          PROVE  H \subseteq Deadlocked(waits)
      <4>1. H \subseteq Edge
        BY <1>1 DEF DetectorInv, KnownGxids
      <4>2. Held(H)
        BY <3>2, <4>1, IrreducibleDotted DEF Held
      <4>3. H \in SUBSET waits
        BY <1>1, <3>2, <4>2 DEF DetectorInv
      <4>4. SelfBlocking(H)
        BY <3>2, <4>1, IrreducibleSelfBlocking
      <4>5. QED
        BY <4>3, <4>4 DEF Deadlocked
    <3>3. QED
      BY <3>1, <3>2 DEF Core
  <2>2. CASE EndRound
    BY <2>2 DEF EndRound
  <2>3. CASE UNCHANGED core
    BY <2>3
  <2>4. BuildWaitGraph \/ EndRound \/ UNCHANGED core
    BY <1>1 DEF Next, Detector, Wait, ReleaseDotted, RollbackToSavepoint, End, Abort,
        CollectSegment, CollectQD, BreakDeadLock, CancelVictim, vars
  <2>5. QED
    BY <2>1, <2>2, <2>3, <2>4
<1>2. QED
  BY DetectorInit, DetectorStep, <1>1, PTL DEF Spec, NoFalseAlarm

=============================================================================
