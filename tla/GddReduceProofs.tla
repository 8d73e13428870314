-------------------------- MODULE GddReduceProofs --------------------------
(***************************************************************************)
(* What GddCtxReduce() computes, for any graph and any order of visits.    *)
(***************************************************************************)
EXTENDS GddReduce, FiniteSetTheorems, TLAPS

USE Zenon

\* In a graph that gddVertReduce() cannot make smaller every wait is for a
\* transaction that waits itself.
LEMMA IrreducibleWaits ==
    ASSUME NEW H, H \subseteq Edge, Irreducible(H), NEW e \in H
    PROVE  GlobalOut(H, e.to) # {}
<1>1. e.seg \in Seg /\ e.to \in Vid
  BY DEF Edge
<1>2. VertReduce(H, e.seg, e.to) = H
  BY <1>1 DEF Irreducible
<1>3. e \in LocalIn(H, e.seg, e.to)
  BY DEF LocalIn
<1>4. QED
  BY <1>2, <1>3 DEF VertReduce

\* ... and a wait for a dotted lock is for one that waits on that segment.
LEMMA IrreducibleDotted ==
    ASSUME NEW H, H \subseteq Edge, Irreducible(H), NEW e \in H, ~e.solid
    PROVE  LocalOut(H, e.seg, e.to) # {}
<1>1. e.seg \in Seg /\ e.to \in Vid
  BY DEF Edge
<1>2. VertReduce(H, e.seg, e.to) = H
  BY <1>1 DEF Irreducible
<1>3. e \in LocalIn(H, e.seg, e.to)
  BY DEF LocalIn
<1>4. GlobalIn(H, e.to) # {}
  BY DEF GlobalIn
<1>5. GlobalOut(H, e.to) # {}
  BY IrreducibleWaits
<1>6. SUFFICES ASSUME LocalOut(H, e.seg, e.to) = {} PROVE FALSE
  OBVIOUS
<1>7. VertReduce(H, e.seg, e.to) = H \ {f \in LocalIn(H, e.seg, e.to) : ~f.solid}
  BY <1>4, <1>5, <1>6 DEF VertReduce
<1>8. QED
  BY <1>2, <1>3, <1>7

\* What gddVertReduce() cannot make smaller is a deadlock.
LEMMA IrreducibleSelfBlocking ==
    ASSUME NEW H, H \subseteq Edge, Irreducible(H)
    PROVE  SelfBlocking(H)
<1> SUFFICES ASSUME NEW e \in H
             PROVE  \E f \in H : f.from = e.to /\ (e.solid \/ f.seg = e.seg)
  BY DEF SelfBlocking
<1>1. CASE e.solid
  <2>1. PICK f \in H : f.from = e.to
    BY IrreducibleWaits DEF GlobalOut
  <2>2. QED
    BY <1>1, <2>1
<1>2. CASE ~e.solid
  <2>1. LocalOut(H, e.seg, e.to) # {}
    BY <1>2, IrreducibleDotted
  <2>2. PICK f \in H : f.from = e.to /\ f.seg = e.seg
    BY <2>1 DEF LocalOut
  <2>3. QED
    BY <2>2
<1>3. QED
  BY <1>1, <1>2

\* A visit keeps every part of the graph that is irreducible by itself.
LEMMA VisitKeepsIrreducible ==
    ASSUME NEW G, NEW H, H \subseteq G, Irreducible(H), NEW s \in Seg, NEW v \in Vid
    PROVE  H \subseteq VertReduce(G, s, v)
<1> SUFFICES ASSUME NEW e \in H, e \notin VertReduce(G, s, v) PROVE FALSE
  OBVIOUS
<1>1. e \in VertReduce(H, s, v) /\ e \in G
  BY DEF Irreducible
<1>2. CASE GlobalIn(G, v) = {} \/ GlobalOut(G, v) = {}
  <2>1. GlobalIn(H, v) = {} \/ GlobalOut(H, v) = {}
    BY <1>2 DEF GlobalIn, GlobalOut
  <2>2. e \notin LocalIn(H, s, v) /\ e \notin LocalOut(H, s, v)
    BY <1>1, <2>1 DEF VertReduce
  <2>3. e \notin LocalIn(G, s, v) /\ e \notin LocalOut(G, s, v)
    BY <2>2 DEF LocalIn, LocalOut
  <2>4. QED
    BY <1>1, <1>2, <2>3 DEF VertReduce
<1>3. CASE ~(GlobalIn(G, v) = {} \/ GlobalOut(G, v) = {})
  <2>1. LocalOut(G, s, v) = {} /\ e \in LocalIn(G, s, v) /\ ~e.solid
    BY <1>1, <1>3 DEF VertReduce
  <2>2. LocalOut(H, s, v) = {} /\ e \in LocalIn(H, s, v)
    BY <2>1 DEF LocalIn, LocalOut
  <2>3. QED
    BY <1>1, <2>1, <2>2 DEF VertReduce
<1>4. QED
  BY <1>2, <1>3

\* The inductive invariant.  No irreducible part of the graph is ever lost,
\* and as long as the pass has removed nothing the vertices it has visited
\* are ones that a visit does not change.
ReduceInv ==
    /\ graph \subseteq {e \in Edge : e.from # e.to}
    /\ IsFiniteSet(graph)
    /\ edges \subseteq WithoutVictims
    /\ \A H \in SUBSET WithoutVictims : Irreducible(H) => H \subseteq edges
    /\ pc \in {"reduce", "break", "done"}
    /\ (pc = "reduce" /\ dirty = FALSE) =>
          \A s \in Seg, v \in Vid : <<s, v>> \notin todo => VertReduce(edges, s, v) = edges
    /\ pc # "reduce" => Irreducible(edges)
    /\ pc = "done" => edges = {}
    /\ dirty \in BOOLEAN

\* A visit to a vertex without edges on the segment changes nothing.
LEMMA VisitElsewhere ==
    ASSUME NEW G, NEW s \in Seg, NEW v \in Vid, <<s, v>> \notin LocalVerts(G)
    PROVE  VertReduce(G, s, v) = G
<1>1. LocalIn(G, s, v) = {} /\ LocalOut(G, s, v) = {}
  BY DEF LocalIn, LocalOut, LocalVerts
<1>2. QED
  BY <1>1 DEF VertReduce

LEMMA VertReduceShrinks ==
    ASSUME NEW G, NEW s \in Seg, NEW v \in Vid
    PROVE  VertReduce(G, s, v) \subseteq G
BY DEF VertReduce

\* A finite deadlock has a smallest part that is one: every part of a graph is
\* finite, and so inclusion has minimal elements.
LEMMA SmallestDeadlock ==
    ASSUME NEW G, IsFiniteSet(G), NEW D \in SUBSET G, SelfBlocking(D), D # {}
    PROVE  \E H \in SUBSET G :
              /\ SelfBlocking(H) /\ H # {}
              /\ \A K \in SUBSET H : SelfBlocking(K) /\ K # {} => K = H
<1> DEFINE T == {H \in SUBSET G : SelfBlocking(H) /\ H # {}}
<1>1. T \subseteq FiniteSubsetsOf(G) /\ T # {}
  BY FS_FiniteSubsetsOfFinite
<1>2. IsWellFoundedOn(StrictSubsetOrdering(G), FiniteSubsetsOf(G))
  BY FS_StrictSubsetOrderingWellFounded
<1>3. PICK H \in T : \A K \in T : <<K, H>> \notin StrictSubsetOrdering(G)
  <2> HIDE DEF T
  <2>1. QED
    BY <1>1, <1>2, WFMin
<1>4. ASSUME NEW K \in SUBSET H, SelfBlocking(K), K # {} PROVE K = H
  <2>1. K \in T /\ K \in SUBSET G /\ H \in SUBSET G
    BY <1>3, <1>4
  <2>2. <<K, H>> \notin StrictSubsetOrdering(G)
    BY <1>3, <2>1
  <2>3. QED
    BY <2>1, <2>2, SMT DEF StrictSubsetOrdering
<1>5. QED
  BY <1>3, <1>4

\* In a smallest deadlock everyone who waits is waited for: the waits of one
\* that nobody waits for could be left out.
LEMMA SmallestIsWaitedFor ==
    ASSUME NEW H, SelfBlocking(H), H # {},
           \A e \in H : e.from # e.to,
           \A K \in SUBSET H : SelfBlocking(K) /\ K # {} => K = H,
           NEW v, GlobalIn(H, v) = {}
    PROVE  GlobalOut(H, v) = {}
<1> DEFINE K == H \ GlobalOut(H, v)
<1>1. SelfBlocking(K)
  <2> SUFFICES ASSUME NEW e \in K
               PROVE  \E f \in K : f.from = e.to /\ (e.solid \/ f.seg = e.seg)
    BY DEF SelfBlocking
  <2>1. PICK f \in H : f.from = e.to /\ (e.solid \/ f.seg = e.seg)
    BY DEF SelfBlocking
  <2>2. e.to # v
    BY DEF GlobalIn
  <2>3. QED
    BY <2>1, <2>2 DEF GlobalOut
<1>2. K # {}
  <2>1. PICK e \in H : TRUE
    OBVIOUS
  <2>2. PICK f \in H : f.from = e.to
    BY DEF SelfBlocking
  <2>3. f.from # v
    BY <2>2 DEF GlobalIn
  <2>4. QED
    BY <2>3 DEF GlobalOut
<1>3. QED
  BY <1>1, <1>2 DEF GlobalOut

\* So gddVertReduce() cannot make a smallest deadlock smaller.
LEMMA SmallestIrreducible ==
    ASSUME NEW H, H # {}, SelfBlocking(H),
           \A e \in H : e.from # e.to,
           \A K \in SUBSET H : SelfBlocking(K) /\ K # {} => K = H
    PROVE  Irreducible(H)
<1> SUFFICES ASSUME NEW s \in Seg, NEW v \in Vid PROVE VertReduce(H, s, v) = H
  BY DEF Irreducible
<1>1. GlobalIn(H, v) = {} => GlobalOut(H, v) = {}
  BY SmallestIsWaitedFor
<1>2. ASSUME GlobalOut(H, v) = {}, NEW e \in GlobalIn(H, v) PROVE FALSE
  <2>1. e \in H /\ e.to = v
    BY <1>2 DEF GlobalIn
  <2>2. PICK f \in H : f.from = e.to
    BY <2>1 DEF SelfBlocking
  <2>3. QED
    BY <1>2, <2>1, <2>2 DEF GlobalOut
<1>3. ASSUME LocalOut(H, s, v) = {}, NEW e \in LocalIn(H, s, v), ~e.solid PROVE FALSE
  <2>1. e \in H /\ e.to = v /\ e.seg = s
    BY <1>3 DEF LocalIn
  <2>2. PICK f \in H : f.from = e.to /\ f.seg = e.seg
    BY <1>3, <2>1 DEF SelfBlocking
  <2>3. QED
    BY <1>3, <2>1, <2>2 DEF LocalOut
<1>4. CASE GlobalIn(H, v) = {} \/ GlobalOut(H, v) = {}
  <2>1. LocalIn(H, s, v) = {} /\ LocalOut(H, s, v) = {}
    BY <1>1, <1>2, <1>4 DEF LocalIn, LocalOut, GlobalIn, GlobalOut
  <2>2. QED
    BY <1>4, <2>1 DEF VertReduce
<1>5. CASE ~(GlobalIn(H, v) = {} \/ GlobalOut(H, v) = {})
  BY <1>3, <1>5 DEF VertReduce
<1>6. QED
  BY <1>4, <1>5

LEMMA ReduceInit == Init => ReduceInv
<1> SUFFICES ASSUME Init PROVE ReduceInv
  OBVIOUS
<1>1. graph \subseteq {e \in Edge : e.from # e.to} /\ IsFiniteSet(graph)
  BY DEF Init, Graphs
<1>2. WithoutVictims = graph
  BY DEF Init, WithoutVictims
<1>3. \A s \in Seg, v \in Vid : <<s, v>> \notin todo => VertReduce(edges, s, v) = edges
  BY VisitElsewhere DEF Init
<1>4. QED
  BY <1>1, <1>2, <1>3 DEF Init, ReduceInv

LEMMA ReduceStep == ReduceInv /\ [Next]_vars => ReduceInv'
<1> SUFFICES ASSUME ReduceInv, [Next]_vars PROVE ReduceInv'
  OBVIOUS
<1>1. ASSUME NEW s \in Seg, NEW v \in Vid, Visit(s, v) PROVE ReduceInv'
  <2>1. /\ graph' = graph /\ WithoutVictims' = WithoutVictims /\ pc = "reduce" /\ pc' = "reduce"
        /\ edges' = VertReduce(edges, s, v)
        /\ todo' = todo \ {<<s, v>>}
        /\ dirty' = (dirty \/ edges' # edges)
    BY <1>1 DEF Visit, WithoutVictims
  <2>2. edges' \subseteq WithoutVictims
    BY <2>1, VertReduceShrinks DEF ReduceInv
  <2>3. ASSUME NEW H \in SUBSET WithoutVictims, Irreducible(H) PROVE H \subseteq edges'
    <3>1. H \subseteq edges
      BY <2>3 DEF ReduceInv
    <3>2. QED
      BY <2>1, <2>3, <3>1, VisitKeepsIrreducible
  <2>4. ASSUME dirty' = FALSE, NEW t \in Seg, NEW u \in Vid, <<t, u>> \notin todo'
        PROVE  VertReduce(edges', t, u) = edges'
    <3>1. edges' = edges /\ dirty = FALSE
      BY <2>1, <2>4 DEF ReduceInv
    <3>2. CASE <<t, u>> = <<s, v>>
      <4>1. t = s /\ u = v
        BY <3>2
      <4>2. QED
        BY <2>1, <3>1, <4>1
    <3>3. CASE <<t, u>> # <<s, v>>
      <4>1. <<t, u>> \notin todo
        BY <2>1, <2>4, <3>3
      <4>2. QED
        BY <2>1, <3>1, <4>1 DEF ReduceInv
    <3>4. QED
      BY <3>2, <3>3
  <2>5. dirty' \in BOOLEAN
    BY <2>1
  <2>6. QED
    BY <2>1, <2>2, <2>3, <2>4, <2>5 DEF ReduceInv
<1>2. CASE NextPass
  <2>1. /\ graph' = graph /\ WithoutVictims' = WithoutVictims /\ edges' = edges
        /\ dirty' = FALSE /\ pc = "reduce" /\ todo = {}
    BY <1>2 DEF NextPass, WithoutVictims
  <2>2. CASE dirty
    <3>1. todo' = LocalVerts(edges) /\ pc' = pc
      BY <1>2, <2>2 DEF NextPass
    <3>2. \A s \in Seg, v \in Vid : <<s, v>> \notin todo' => VertReduce(edges, s, v) = edges
      BY <3>1, VisitElsewhere
    <3>3. QED
      BY <2>1, <3>1, <3>2 DEF ReduceInv
  <2>3. CASE ~dirty
    <3>1. pc' \in {"break", "done"} /\ (pc' = "done" => edges = {})
      BY <1>2, <2>3 DEF NextPass
    <3>2. dirty = FALSE
      BY <2>3 DEF ReduceInv
    <3>3. Irreducible(edges)
      BY <2>1, <3>2 DEF ReduceInv, Irreducible
    <3>4. pc' # "reduce"
      BY <3>1
    <3>5. QED
      BY <2>1, <3>1, <3>3, <3>4 DEF ReduceInv
  <2>4. QED
    BY <2>2, <2>3
<1>3. CASE BreakDeadLock
  <2> DEFINE m == MaxVid(edges)
  <2>1. /\ graph' = graph /\ victims' = victims \union {m} /\ edges' = RemoveVid(edges, m)
        /\ todo' = LocalVerts(edges') /\ dirty' = FALSE /\ pc' = "reduce"
    BY <1>3 DEF BreakDeadLock
  <2> HIDE DEF m
  <2>2. WithoutVictims' = RemoveVid(WithoutVictims, m)
    BY <2>1 DEF WithoutVictims, RemoveVid, GlobalIn, GlobalOut
  <2>3. edges' \subseteq WithoutVictims'
    BY <2>1, <2>2 DEF ReduceInv, RemoveVid, GlobalIn, GlobalOut
  <2>4. ASSUME NEW H \in SUBSET WithoutVictims', Irreducible(H) PROVE H \subseteq edges'
    <3>1. H \subseteq WithoutVictims
      BY <2>2, <2>4 DEF RemoveVid
    <3>2. H \subseteq edges
      BY <2>4, <3>1 DEF ReduceInv
    <3>3. QED
      BY <2>1, <2>2, <2>4, <3>2 DEF RemoveVid, GlobalIn, GlobalOut
  <2>5. \A s \in Seg, v \in Vid : <<s, v>> \notin todo' => VertReduce(edges', s, v) = edges'
    BY <2>1, VisitElsewhere
  <2>6. QED
    BY <2>1, <2>3, <2>4, <2>5 DEF ReduceInv
<1>4. CASE UNCHANGED vars
  <2>1. WithoutVictims' = WithoutVictims
    BY <1>4 DEF vars, WithoutVictims
  <2>2. QED
    BY <1>4, <2>1 DEF vars, ReduceInv
<1>5. QED
  BY <1>1, <1>2, <1>3, <1>4 DEF Next

\* GddCtxReduce() leaves the largest part of the wait graph that
\* gddVertReduce() cannot reduce, whatever the order in which it meets the
\* vertices, before and after each victim of GddCtxBreakDeadLock().
THEOREM Confluence == Spec => []ReduceIsConfluent
<1>1. ReduceInv => ReduceIsConfluent
  <2> SUFFICES ASSUME ReduceInv, pc # "reduce" PROVE edges = Core(WithoutVictims)
    BY DEF ReduceIsConfluent
  <2>1. Irreducible(edges) /\ edges \in SUBSET WithoutVictims
    BY DEF ReduceInv
  <2>2. edges \subseteq Core(WithoutVictims)
    BY <2>1 DEF Core
  <2>3. Core(WithoutVictims) \subseteq edges
    BY DEF Core, ReduceInv
  <2>4. QED
    BY <2>2, <2>3
<1>2. QED
  BY ReduceInit, ReduceStep, <1>1, PTL DEF Spec

\* The waits that are left where GddCtxBreakDeadLock() picks a victim are waits
\* of a deadlock, and when it is done there is no deadlock without the victims:
\* gddVertReduce() never removes the last trace of one.
THEOREM DeadlocksFound == Spec => []FindsDeadlock
<1>1. ReduceInv => FindsDeadlock
  <2> SUFFICES ASSUME ReduceInv PROVE FindsDeadlock
    OBVIOUS
  <2>1. ASSUME pc = "break" PROVE edges \subseteq Deadlocked(WithoutVictims)
    <3>1. pc # "reduce"
      BY <2>1
    <3>2. Irreducible(edges) /\ edges \in SUBSET WithoutVictims
      BY <3>1 DEF ReduceInv
    <3>3. edges \subseteq Edge
      BY DEF ReduceInv, WithoutVictims
    <3>4. SelfBlocking(edges)
      BY <3>2, <3>3, IrreducibleSelfBlocking
    <3>5. QED
      BY <3>2, <3>4 DEF Deadlocked
  <2>2. ASSUME pc = "done" PROVE Deadlocked(WithoutVictims) = {}
    <3>1. edges = {}
      BY <2>2 DEF ReduceInv
    <3>2. SUFFICES ASSUME NEW D \in SUBSET WithoutVictims, SelfBlocking(D), D # {}
                   PROVE  FALSE
      BY DEF Deadlocked
    <3>3. /\ WithoutVictims \in SUBSET graph /\ IsFiniteSet(graph)
          /\ \A e \in WithoutVictims : e.from # e.to
      BY DEF ReduceInv, WithoutVictims
    <3>4. IsFiniteSet(WithoutVictims)
      BY <3>3, FS_Subset
    <3>5. PICK H \in SUBSET WithoutVictims :
                  /\ SelfBlocking(H) /\ H # {}
                  /\ \A K \in SUBSET H : SelfBlocking(K) /\ K # {} => K = H
      BY <3>2, <3>4, SmallestDeadlock
    <3>6. Irreducible(H)
      BY <3>3, <3>5, SmallestIrreducible
    <3>7. QED
      BY <3>1, <3>5, <3>6 DEF ReduceInv
  <2>3. QED
    BY <2>1, <2>2 DEF FindsDeadlock
<1>2. QED
  BY ReduceInit, ReduceStep, <1>1, PTL DEF Spec

=============================================================================
