------------------------------ MODULE GddReduce ------------------------------
(***************************************************************************)
(* The computation of the global deadlock detector: GddCtxReduce() and     *)
(* GddCtxBreakDeadLock() on one wait graph, vertex by vertex, in whatever  *)
(* order the vertices happen to be listed.                                 *)
(***************************************************************************)
EXTENDS GddGraph

CONSTANT MaxEdges   \* bound: edges of the graph

ASSUME MaxEdgesAssumption == MaxEdges \in Nat

VARIABLES
    graph,      \* the wait graph given to the detector
    edges,      \* what is left of it
    todo,       \* local vertices this pass of GddCtxReduce() has still to visit
    dirty,      \* the pass has removed something
    victims,    \* vids GddCtxBreakDeadLock() has chosen
    pc          \* "reduce", "break" (deadlock found) or "done"

vars == <<graph, edges, todo, dirty, victims, pc>>

\* The local vertices of a graph.  Those that lost their edges may or may not
\* have been deleted, and a visit to them does nothing.
LocalVerts(G) == {<<e.seg, e.from>> : e \in G} \union {<<e.seg, e.to>> : e \in G}

Graphs ==
    {G \in SUBSET {e \in Edge : e.from # e.to} :
        IsFiniteSet(G) /\ Cardinality(G) <= MaxEdges}

Init ==
    /\ graph \in Graphs
    /\ edges = graph
    /\ todo = LocalVerts(graph)
    /\ dirty = FALSE
    /\ victims = {}
    /\ pc = "reduce"

Visit(s, v) ==
    /\ pc = "reduce"
    /\ <<s, v>> \in todo
    /\ edges' = VertReduce(edges, s, v)
    /\ dirty' = (dirty \/ edges' # edges)
    /\ todo' = todo \ {<<s, v>>}
    /\ UNCHANGED <<graph, victims, pc>>

NextPassNever ==
    /\ pc = "reduce"
    /\ todo = {}
    /\ pc' = IF edges = {} THEN "done" ELSE "break"
    /\ UNCHANGED <<graph, edges, todo, dirty, victims>>

NextPassStaysDirty ==
    /\ pc = "reduce"
    /\ todo = {}
    /\ IF dirty
       THEN todo' = LocalVerts(edges) /\ UNCHANGED pc
       ELSE pc' = (IF edges = {} THEN "done" ELSE "break") /\ UNCHANGED todo
    /\ UNCHANGED <<graph, edges, dirty, victims>>

\* The end of a pass: another one if it removed something.
NextPass ==
    /\ pc = "reduce"
    /\ todo = {}
    /\ IF dirty
       THEN todo' = LocalVerts(edges) /\ UNCHANGED pc
       ELSE pc' = (IF edges = {} THEN "done" ELSE "break") /\ UNCHANGED todo
    /\ dirty' = FALSE
    /\ UNCHANGED <<graph, edges, victims>>

\* One round of GddCtxBreakDeadLock(): the youngest goes, the rest is reduced.
BreakDeadLock ==
    /\ pc = "break"
    /\ victims' = victims \union {MaxVid(edges)}
    /\ edges' = RemoveVid(edges, MaxVid(edges))
    /\ todo' = LocalVerts(edges')
    /\ dirty' = FALSE
    /\ pc' = "reduce"
    /\ UNCHANGED graph

Next ==
    \/ \E s \in Seg, v \in Vid : Visit(s, v)
    \/ NextPass
    \/ BreakDeadLock

Spec == Init /\ [][Next]_vars

\* The computation runs by itself.
FairSpec == Spec /\ WF_vars(Next)

-----------------------------------------------------------------------------
(* Properties *)

\* The wait graph without the victims so far.
WithoutVictims == {e \in graph : e.from \notin victims /\ e.to \notin victims}

\* Whatever the order of the visits, and although some of them see degrees
\* that others have changed, GddCtxReduce() stops at one and the same graph:
\* the largest part of the wait graph without the victims so far that its
\* rules cannot reduce.
ReduceIsConfluent == pc # "reduce" => edges = Core(WithoutVictims)

\* What remains is a deadlock if anything does: none of its waits can end
\* before another of them has, each segment and the QD taken by itself as
\* gddVertReduce() does.  GddCtxBreakDeadLock() leaves no such deadlock.
FindsDeadlock ==
    /\ pc = "break" => edges \subseteq Deadlocked(WithoutVictims)
    /\ pc = "done" => Deadlocked(WithoutVictims) = {}

\* GddCtxReduce() and GddCtxBreakDeadLock() come to an end.
Terminates == <>(pc = "done")

=============================================================================
