------------------------------ MODULE GddGraph ------------------------------
(***************************************************************************)
(* Wait-for graphs of the global deadlock detector.  An edge says that on  *)
(* a segment one transaction waits for another.  It is solid when the lock *)
(* is held until the holder's transaction ends, dotted otherwise.          *)
(***************************************************************************)
EXTENDS Integers, FiniteSets

CONSTANTS
    Vid,        \* vertex ids: gxids, a younger transaction has a larger one
    Seg         \* segments, with a local graph each

ASSUME VidAssumption == Vid \subseteq Nat

Edge == [seg : Seg, from : Vid, to : Vid, solid : BOOLEAN]

\* Edges of v by degree: global and on segment s.
GlobalIn(G, v) == {e \in G : e.to = v}
GlobalOut(G, v) == {e \in G : e.from = v}
LocalIn(G, s, v) == {e \in G : e.to = v /\ e.seg = s}
LocalOut(G, s, v) == {e \in G : e.from = v /\ e.seg = s}

VertReduceAnyEdge(G, s, v) ==
    IF GlobalIn(G, v) = {} \/ GlobalOut(G, v) = {}
    THEN G \ (LocalIn(G, s, v) \union LocalOut(G, s, v))
    ELSE IF LocalOut(G, s, v) = {} THEN G \ LocalIn(G, s, v)
    ELSE G

\* gddVertReduce(): what is left after it has looked at v in the graph of s.
VertReduce(G, s, v) ==
    IF GlobalIn(G, v) = {} \/ GlobalOut(G, v) = {}
    THEN G \ (LocalIn(G, s, v) \union LocalOut(G, s, v))
    ELSE IF LocalOut(G, s, v) = {} THEN G \ {e \in LocalIn(G, s, v) : ~e.solid}
    ELSE G

\* gddCtxRemoveVid()
RemoveVid(G, v) == G \ (GlobalIn(G, v) \union GlobalOut(G, v))

\* gddCtxGetMaxVid()
Verts(G) == {e.from : e \in G} \union {e.to : e \in G}
MaxVid(G) == CHOOSE v \in Verts(G) : \A u \in Verts(G) : u <= v

\* GddCtxReduce() stops at a graph that no visit makes smaller.
Irreducible(G) == \A s \in Seg, v \in Vid : VertReduce(G, s, v) = G

\* The reference for what it stops at.
Core(G) == UNION {H \in SUBSET G : Irreducible(H)}

\* The reference for a deadlock: waits none of which can end before another
\* of them has.  A wait for a solid lock ends with the holder's transaction,
\* which waits somewhere; one for a dotted lock when the holder moves on on
\* that segment, where it waits.  The QD is a segment like the others here, as
\* in gddVertReduce(): a dotted edge on the QD whose holder is blocked on a
\* segment only is not part of a deadlock in this sense.
SelfBlocking(H) ==
    \A e \in H : \E f \in H : f.from = e.to /\ (e.solid \/ f.seg = e.seg)

Deadlocked(G) == UNION {H \in SUBSET G : SelfBlocking(H)}

=============================================================================
