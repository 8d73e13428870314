---------------------------- MODULE UdpIfcProofs ----------------------------
(***************************************************************************)
(* The UDP interconnect delivers in order, never overruns the ring and     *)
(* takes nothing for arrived that is not, for any number of packets and    *)
(* any depth of the queues.                                                *)
(***************************************************************************)
EXTENDS UdpIfc, FiniteSetTheorems, TLAPS

USE Zenon

ConnType ==
    [seq : 1..(Packets + 1), extraSeq : 0..Packets, q : [Pos -> 0..Packets],
     head : Pos, tail : Pos, size : 0..QueueDepth, eos : BOOLEAN,
     stop : BOOLEAN, active : BOOLEAN, peer : BOOLEAN]

\* The types, with what TypeOK leaves open.
TypeInv ==
    /\ net \subseteq Message
    /\ started \in BOOLEAN /\ stopRequested \in BOOLEAN /\ reached \in BOOLEAN
    /\ pc \in {"run", "wait", "eos", "closed"}
    /\ sndSeq \in 1..(Packets + 1)
    /\ sndQueue \in Seq(Seq1) /\ unackQueue \in SUBSET Seq1
    /\ capacity \in Nat /\ consumedSeq \in 0..Packets /\ receivedAckSeq \in 0..Packets
    /\ main \in {"setup", "cached", "idle", "wait", "read", "eos", "stopped", "torn"}
    /\ conn \in ConnType
    /\ cache \in SUBSET (1..QueueDepth)
    /\ delivered \in Seq(Seq1)

\* The last packet that was sent.
Sent == sndSeq - 1 - Len(sndQueue)

\* What is queued is the end of what was numbered; a sender that fills a packet
\* has a buffer for it.
QueueInv ==
    /\ Sent \in 0..Packets
    /\ \A i \in 1..Len(sndQueue) : sndQueue[i] = Sent + i
    /\ unackQueue \subseteq 1..Sent
    /\ Len(sndQueue) + Cardinality(unackQueue) <= MaxSndBuffers
    /\ pc = "run" => Len(sndQueue) + Cardinality(unackQueue) < MaxSndBuffers
    /\ pc \in {"run", "wait"} => sndSeq <= Packets

\* The receiver reads, and has neither stopped nor torn down.
Live == main \notin {"stopped", "torn"}

\* The packet at the head of the ring, or to come there.
HeadSeq(c) == c.seq - c.size

\* The ring has the packets from HeadSeq on at their places: all of them up to
\* seq, some of those after it.
RingInv(c) ==
    /\ HeadSeq(c) >= 1
    /\ c.head = PosOf(HeadSeq(c)) /\ c.tail = PosOf(c.seq)
    /\ \A s \in HeadSeq(c)..(c.seq - 1) : c.q[PosOf(s)] = s
    /\ \A p \in Pos : c.q[p] # NoPacket =>
          /\ c.q[p] \in HeadSeq(c)..(HeadSeq(c) + QueueDepth - 1)
          /\ PosOf(c.q[p]) = p
    /\ c.size < QueueDepth => c.q[c.tail] = NoPacket
    /\ c.extraSeq = HeadSeq(c) - 1

\* The executor has what came before the head, and the head while it reads it.
ReceiverInv ==
    /\ \A i \in 1..Len(delivered) : delivered[i] = i
    /\ main = "stopped" => conn.stop \/ ~conn.active
    /\ Live => /\ RingInv(conn) /\ ~conn.stop
               /\ Len(delivered) = IF main \in {"read", "eos"} THEN HeadSeq(conn)
                                   ELSE HeadSeq(conn) - 1
               /\ main \in {"read", "eos"} => conn.size > 0
               /\ reached <=> main = "wait" /\ conn.size > 0
               /\ conn.active \/ conn.seq = Packets + 1
               /\ main = "setup" => conn = NewConn

\* Packet s has arrived.
Held(s) == s <= Len(delivered) \/ conn.q[PosOf(s)] = s

\* What the messages in flight say is true.
MsgOf(m) ==
    /\ m.type = "data" => m.seq <= Sent
    /\ m.type = "ack" => ~m.stop /\ m.seq < conn.seq /\ m.extraSeq <= conn.extraSeq
    /\ m.type = "dup" => Held(m.seq) /\ m.extraSeq < conn.seq
    /\ m.type = "disorder" => /\ Held(m.seq)
                              /\ \A t \in 1..(m.seq - 1) : t \notin m.lost => Held(t)

\* The sender knows no more than that: it counts as free what was consumed, and
\* has given back the buffers of packets that have arrived.
WindowInv ==
    Live => /\ \A m \in net : MsgOf(m)
            /\ cache \subseteq 1..Sent
            /\ ~stopRequested
            /\ consumedSeq <= conn.extraSeq
            /\ capacity = QueueDepth + consumedSeq - Sent
            /\ \A s \in 1..Sent : s \in unackQueue \/ Held(s)

UdpInv == TypeInv /\ QueueInv /\ ReceiverInv /\ WindowInv

-----------------------------------------------------------------------------
(* Places in the ring.                                                      *)

LEMMA ModFacts ==
    ASSUME NEW d \in Int, d > 0, NEW a \in Int
    PROVE  /\ a % d \in Int /\ 0 <= a % d /\ a % d < d
           /\ \E k \in Int : a = d * k + (a % d)
<1>1. a % d \in Int /\ 0 <= a % d /\ a % d < d
  BY SMT
<1>2. a = d * (a \div d) + (a % d)
  BY SMTT(30)
<1>3. a \div d \in Int
  BY SMT
<1>4. QED
  BY <1>1, <1>2, <1>3

\* Less than d apart, and the same remainder: the same number.
LEMMA ModInjective ==
    ASSUME NEW d \in Int, d > 0, NEW a \in Int, NEW b \in Int,
           a <= b, b - a < d, a % d = b % d
    PROVE  a = b
<1>1. PICK j \in Int : a = d * j + (a % d)
  BY ModFacts
<1>2. PICK k \in Int : b = d * k + (b % d)
  BY ModFacts
<1>3. PICK r \in Int : r = a % d /\ r = b % d
  BY ModFacts
<1>4. a = d * j + r /\ b = d * k + r
  BY <1>1, <1>2, <1>3
<1>5. b - a = d * (k - j)
  BY <1>4, SMT
<1>6. k - j >= 1 => d * (k - j) >= d
  BY SMT
<1>7. k - j <= -1 => d * (k - j) <= -d
  BY SMT
<1>8. k = j
  BY <1>5, <1>6, <1>7, SMT
<1>9. QED
  BY <1>4, <1>8

LEMMA ModAdd ==
    ASSUME NEW d \in Int, d > 0, NEW a \in Int, NEW n \in Int
    PROVE  ((a % d) + n) % d = (a + n) % d
<1>1. PICK r \in Int : r = a % d
  BY ModFacts
<1>2. PICK j \in Int : a = d * j + r
  BY <1>1, ModFacts
<1>3. PICK x \in Int : x = (r + n) % d /\ 0 <= x /\ x < d
  BY ModFacts, SMT
<1>4. PICK y \in Int : y = (a + n) % d /\ 0 <= y /\ y < d
  BY ModFacts, SMT
<1>5. PICK k \in Int : r + n = d * k + x
  <2>1. r + n \in Int
    BY SMT
  <2>2. QED
    BY <1>3, <2>1, ModFacts
<1>6. PICK l \in Int : a + n = d * l + y
  <2>1. a + n \in Int
    BY SMT
  <2>2. QED
    BY <1>4, <2>1, ModFacts
<1>7. y - x = d * (j + k - l)
  BY <1>2, <1>5, <1>6, SMT
<1>8. j + k - l >= 1 => d * (j + k - l) >= d
  BY SMT
<1>9. j + k - l <= -1 => d * (j + k - l) <= -d
  BY SMT
<1>10. j + k = l
  BY <1>3, <1>4, <1>7, <1>8, <1>9, SMT
<1>11. d * (j + k - l) = 0
  BY <1>10, SMT
<1>12. QED
  BY <1>1, <1>3, <1>4, <1>7, <1>11, SMT

LEMMA PosFacts ==
    ASSUME NEW s \in Int
    PROVE  /\ PosOf(s) \in Pos
           /\ \A n \in Int : (PosOf(s) + n) % QueueDepth = PosOf(s + n)
<1>1. QueueDepth \in Int /\ QueueDepth > 0 /\ s - 1 \in Int
  BY DepthAssumption, SMT
<1>2. PosOf(s) \in Pos
  <2>1. PICK r \in Int : r = (s - 1) % QueueDepth /\ 0 <= r /\ r < QueueDepth
    BY <1>1, ModFacts
  <2>2. r \in 0..(QueueDepth - 1)
    BY <1>1, <2>1, SMT
  <2>3. QED
    BY <2>1, <2>2 DEF PosOf, Pos
<1>3. ASSUME NEW n \in Int PROVE (PosOf(s) + n) % QueueDepth = PosOf(s + n)
  <2>1. (((s - 1) % QueueDepth) + n) % QueueDepth = (s - 1 + n) % QueueDepth
    BY <1>1, ModAdd
  <2>2. s - 1 + n = s + n - 1
    BY SMT
  <2>3. PosOf(s) = (s - 1) % QueueDepth /\ PosOf(s + n) = (s + n - 1) % QueueDepth
    BY SMT DEF PosOf
  <2>4. QED
    BY <2>1, <2>2, <2>3, SMT
<1>4. QED
  BY <1>2, <1>3

LEMMA PosInjective ==
    ASSUME NEW a \in Int, NEW b \in Int, a <= b, b - a < QueueDepth, PosOf(a) = PosOf(b)
    PROVE  a = b
<1>1. QueueDepth \in Int /\ QueueDepth > 0
  BY DepthAssumption, SMT
<1>2. /\ a - 1 \in Int /\ b - 1 \in Int /\ a - 1 <= b - 1
      /\ (b - 1) - (a - 1) < QueueDepth
  BY <1>1, SMT
<1>3. a - 1 = b - 1
  BY <1>1, <1>2, ModInjective DEF PosOf
<1>4. QED
  BY <1>3, SMT

-----------------------------------------------------------------------------
(* Minima and maxima.                                                       *)

\* A set of numbers has a least one: the one with the fewest below it.
LEMMA MinFacts ==
    ASSUME NEW S \in SUBSET Nat, S # {}
    PROVE  Min(S) \in S /\ \A y \in S : Min(S) <= y
<1> DEFINE Lower(x) == {y \in S : y < x}
           T == {Lower(x) : x \in S}
<1>1. \A x \in S : Lower(x) \in FiniteSubsetsOf(S)
  <2> TAKE x \in S
  <2>1. Lower(x) \in SUBSET Nat /\ x \in Nat
    OBVIOUS
  <2>2. \A y \in Lower(x) : y <= x
    BY SMT
  <2>3. IsFiniteSet(Lower(x))
    BY <2>1, <2>2, FS_BoundedSetOfNaturals
  <2>4. QED
    BY <2>3 DEF FiniteSubsetsOf
<1>2. T # {}
  OBVIOUS
<1>3. T \subseteq FiniteSubsetsOf(S)
  <2> HIDE DEF Lower
  <2>1. QED
    BY <1>1
<1>4. IsWellFoundedOn(StrictSubsetOrdering(S), FiniteSubsetsOf(S))
  BY FS_StrictSubsetOrderingWellFounded
<1>5. PICK L \in T : \A K \in T : <<K, L>> \notin StrictSubsetOrdering(S)
  <2> HIDE DEF T
  <2>1. QED
    BY <1>2, <1>3, <1>4, WFMin
<1>6. PICK x \in S : L = Lower(x)
  BY <1>5
<1>7. ASSUME NEW y \in S, y < x PROVE FALSE
  <2>1. Lower(y) \in SUBSET S /\ Lower(x) \in SUBSET S
    OBVIOUS
  <2>2. Lower(y) \subseteq Lower(x)
    <3> SUFFICES ASSUME NEW z \in S, z < y PROVE z < x
      OBVIOUS
    <3>1. QED
      BY <1>7, SMT
  <2>3. y \in Lower(x) /\ y \notin Lower(y)
    BY <1>7, SMT
  <2>4. <<Lower(y), Lower(x)>> \notin StrictSubsetOrdering(S)
    BY <1>5, <1>6
  <2> HIDE DEF Lower
  <2>5. QED
    BY <2>1, <2>2, <2>3, <2>4, SMT DEF StrictSubsetOrdering
<1>8. \A y \in S : x <= y
  BY <1>6, <1>7, SMT
<1>9. QED
  BY <1>6, <1>8 DEF Min

LEMMA MaxFacts ==
    ASSUME NEW S \in SUBSET (0..Packets), S # {}
    PROVE  Max(S) \in S
<1> DEFINE T == {Packets - x : x \in S}
<1>1. Packets \in Nat
  BY DepthAssumption
<1>2. T \in SUBSET Nat /\ T # {}
  <2>1. \A x \in 0..Packets : Packets - x \in Nat
    BY <1>1, SMT
  <2>2. QED
    BY <2>1
<1> HIDE DEF T
<1>3. Min(T) \in T /\ \A y \in T : Min(T) <= y
  BY <1>2, MinFacts
<1>4. PICK x \in S : Min(T) = Packets - x
  BY <1>3 DEF T
<1>5. ASSUME NEW y \in S PROVE x >= y
  <2>1. Packets - y \in T
    BY DEF T
  <2>2. Packets - x <= Packets - y
    BY <1>3, <1>4, <2>1
  <2>3. x \in 0..Packets /\ y \in 0..Packets
    OBVIOUS
  <2>4. QED
    BY <1>1, <2>2, <2>3, SMT
<1>6. QED
  BY <1>4, <1>5 DEF Max

-----------------------------------------------------------------------------
(* The ring.                                                                *)

LEMMA ConnFields ==
    ASSUME NEW c \in ConnType
    PROVE  /\ c.seq \in Nat /\ 1 <= c.seq /\ c.seq <= Packets + 1
           /\ c.extraSeq \in Nat /\ c.extraSeq <= Packets
           /\ c.q \in [Pos -> 0..Packets] /\ c.head \in Pos /\ c.tail \in Pos
           /\ c.size \in Nat /\ c.size <= QueueDepth
           /\ c.eos \in BOOLEAN /\ c.stop \in BOOLEAN /\ c.active \in BOOLEAN /\ c.peer \in BOOLEAN
           /\ HeadSeq(c) \in Int
<1>0. Packets \in Nat /\ QueueDepth \in Nat
  BY DepthAssumption
<1>1. /\ c.seq \in 1..(Packets + 1) /\ c.extraSeq \in 0..Packets
      /\ c.q \in [Pos -> 0..Packets] /\ c.head \in Pos /\ c.tail \in Pos
      /\ c.size \in 0..QueueDepth
      /\ c.eos \in BOOLEAN /\ c.stop \in BOOLEAN /\ c.active \in BOOLEAN /\ c.peer \in BOOLEAN
  BY DEF ConnType
<1>2. /\ c.seq \in Nat /\ 1 <= c.seq /\ c.seq <= Packets + 1
      /\ c.extraSeq \in Nat /\ c.extraSeq <= Packets
      /\ c.size \in Nat /\ c.size <= QueueDepth
  BY <1>0, <1>1, SMT
<1>3. HeadSeq(c) \in Int
  BY <1>2, SMT DEF HeadSeq
<1>4. QED
  BY <1>1, <1>2, <1>3

\* How far the tail moves.
LEMMA AdvanceFacts ==
    ASSUME NEW c \in ConnType, NEW q
    PROVE  /\ Advance(c, q) \in Nat /\ Advance(c, q) <= QueueDepth - c.size
           /\ \/ Advance(c, q) = QueueDepth - c.size
              \/ q[(c.tail + Advance(c, q)) % QueueDepth] = NoPacket
           /\ \A i \in Nat : i < Advance(c, q) => q[(c.tail + i) % QueueDepth] # NoPacket
<1> DEFINE S == {n \in 0..(QueueDepth - c.size) :
                    n = QueueDepth - c.size \/ q[(c.tail + n) % QueueDepth] = NoPacket}
<1>1. QueueDepth \in Nat /\ c.size \in Nat /\ c.size <= QueueDepth
  BY ConnFields, DepthAssumption
<1>2. PICK z \in Nat : z = QueueDepth - c.size
  BY <1>1, SMT
<1>3. z \in 0..z /\ \A n \in 0..z : n \in Nat /\ n <= z
  BY <1>2, SMT
<1>4. z \in S
  BY <1>2, <1>3
<1>5. S \in SUBSET Nat /\ \A n \in S : n <= z /\ (n = z \/ q[(c.tail + n) % QueueDepth] = NoPacket)
  BY <1>2, <1>3
<1>6. Advance(c, q) = Min(S)
  BY DEF Advance
<1>7. \A n \in 0..z : n = z \/ q[(c.tail + n) % QueueDepth] = NoPacket => n \in S
  BY <1>2
<1> HIDE DEF S
<1>8. Min(S) \in S /\ \A y \in S : Min(S) <= y
  BY <1>4, <1>5, MinFacts
<1>9. PICK m \in Nat : m = Advance(c, q)
  BY <1>5, <1>6, <1>8
<1>10. ASSUME NEW i \in Nat, i < m PROVE q[(c.tail + i) % QueueDepth] # NoPacket
  <2>1. i \in 0..z
    BY <1>5, <1>6, <1>8, <1>9, <1>10, SMT
  <2>2. ~(m <= i)
    BY <1>10, SMT
  <2>3. QED
    BY <1>6, <1>7, <1>8, <1>9, <2>1, <2>2
<1>11. QED
  BY <1>2, <1>5, <1>6, <1>8, <1>9, <1>10

\* The places of the window are different.
LEMMA WindowPlaces ==
    ASSUME NEW c \in ConnType, NEW a \in Int, NEW b \in Int, PosOf(a) = PosOf(b),
           a \in HeadSeq(c)..(HeadSeq(c) + QueueDepth - 1),
           b \in HeadSeq(c)..(HeadSeq(c) + QueueDepth - 1)
    PROVE  a = b
<1>1. QueueDepth \in Nat /\ HeadSeq(c) \in Int
  BY ConnFields, DepthAssumption
<1>2. CASE a <= b
  <2>1. b - a < QueueDepth
    BY <1>1, SMT
  <2>2. QED
    BY <1>2, <2>1, PosInjective
<1>3. CASE ~(a <= b)
  <2>1. b <= a /\ a - b < QueueDepth
    BY <1>1, <1>3, SMT
  <2>2. QED
    BY <2>1, PosInjective
<1>4. QED
  BY <1>2, <1>3

\* d is c with packet s stored.
Stored(c, s, d) ==
    /\ d \in ConnType /\ RingInv(d) /\ HeadSeq(d) = HeadSeq(c)
    /\ c.seq <= d.seq /\ c.size <= d.size
    /\ d.extraSeq = c.extraSeq /\ d.head = c.head
    /\ d.stop = c.stop /\ d.active = c.active
    /\ \A p \in Pos : c.q[p] # NoPacket => d.q[p] = c.q[p]
    /\ d.q[PosOf(s)] = s
    /\ PosOf(s) = c.tail <=> s = c.seq
    /\ s = c.seq => 0 < d.size
    /\ s # c.seq => d.size = c.size

\* handleDataPacket() stores packet s of the window in an empty place.
LEMMA StoreFacts ==
    ASSUME NEW c \in ConnType, RingInv(c), NEW s \in Seq1, s >= c.seq,
           s - HeadSeq(c) < QueueDepth, c.q[PosOf(s)] = NoPacket,
           NEW d, d = StorePacket(c, s)
    PROVE  Stored(c, s, d)
<1> DEFINE q2 == [c.q EXCEPT ![PosOf(s)] = s]
           n == Advance(c, q2)
           H == HeadSeq(c)
<1>1. /\ c.seq \in Nat /\ 1 <= c.seq /\ c.seq <= Packets + 1 /\ c.size \in Nat /\ c.size <= QueueDepth
      /\ c.q \in [Pos -> 0..Packets] /\ c.head \in Pos /\ c.tail \in Pos
      /\ c.eos \in BOOLEAN /\ c.extraSeq \in Nat /\ HeadSeq(c) \in Int
  BY ConnFields
<1>2. QueueDepth \in Nat /\ QueueDepth # 0 /\ Packets \in Nat /\ Packets # 0
  BY DepthAssumption
<1>3. s \in Int /\ s \in 1..Packets /\ s \in 0..Packets /\ s # NoPacket
  BY <1>2, SMT DEF Seq1, NoPacket
<1>4. PosOf(s) \in Pos
  BY <1>3, PosFacts
<1>5. q2 \in [Pos -> 0..Packets] /\ q2[PosOf(s)] = s
      /\ \A p \in Pos : p # PosOf(s) => q2[p] = c.q[p]
  BY <1>1, <1>3, <1>4
<1>6. /\ c.head = PosOf(H) /\ c.tail = PosOf(c.seq) /\ 1 <= H
      /\ \A t \in H..(c.seq - 1) : c.q[PosOf(t)] = t
      /\ \A p \in Pos : c.q[p] # NoPacket => c.q[p] \in H..(H + QueueDepth - 1) /\ PosOf(c.q[p]) = p
      /\ c.size < QueueDepth => c.q[c.tail] = NoPacket
      /\ c.extraSeq = H - 1
  BY DEF RingInv
<1>7. s \in H..(H + QueueDepth - 1) /\ c.size < QueueDepth /\ c.seq \in H..(H + QueueDepth - 1)
      /\ c.seq \in Int
  BY <1>1, <1>2, <1>3, SMT DEF HeadSeq
<1> HIDE DEF q2, n, H
<1>8. ASSUME NEW t \in H..(c.seq - 1) PROVE q2[PosOf(t)] = t
  <2>1. t \in Int /\ t # NoPacket
    BY <1>1, <1>6, SMT DEF NoPacket, H
  <2>2. PosOf(t) \in Pos
    BY <2>1, PosFacts
  <2>3. c.q[PosOf(t)] = t
    BY <1>6
  <2>4. PosOf(t) # PosOf(s)
    BY <2>1, <2>3
  <2>5. QED
    BY <1>5, <2>2, <2>3, <2>4
<1>9. ASSUME NEW p \in Pos, q2[p] # NoPacket
      PROVE  q2[p] \in H..(H + QueueDepth - 1) /\ PosOf(q2[p]) = p
  <2>1. CASE p = PosOf(s)
    BY <1>5, <1>7, <2>1
  <2>2. CASE p # PosOf(s)
    BY <1>5, <1>6, <1>9, <2>2
  <2>3. QED
    BY <2>1, <2>2
<1>10. PosOf(s) = c.tail <=> s = c.seq
  <2>1. PosOf(s) = PosOf(c.seq) => s = c.seq
    BY <1>3, <1>7, WindowPlaces DEF H
  <2>2. QED
    BY <1>6, <2>1
<1>11. \A p \in Pos : c.q[p] # NoPacket => q2[p] = c.q[p]
  BY <1>5
<1>12. CASE s # c.seq
  <2>1. d = [c EXCEPT !.q = q2]
    BY <1>10, <1>12 DEF StorePacket, q2
  <2>2. d \in ConnType
    BY <1>5, <2>1 DEF ConnType
  <2>3. /\ d.q = q2 /\ d.seq = c.seq /\ d.size = c.size /\ d.head = c.head /\ d.tail = c.tail
        /\ d.extraSeq = c.extraSeq /\ d.stop = c.stop /\ d.active = c.active
    BY <2>1 DEF ConnType
  <2>4. HeadSeq(d) = H
    BY <2>3 DEF HeadSeq, H
  <2>5. c.size < QueueDepth => q2[c.tail] = NoPacket
    BY <1>1, <1>5, <1>6, <1>10, <1>12
  <2>6. RingInv(d)
    BY <1>6, <1>8, <1>9, <2>3, <2>4, <2>5 DEF RingInv
  <2>7. c.seq <= d.seq /\ c.size <= d.size
    BY <1>1, <2>3, SMT
  <2>8. QED
    BY <1>5, <1>10, <1>11, <1>12, <2>2, <2>3, <2>4, <2>6, <2>7 DEF H, Stored
<1>13. CASE s = c.seq
  <2>1. d = [c EXCEPT !.q = q2, !.size = @ + n, !.tail = (@ + n) % QueueDepth, !.seq = @ + n,
                      !.eos = @ \/ IsEos(q2[(c.tail + n + QueueDepth - 1) % QueueDepth])]
    BY <1>10, <1>13 DEF StorePacket, q2, n
  <2>2. PICK k \in Nat : k = n
    BY AdvanceFacts DEF n
  <2>3. /\ k <= QueueDepth - c.size
        /\ k = QueueDepth - c.size \/ q2[(c.tail + k) % QueueDepth] = NoPacket
        /\ \A i \in Nat : i < k => q2[(c.tail + i) % QueueDepth] # NoPacket
    BY <2>2, AdvanceFacts DEF n
  <2>4. \A i \in Nat : (c.tail + i) % QueueDepth = PosOf(c.seq + i)
    <3>1. \A i \in Nat : i \in Int
      BY SMT
    <3>2. QED
      BY <1>6, <1>7, <3>1, PosFacts
  <2>5. k # 0
    <3>1. c.seq + 0 = c.seq /\ 0 # QueueDepth - c.size /\ 0 \in Nat
      BY <1>1, <1>2, <1>7, SMT
    <3>2. k = 0 => q2[PosOf(c.seq)] = NoPacket
      BY <2>3, <2>4, <3>1
    <3>3. QED
      BY <1>3, <1>5, <1>13, <3>2
  <2>6. ASSUME NEW t \in H..(c.seq + k - 1) PROVE q2[PosOf(t)] = t /\ t \in Int
    <3>1. CASE t < c.seq
      <4>1. t \in H..(c.seq - 1) /\ t \in Int
        BY <1>1, <2>2, <3>1, SMT DEF H
      <4>2. QED
        BY <1>8, <4>1
    <3>2. CASE ~(t < c.seq)
      <4>1. PICK i \in Nat : t = c.seq + i /\ i < k
        <5>1. t - c.seq \in Nat /\ t = c.seq + (t - c.seq) /\ t - c.seq < k
          BY <1>1, <2>2, <3>2, SMT DEF H
        <5>2. QED
          BY <5>1
      <4>2. PosOf(t) \in Pos /\ t \in Int
        <5>1. t \in Int
          BY <1>1, <4>1, SMT
        <5>2. QED
          BY <5>1, PosFacts
      <4>3. q2[PosOf(t)] # NoPacket
        BY <2>3, <2>4, <4>1
      <4>4. q2[PosOf(t)] \in H..(H + QueueDepth - 1) /\ PosOf(q2[PosOf(t)]) = PosOf(t)
        BY <1>9, <4>2, <4>3
      <4>5. t \in H..(H + QueueDepth - 1)
        BY <1>1, <1>2, <2>2, <2>3, <4>1, SMT DEF H, HeadSeq
      <4>6. q2[PosOf(t)] \in Int
        BY <1>1, <1>2, <4>4, SMT DEF H
      <4>7. QED
        BY <4>2, <4>4, <4>5, <4>6, WindowPlaces DEF H
    <3>3. QED
      BY <3>1, <3>2
  <2>7. c.seq + k \in 1..(Packets + 1) /\ c.size + k \in 0..QueueDepth
    <3>1. c.seq + k - 1 \in H..(c.seq + k - 1)
      BY <1>1, <2>2, <2>5, SMT DEF H, HeadSeq
    <3>2. q2[PosOf(c.seq + k - 1)] = c.seq + k - 1 /\ PosOf(c.seq + k - 1) \in Pos
      BY <2>6, <3>1, PosFacts
    <3>3. c.seq + k - 1 \in 0..Packets
      BY <1>5, <3>2
    <3>4. QED
      BY <1>1, <1>2, <2>2, <2>3, <3>3, SMT
  <2>8. PosOf(c.seq + k) \in Pos /\ (c.tail + k) % QueueDepth = PosOf(c.seq + k)
    <3>1. c.seq + k \in Int
      BY <1>1, SMT
    <3>2. QED
      BY <2>4, <3>1, PosFacts
  <2>9. (c.eos \/ IsEos(q2[(c.tail + n + QueueDepth - 1) % QueueDepth])) \in BOOLEAN
    OBVIOUS
  <2>10. PICK b \in BOOLEAN : d = [c EXCEPT !.q = q2, !.size = c.size + k, !.tail = PosOf(c.seq + k),
                                            !.seq = c.seq + k, !.eos = b]
    BY <2>1, <2>2, <2>8, <2>9
  <2>11. d \in ConnType
    BY <1>5, <2>7, <2>8, <2>10 DEF ConnType
  <2>12. /\ d.q = q2 /\ d.seq = c.seq + k /\ d.size = c.size + k /\ d.head = c.head
         /\ d.tail = PosOf(c.seq + k)
         /\ d.extraSeq = c.extraSeq /\ d.stop = c.stop /\ d.active = c.active
    BY <2>10 DEF ConnType
  <2>13. HeadSeq(d) = H
    BY <1>1, <2>2, <2>12, SMT DEF HeadSeq, H
  <2>14. d.size < QueueDepth => q2[d.tail] = NoPacket
    <3>1. c.size + k < QueueDepth => k # QueueDepth - c.size
      BY <1>1, <1>2, <2>2, SMT
    <3>2. QED
      BY <2>3, <2>8, <2>12, <3>1
  <2>15. RingInv(d)
    <3>1. /\ HeadSeq(d) >= 1 /\ d.head = PosOf(HeadSeq(d)) /\ d.tail = PosOf(d.seq)
          /\ d.extraSeq = HeadSeq(d) - 1
      BY <1>1, <1>6, <2>12, <2>13, SMT DEF H
    <3>2. ASSUME NEW t \in HeadSeq(d)..(d.seq - 1) PROVE d.q[PosOf(t)] = t
      <4>1. HeadSeq(d)..(d.seq - 1) = H..(c.seq + k - 1)
        <5>1. d.seq - 1 = c.seq + k - 1
          BY <1>1, <2>12, SMT
        <5>2. QED
          BY <2>13, <5>1
      <4>2. t \in H..(c.seq + k - 1)
        BY <4>1
      <4>3. q2[PosOf(t)] = t
        BY <2>6, <4>2
      <4>4. QED
        BY <2>12, <4>3
    <3>3. \A p \in Pos : d.q[p] # NoPacket =>
             d.q[p] \in HeadSeq(d)..(HeadSeq(d) + QueueDepth - 1) /\ PosOf(d.q[p]) = p
      BY <1>9, <2>12, <2>13
    <3>4. d.size < QueueDepth => d.q[d.tail] = NoPacket
      BY <2>12, <2>14
    <3>5. QED
      BY <3>1, <3>2, <3>3, <3>4 DEF RingInv
  <2>16. c.seq <= d.seq /\ c.size <= d.size /\ 0 < d.size
    BY <1>1, <2>2, <2>5, <2>12, SMT
  <2>17. QED
    BY <1>5, <1>10, <1>11, <1>13, <2>11, <2>12, <2>13, <2>15, <2>16 DEF H, Stored
<1>14. QED
  BY <1>12, <1>13

\* The connection after the set-up.
LEMMA NewConnFacts == NewConn \in ConnType /\ RingInv(NewConn) /\ HeadSeq(NewConn) = 1
<1>1. QueueDepth \in Nat /\ QueueDepth # 0 /\ Packets \in Nat
  BY DepthAssumption
<1>2. /\ 1 \in 1..(Packets + 1) /\ 0 \in 0..Packets /\ 0 \in 0..QueueDepth /\ 0 \in Pos
      /\ NoPacket \in 0..Packets
  BY <1>1, SMT DEF Pos, NoPacket
<1>3. NewConn \in ConnType
  BY <1>2 DEF NewConn, ConnType
<1>4. /\ NewConn.seq = 1 /\ NewConn.extraSeq = 0 /\ NewConn.head = 0 /\ NewConn.tail = 0
      /\ NewConn.size = 0 /\ \A p \in Pos : NewConn.q[p] = NoPacket
  BY DEF NewConn
<1>5. HeadSeq(NewConn) = 1
  BY <1>4, SMT DEF HeadSeq
<1>6. PosOf(1) = 0
  <2>1. PosOf(1) = 0 % QueueDepth
    BY SMT DEF PosOf
  <2>2. 0 % QueueDepth = 0
    BY <1>1, SMT
  <2>3. QED
    BY <2>1, <2>2
<1>7. 1..(1 - 1) = {} /\ 0 = 1 - 1 /\ 1 >= 1
  BY SMT
<1>8. RingInv(NewConn)
  BY <1>2, <1>4, <1>5, <1>6, <1>7 DEF RingInv
<1>9. QED
  BY <1>3, <1>5, <1>8

-----------------------------------------------------------------------------
(* The sender.                                                              *)

\* The network never carries what was not put on it.
LEMMA NetSubset ==
    ASSUME NEW rest, NEW new, Transmit(rest, new)
    PROVE  net' \subseteq rest \cup new
BY DEF Transmit

LEMMA NetTyped ==
    ASSUME net \subseteq Message, NEW rest \in SUBSET net, NEW new \in SUBSET Message, Transmit(rest, new)
    PROVE  net' \subseteq Message
<1>1. net' \subseteq rest \cup new
  BY NetSubset
<1>2. QED
  BY <1>1

LEMMA MessageTypes ==
    /\ \A s \in Seq1 : Data(s) \in Message /\ Query(s) \in Message
    /\ \A s \in 0..Packets, e \in 0..Packets, b \in BOOLEAN : Ack(s, e, b) \in Message
    /\ \A s \in Seq1, e \in 0..Packets : DupAck(s, e) \in Message
    /\ \A s \in Seq1, l \in SUBSET Seq1 : DisorderAck(s, l) \in Message
BY SMTT(30) DEF Data, Query, Ack, DupAck, DisorderAck, Message

LEMMA MessageFields ==
    ASSUME NEW m \in Message
    PROVE  /\ m.type \in {"data", "query"} => m.seq \in Seq1
           /\ m.type = "ack" => m.seq \in 0..Packets /\ m.extraSeq \in 0..Packets /\ m.stop \in BOOLEAN
           /\ m.type = "dup" => m.seq \in Seq1 /\ m.extraSeq \in 0..Packets
           /\ m.type = "disorder" => m.seq \in Seq1 /\ m.lost \in SUBSET Seq1
BY SMT DEF Message

LEMMA FiniteUnack ==
    ASSUME NEW U \in SUBSET Seq1
    PROVE  IsFiniteSet(U) /\ Cardinality(U) \in Nat
<1>1. IsFiniteSet(Seq1)
  <2>1. 1 \in Int /\ Packets \in Int
    BY DepthAssumption, SMT
  <2>2. QED
    BY <2>1, FS_Interval DEF Seq1
<1>2. QED
  BY <1>1, FS_Subset, FS_CardinalityType

\* k packets more.
LEMMA CardinalitySent ==
    ASSUME NEW U \in SUBSET Seq1, NEW S \in Nat, NEW k \in Nat, NEW V, V = U \cup (S + 1)..(S + k)
    PROVE  Cardinality(V) <= Cardinality(U) + k
<1> DEFINE W == (S + 1)..(S + k)
<1>1. S + 1 \in Int /\ S + k \in Int
  BY SMT
<1>2. IsFiniteSet(W) /\ Cardinality(W) = IF S + 1 > S + k THEN 0 ELSE (S + k) - (S + 1) + 1
  BY <1>1, FS_Interval
<1>3. Cardinality(W) = k
  BY <1>2, SMT
<1>4. IsFiniteSet(U) /\ Cardinality(U) \in Nat
  BY FiniteUnack
<1> HIDE DEF W
<1>5. /\ IsFiniteSet(U \cup W) /\ IsFiniteSet(U \cap W)
      /\ Cardinality(U \cup W) = Cardinality(U) + Cardinality(W) - Cardinality(U \cap W)
  BY <1>2, <1>4, FS_Union, FS_Intersection
<1>6. Cardinality(U \cap W) \in Nat
  BY <1>5, FS_CardinalityType
<1>7. V = U \cup W
  BY DEF W
<1>8. Cardinality(V) = Cardinality(U) + k - Cardinality(U \cap W)
  BY <1>3, <1>5, <1>7
<1>9. \A a, b \in Nat : a + k - b <= a + k
  BY SMT
<1>10. QED
  BY <1>4, <1>6, <1>8, <1>9

\* sendBuffers() has moved the first k of snd, which began after packet S.
Moved(snd, unack, cap, rest, resent, S, k) ==
    /\ k <= Len(snd) /\ k <= cap
    /\ sndQueue' \in Seq(Seq1) /\ Len(sndQueue') = Len(snd) - k
    /\ \A i \in 1..Len(sndQueue') : sndQueue'[i] = S + k + i
    /\ unackQueue' = unack \cup (S + 1)..(S + k)
    /\ unackQueue' \in SUBSET Seq1
    /\ Cardinality(unackQueue') <= Cardinality(unack) + k
    /\ capacity' = cap - k
    /\ net' \subseteq rest \cup (resent \cup {Data(t) : t \in (S + 1)..(S + k)})

LEMMA SendFacts ==
    ASSUME NEW snd \in Seq(Seq1), NEW unack \in SUBSET Seq1, NEW cap \in Nat, NEW st,
           NEW rest, NEW resent, NEW S \in Nat,
           \A i \in 1..Len(snd) : snd[i] = S + i,
           SendBuffers(snd, unack, cap, st, rest, resent)
    PROVE  \E k \in Nat : Moved(snd, unack, cap, rest, resent, S, k)
<1>1. PICK k \in 0..Len(snd) :
              /\ k <= cap
              /\ sndQueue' = SubSeq(snd, k + 1, Len(snd))
              /\ unackQueue' = unack \union {snd[i] : i \in 1..k}
              /\ capacity' = cap - k
              /\ Transmit(rest, resent \cup {Data(snd[i]) : i \in 1..k})
  BY DEF SendBuffers
<1>2. Len(snd) \in Nat /\ k \in Nat /\ k <= Len(snd)
  BY SMT
<1>3. sndQueue' \in Seq(Seq1) /\ Len(sndQueue') = Len(snd) - k
      /\ \A i \in 1..(Len(snd) - k) : sndQueue'[i] = snd[i + k]
  BY <1>1, <1>2, SMT
<1>4. ASSUME NEW i \in 1..Len(sndQueue') PROVE sndQueue'[i] = S + k + i
  <2>1. i \in 1..(Len(snd) - k)
    BY <1>3
  <2>2. i + k \in 1..Len(snd)
    BY <1>2, <2>1, SMT
  <2>3. snd[i + k] = S + (i + k)
    BY <2>2
  <2>4. S + (i + k) = S + k + i
    BY <1>2, <2>1, SMT
  <2>5. QED
    BY <1>3, <2>1, <2>3, <2>4
<1>5. /\ \A i \in 1..k : snd[i] \in (S + 1)..(S + k) /\ snd[i] = S + i /\ snd[i] \in Seq1
      /\ \A t \in (S + 1)..(S + k) : \E i \in 1..k : t = snd[i]
  <2>1. ASSUME NEW i \in 1..k PROVE snd[i] \in (S + 1)..(S + k) /\ snd[i] = S + i /\ snd[i] \in Seq1
    <3>1. i \in 1..Len(snd)
      BY <1>2, SMT
    <3>2. snd[i] = S + i /\ snd[i] \in Seq1
      BY <3>1, SMT
    <3>3. QED
      BY <1>2, <3>2, SMT
  <2>2. ASSUME NEW t \in (S + 1)..(S + k) PROVE \E i \in 1..k : t = snd[i]
    <3>1. t - S \in 1..k /\ S + (t - S) = t /\ t - S \in 1..Len(snd)
      BY <1>2, SMT
    <3>2. QED
      BY <3>1
  <2>3. QED
    BY <2>1, <2>2
<1>6. {snd[i] : i \in 1..k} = (S + 1)..(S + k)
  BY <1>5
<1>7. {Data(snd[i]) : i \in 1..k} = {Data(t) : t \in (S + 1)..(S + k)}
  BY <1>5
<1>8. unackQueue' = unack \cup (S + 1)..(S + k) /\ unackQueue' \in SUBSET Seq1
  BY <1>1, <1>5, <1>6
<1>9. Cardinality(unackQueue') <= Cardinality(unack) + k
  BY <1>2, <1>8, CardinalitySent
<1>10. net' \subseteq rest \cup (resent \cup {Data(t) : t \in (S + 1)..(S + k)})
  BY <1>1, <1>7, NetSubset
<1>11. QED
  BY <1>1, <1>2, <1>3, <1>4, <1>8, <1>9, <1>10 DEF Moved

\* A connection can have one buffer at least.
LEMMA MaxBuffers == MaxSndBuffers \in Nat /\ MaxSndBuffers # 0
<1>1. SndQueueDepth \in Nat \ {0} /\ Conns \in Nat \ {0}
  BY DepthAssumption
<1>2. Conns * SndQueueDepth \in Nat /\ Conns * SndQueueDepth >= 1
  BY <1>1, SMTT(30)
<1>3. PICK p \in Nat : p = Conns * SndQueueDepth /\ p >= 1
  BY <1>2
<1>4. p + 0 \in Nat /\ p + 1 \in Nat /\ p + 0 # 0 /\ p + 1 # 0
  BY <1>3, SMT
<1>5. PoolSize \in Nat /\ PoolSize # 0
  BY <1>3, <1>4 DEF PoolSize
<1>6. QED
  BY <1>1, <1>5 DEF MaxSndBuffers

LEMMA SenderFields ==
    ASSUME TypeInv, QueueInv
    PROVE  /\ Sent \in Nat /\ Sent <= Packets /\ Sent = sndSeq - 1 - Len(sndQueue)
           /\ sndQueue \in Seq(Seq1) /\ Len(sndQueue) \in Nat
           /\ sndSeq \in Nat /\ 1 <= sndSeq /\ sndSeq <= Packets + 1
           /\ unackQueue \in SUBSET Seq1 /\ Cardinality(unackQueue) \in Nat
           /\ capacity \in Nat /\ consumedSeq \in Nat /\ consumedSeq <= Packets
<1>1. Packets \in Nat
  BY DepthAssumption
<1>2. /\ sndSeq \in 1..(Packets + 1) /\ sndQueue \in Seq(Seq1) /\ unackQueue \in SUBSET Seq1
      /\ capacity \in Nat /\ consumedSeq \in 0..Packets
  BY DEF TypeInv
<1>3. Sent \in 0..Packets
  BY DEF QueueInv
<1>4. /\ sndSeq \in Nat /\ 1 <= sndSeq /\ sndSeq <= Packets + 1 /\ consumedSeq \in Nat
      /\ consumedSeq <= Packets /\ Len(sndQueue) \in Nat /\ Sent \in Nat /\ Sent <= Packets
  BY <1>1, <1>2, <1>3, SMT
<1>5. Cardinality(unackQueue) \in Nat
  BY <1>2, FiniteUnack
<1>6. QED
  BY <1>2, <1>4, <1>5 DEF Sent

\* k packets were sent, from a queue of unacknowledged packets unack and a
\* capacity cap.
SentMore(unack, cap, k) ==
    /\ Sent' = Sent + k /\ capacity' = cap - k
    /\ unackQueue' = unack \cup (Sent + 1)..(Sent + k)
    /\ \A m \in net' : m \in net \/ \E t \in 1..(Sent + k) : m = Data(t)

\* sendBuffers() keeps the queues in order and within their depth.
LEMMA SendStep ==
    ASSUME TypeInv, QueueInv,
           NEW snd \in Seq(Seq1), NEW unack \in SUBSET unackQueue, NEW cap \in Nat, NEW st,
           NEW rest \in SUBSET net, NEW resent \in SUBSET {Data(t) : t \in 1..Sent},
           Len(snd) + Cardinality(unack) <= MaxSndBuffers,
           sndSeq' \in 1..(Packets + 1), sndSeq' - 1 - Len(snd) = Sent,
           pc' = "run" => Len(snd) + Cardinality(unack) < MaxSndBuffers,
           pc' \in {"run", "wait"} => sndSeq' <= Packets,
           \A i \in 1..Len(snd) : snd[i] = Sent + i,
           SendBuffers(snd, unack, cap, st, rest, resent)
    PROVE  /\ QueueInv' /\ sndQueue' \in Seq(Seq1) /\ unackQueue' \in SUBSET Seq1
           /\ capacity' \in Nat /\ net' \subseteq Message
           /\ \E k \in Nat : SentMore(unack, cap, k)
<1>0. PICK S \in Nat : S = Sent
  BY SenderFields
<1>1. /\ S \in Nat /\ S <= Packets /\ unackQueue \in SUBSET Seq1 /\ Packets \in Nat
      /\ MaxSndBuffers \in Nat
  BY <1>0, SenderFields, DepthAssumption, MaxBuffers
<1>2. unack \in SUBSET Seq1 /\ unack \subseteq 1..S
  BY <1>0, <1>1 DEF QueueInv
<1>3. \A i \in 1..Len(snd) : snd[i] = S + i
  BY <1>0
<1>4. PICK k \in Nat : Moved(snd, unack, cap, rest, resent, S, k)
  BY <1>2, <1>3, SendFacts
<1>5. /\ k <= Len(snd) /\ k <= cap
      /\ sndQueue' \in Seq(Seq1) /\ Len(sndQueue') = Len(snd) - k
      /\ \A i \in 1..Len(sndQueue') : sndQueue'[i] = S + k + i
      /\ unackQueue' = unack \cup (S + 1)..(S + k)
      /\ unackQueue' \in SUBSET Seq1
      /\ Cardinality(unackQueue') <= Cardinality(unack) + k
      /\ capacity' = cap - k
      /\ net' \subseteq rest \cup (resent \cup {Data(t) : t \in (S + 1)..(S + k)})
  BY <1>4 DEF Moved
<1>6. Len(snd) \in Nat /\ Len(sndQueue') \in Nat /\ sndSeq' \in Nat /\ sndSeq' <= Packets + 1
  BY <1>1, <1>5, SMT
<1>7. Sent' = S + k /\ S + k \in 0..Packets
  <2>1. Sent' = sndSeq' - 1 - Len(sndQueue')
    BY DEF Sent
  <2>2. sndSeq' - 1 - Len(snd) = S
    BY <1>0
  <2>3. Len(sndQueue') = Len(snd) - k
    BY <1>5
  <2>4. PICK l \in Nat, m \in Nat, q \in Nat :
            l = Len(snd) /\ m = Len(sndQueue') /\ q = sndSeq' /\ q <= Packets + 1
    BY <1>6
  <2>5. q - 1 - l = S /\ m = l - k /\ Sent' = q - 1 - m
    BY <2>1, <2>2, <2>3, <2>4
  <2>6. q - 1 - m = S + k /\ S + k \in 0..Packets
    <3>1. Packets \in Nat /\ q <= Packets + 1
      BY <1>1, <2>4
    <3>2. QED
      BY <2>5, <3>1, SMT
  <2>7. QED
    BY <2>5, <2>6
<1>8. 1..S \subseteq 1..(S + k) /\ (S + 1)..(S + k) \subseteq 1..(S + k) /\ 1..(S + k) \subseteq Seq1
  BY <1>1, <1>7, SMT DEF Seq1
<1>9. unackQueue' \subseteq 1..(S + k)
  BY <1>2, <1>5, <1>8
<1>10. /\ Len(sndQueue') + Cardinality(unackQueue') <= MaxSndBuffers
       /\ pc' = "run" => Len(sndQueue') + Cardinality(unackQueue') < MaxSndBuffers
  <2>1. PICK l \in Nat, m \in Nat, u \in Nat, v \in Nat :
            l = Len(snd) /\ m = Len(sndQueue') /\ u = Cardinality(unack) /\ v = Cardinality(unackQueue')
    BY <1>2, <1>5, <1>6, FiniteUnack
  <2>2. /\ m = l - k /\ v <= u + k /\ l + u <= MaxSndBuffers /\ MaxSndBuffers \in Nat
        /\ pc' = "run" => l + u < MaxSndBuffers
    BY <1>1, <1>5, <2>1
  <2>3. m + v <= MaxSndBuffers /\ (l + u < MaxSndBuffers => m + v < MaxSndBuffers)
    BY <2>2, SMTT(30)
  <2>4. QED
    BY <2>1, <2>2, <2>3
<1>11. QueueInv'
  <2>1. pc' \in {"run", "wait"} => sndSeq' <= Packets
    OBVIOUS
  <2>2. pc' = "run" => Len(sndQueue') + Cardinality(unackQueue') < MaxSndBuffers
    BY <1>10
  <2>3. Sent' \in 0..Packets /\ unackQueue' \subseteq 1..Sent'
    BY <1>7, <1>9
  <2>4. \A i \in 1..Len(sndQueue') : sndQueue'[i] = Sent' + i
    BY <1>5, <1>7
  <2>5. QED
    BY <1>10, <2>1, <2>2, <2>3, <2>4 DEF QueueInv
<1>12. ASSUME NEW m \in net' PROVE m \in net \/ \E t \in 1..(S + k) : m = Data(t)
  <2>1. m \in rest \/ m \in resent \/ m \in {Data(t) : t \in (S + 1)..(S + k)}
    BY <1>5
  <2>2. m \in resent => \E t \in 1..S : m = Data(t)
    BY <1>0
  <2>3. QED
    BY <1>8, <2>1, <2>2
<1>13. net' \subseteq Message
  <2>1. net \subseteq Message
    BY DEF TypeInv
  <2>2. QED
    BY <1>8, <1>12, <2>1, MessageTypes
<1>14. capacity' \in Nat
  BY <1>5, SMT
<1>15. SentMore(unack, cap, k)
  BY <1>0, <1>5, <1>7, <1>12 DEF SentMore
<1>16. QED
  BY <1>5, <1>11, <1>13, <1>14, <1>15

\* handleAcks() after a message, whichever packets it acknowledges.
LEMMA AckStep ==
    ASSUME TypeInv, QueueInv, UNCHANGED <<pc, sndSeq>>,
           NEW acked \in SUBSET unackQueue, NEW cap \in Nat,
           NEW rest \in SUBSET net, NEW resent \in SUBSET {Data(t) : t \in 1..Sent},
           AfterAck(acked, cap, rest, resent)
    PROVE  /\ QueueInv' /\ sndQueue' \in Seq(Seq1) /\ unackQueue' \in SUBSET Seq1
           /\ capacity' \in Nat /\ net' \subseteq Message
           /\ receivedAckSeq' \in 0..Packets /\ started' \in BOOLEAN
           /\ \E k \in Nat : SentMore(unackQueue \ acked, cap, k)
<1>1. /\ Sent \in Nat /\ Sent <= Packets /\ Sent = sndSeq - 1 - Len(sndQueue)
      /\ sndQueue \in Seq(Seq1) /\ Len(sndQueue) \in Nat /\ sndSeq \in Nat
      /\ unackQueue \in SUBSET Seq1 /\ Cardinality(unackQueue) \in Nat
      /\ Packets \in Nat /\ MaxSndBuffers \in Nat
  BY SenderFields, DepthAssumption, MaxBuffers
<1>2. receivedAckSeq' \in 0..Packets /\ started' \in BOOLEAN
  <2> DEFINE heads == {s \in acked : \A u \in unackQueue : u < s => u \in acked}
  <2>1. receivedAckSeq' = (IF heads = {} THEN receivedAckSeq ELSE Max(heads))
        /\ started' = (started \/ 1 \in acked)
    BY DEF AfterAck, HandleAckedPackets
  <2>2. heads \in SUBSET (0..Packets)
    <3>1. Seq1 \subseteq 0..Packets
      BY <1>1, SMT DEF Seq1
    <3>2. QED
      BY <1>1, <3>1
  <2> HIDE DEF heads
  <2>3. heads # {} => Max(heads) \in 0..Packets
    BY <2>2, MaxFacts
  <2>4. receivedAckSeq \in 0..Packets
    BY DEF TypeInv
  <2>5. QED
    BY <2>1, <2>3, <2>4
<1>3. CASE SendBuffers(sndQueue, unackQueue \ acked, cap, started', rest, resent)
  <2> DEFINE unack == unackQueue \ acked
  <2>1. unack \in SUBSET unackQueue
    OBVIOUS
  <2>2. Cardinality(unack) <= Cardinality(unackQueue) /\ Cardinality(unack) \in Nat
    <3>1. IsFiniteSet(unackQueue)
      BY <1>1, FiniteUnack
    <3>2. QED
      BY <1>1, <2>1, <3>1, FS_Subset, FiniteUnack
  <2>3. /\ Len(sndQueue) + Cardinality(unackQueue) <= MaxSndBuffers
        /\ \A i \in 1..Len(sndQueue) : sndQueue[i] = Sent + i
        /\ pc \in {"run", "wait"} => sndSeq <= Packets
        /\ pc = "run" => Len(sndQueue) + Cardinality(unackQueue) < MaxSndBuffers
    BY DEF QueueInv
  <2> HIDE DEF unack
  <2>4. /\ Len(sndQueue) + Cardinality(unack) <= MaxSndBuffers
        /\ pc = "run" => Len(sndQueue) + Cardinality(unack) < MaxSndBuffers
    <3>1. PICK l \in Nat, u \in Nat, v \in Nat :
              l = Len(sndQueue) /\ u = Cardinality(unackQueue) /\ v = Cardinality(unack) /\ v <= u
      BY <1>1, <2>2
    <3>2. MaxSndBuffers \in Nat
      BY <1>1
    <3>3. /\ l + u <= MaxSndBuffers => l + v <= MaxSndBuffers
          /\ l + u < MaxSndBuffers => l + v < MaxSndBuffers
      BY <3>1, <3>2, SMT
    <3>4. QED
      BY <2>3, <3>1, <3>3
  <2>5. sndSeq' \in 1..(Packets + 1) /\ sndSeq' - 1 - Len(sndQueue) = Sent
    BY <1>1 DEF TypeInv
  <2>6. /\ pc' = "run" => Len(sndQueue) + Cardinality(unack) < MaxSndBuffers
        /\ pc' \in {"run", "wait"} => sndSeq' <= Packets
    <3>1. pc' = pc /\ sndSeq' = sndSeq
      OBVIOUS
    <3>2. QED
      BY <2>3, <2>4, <3>1
  <2>7. SendBuffers(sndQueue, unack, cap, started', rest, resent)
    BY <1>3 DEF unack
  <2>8. /\ QueueInv' /\ sndQueue' \in Seq(Seq1) /\ unackQueue' \in SUBSET Seq1
        /\ capacity' \in Nat /\ net' \subseteq Message
        /\ \E k \in Nat : SentMore(unack, cap, k)
    BY <1>1, <2>1, <2>3, <2>4, <2>5, <2>6, <2>7, SendStep
  <2>9. QED
    BY <1>2, <2>8 DEF unack
<1>4. CASE /\ acked = {} /\ cap = capacity
           /\ Transmit(rest, resent)
           /\ UNCHANGED <<sndQueue, unackQueue, capacity>>
  <2>1. net' \subseteq rest \cup resent
    BY <1>4, NetSubset
  <2>2. Sent' = Sent
    BY <1>4 DEF Sent
  <2>3. QueueInv'
    BY <1>4, <2>2 DEF QueueInv
  <2>4. Sent = Sent + 0 /\ cap = cap - 0 /\ (Sent + 1)..(Sent + 0) = {}
    BY <1>1, SMT
  <2>5. ASSUME NEW m \in net' PROVE m \in net \/ \E t \in 1..(Sent + 0) : m = Data(t)
    BY <2>1, <2>4
  <2>6. net' \subseteq Message
    <3>1. 1..Sent \subseteq Seq1
      BY <1>1, SMT DEF Seq1
    <3>2. net \subseteq Message
      BY DEF TypeInv
    <3>3. QED
      BY <2>4, <2>5, <3>1, <3>2, MessageTypes
  <2>7. unackQueue' = (unackQueue \ acked) \cup (Sent + 1)..(Sent + 0)
    BY <1>4, <2>4
  <2>8. Sent' = Sent + 0 /\ capacity' = cap - 0
    BY <1>4, <2>2, <2>4
  <2>9. 0 \in Nat
    BY SMT
  <2>10. /\ sndQueue' \in Seq(Seq1) /\ unackQueue' \in SUBSET Seq1 /\ capacity' \in Nat
    BY <1>4 DEF TypeInv
  <2>11. QED
    <3>1. SentMore(unackQueue \ acked, cap, 0)
      BY <2>5, <2>7, <2>8 DEF SentMore
    <3>2. QED
      BY <1>2, <2>3, <2>6, <2>9, <2>10, <3>1
<1>5. QED
  BY <1>3, <1>4 DEF AfterAck

\* A step of the sender with k packets sent and acked given back keeps what
\* WindowInv says, when all it took for arrived has arrived.
LEMMA SenderWindow ==
    ASSUME TypeInv, QueueInv, WindowInv, UNCHANGED receiver,
           NEW k \in Nat, NEW acked, NEW cap, SentMore(unackQueue \ acked, cap, k),
           Live => /\ \A s \in acked : Held(s)
                   /\ consumedSeq' \in Nat
                   /\ consumedSeq' <= conn.extraSeq
                   /\ cap = capacity + (consumedSeq' - consumedSeq)
                   /\ ~stopRequested'
    PROVE  WindowInv'
<1> SUFFICES ASSUME Live' PROVE WindowInv'
  BY DEF WindowInv
<1>0. /\ Sent \in Nat /\ Sent' = Sent + k /\ capacity' = cap - k
      /\ unackQueue' = (unackQueue \ acked) \cup (Sent + 1)..(Sent + k)
      /\ \A m \in net' : m \in net \/ \E t \in 1..(Sent + k) : m = Data(t)
  BY SenderFields DEF SentMore
<1>1. /\ main' = main /\ conn' = conn /\ cache' = cache /\ delivered' = delivered
  BY DEF receiver
<1>2. Live
  BY <1>1 DEF Live
<1>3. \A s : Held(s)' <=> Held(s)
  BY <1>1 DEF Held
<1>4. /\ \A m \in net : MsgOf(m)
      /\ cache \subseteq 1..Sent
      /\ consumedSeq <= conn.extraSeq
      /\ capacity = QueueDepth + consumedSeq - Sent
      /\ \A s \in 1..Sent : s \in unackQueue \/ Held(s)
  BY <1>2 DEF WindowInv
<1>5. 1..Sent \subseteq 1..(Sent + k) /\ \A s \in Int : s <= Sent => s <= Sent + k
  BY <1>0, SMT
<1>6. \A m \in net' : MsgOf(m)'
  <2> TAKE m \in net'
  <2>1. CASE m \in net
    <3>1. MsgOf(m)
      BY <1>4, <2>1
    <3>2. m \in Message
      BY <2>1 DEF TypeInv
    <3>3. m.type = "data" => m.seq \in Int
      <4>1. m.type = "data" => m.seq \in Seq1
        BY <3>2, MessageFields
      <4>2. QED
        BY <4>1, SMT DEF Seq1
    <3>4. QED
      BY <1>0, <1>1, <1>3, <1>5, <3>1, <3>3 DEF MsgOf
  <2>2. CASE \E t \in 1..(Sent + k) : m = Data(t)
    <3>1. PICK t \in 1..(Sent + k) : m = Data(t)
      BY <2>2
    <3>2. m.type = "data" /\ m.seq = t
      BY <3>1 DEF Data
    <3>3. t <= Sent + k
      BY <1>0, SMT
    <3>4. m.seq <= Sent'
      BY <1>0, <3>2, <3>3
    <3>5. QED
      BY <3>2, <3>4 DEF MsgOf
  <2>3. QED
    BY <1>0, <2>1, <2>2
<1>7. cache' \subseteq 1..Sent'
  BY <1>0, <1>1, <1>4, <1>5
<1>8. capacity' = QueueDepth + consumedSeq' - Sent'
  <2>1. consumedSeq \in Nat /\ QueueDepth \in Nat
    <3>1. consumedSeq \in 0..Packets
      BY DEF TypeInv
    <3>2. QED
      BY <3>1, DepthAssumption, SMT
  <2>2. capacity' = (QueueDepth + consumedSeq - Sent) + (consumedSeq' - consumedSeq) - k
    <3>1. capacity' = cap - k /\ cap = capacity + (consumedSeq' - consumedSeq)
      BY <1>0, <1>2
    <3>2. capacity = QueueDepth + consumedSeq - Sent
      BY <1>4
    <3>3. QED
      BY <1>0, <1>2, <2>1, <3>1, <3>2, SMT
  <2>3. consumedSeq' \in Nat
    BY <1>2
  <2>4. (QueueDepth + consumedSeq - Sent) + (consumedSeq' - consumedSeq) - k
           = QueueDepth + consumedSeq' - (Sent + k)
    BY <1>0, <2>1, <2>3, SMT
  <2>5. QED
    BY <1>0, <2>2, <2>4
<1>9. ASSUME NEW s \in 1..Sent' PROVE s \in unackQueue' \/ Held(s)'
  <2>1. s \in 1..Sent \/ s \in (Sent + 1)..(Sent + k)
    <3>1. s \in 1..(Sent + k)
      BY <1>0
    <3>2. QED
      BY <1>0, <3>1, SMT
  <2>2. QED
    BY <1>0, <1>2, <1>3, <1>4, <2>1
<1>10. consumedSeq' <= conn'.extraSeq /\ ~stopRequested'
  BY <1>1, <1>2
<1>11. QED
  BY <1>6, <1>7, <1>8, <1>9, <1>10 DEF WindowInv

\* ReceiverInv is about the receiver only.
LEMMA SameReceiver ==
    ASSUME ReceiverInv, UNCHANGED <<main, conn, reached, delivered>>
    PROVE  ReceiverInv'
BY DEF ReceiverInv, Live, RingInv, HeadSeq

LEMMA SenderReceiver ==
    ASSUME ReceiverInv, UNCHANGED receiver
    PROVE  ReceiverInv'
BY SameReceiver DEF receiver

\* The main thread moves where it has nothing in its hands.
LEMMA MainMoves ==
    ASSUME ReceiverInv, Live, conn' = conn, delivered' = delivered,
           main \notin {"read", "eos"}, main' \in {"cached", "idle", "wait"},
           reached' <=> main' = "wait" /\ conn.size > 0
    PROVE  ReceiverInv'
<1>1. HeadSeq(conn)' = HeadSeq(conn)
  BY DEF HeadSeq
<1>2. RingInv(conn)' <=> RingInv(conn)
  BY <1>1 DEF RingInv
<1>3. main' \notin {"read", "eos", "stopped", "setup"}
  BY Zenon
<1>4. QED
  BY <1>1, <1>2, <1>3 DEF ReceiverInv

\* What comes before seq has arrived.
LEMMA HeldBelow ==
    ASSUME TypeInv, ReceiverInv, Live
    PROVE  \A s \in Nat \ {0} : s < conn.seq => Held(s)
<1> SUFFICES ASSUME NEW s \in Nat \ {0}, s < conn.seq PROVE Held(s)
  OBVIOUS
<1>1. conn \in ConnType
  BY DEF TypeInv
<1>2. HeadSeq(conn) \in Int /\ conn.seq \in Nat
  BY <1>1, ConnFields
<1>3. /\ \A t \in HeadSeq(conn)..(conn.seq - 1) : conn.q[PosOf(t)] = t
      /\ Len(delivered) = HeadSeq(conn) \/ Len(delivered) = HeadSeq(conn) - 1
  BY DEF ReceiverInv, RingInv
<1>4. CASE s < HeadSeq(conn)
  <2>1. s <= Len(delivered)
    BY <1>2, <1>3, <1>4, SMT
  <2>2. QED
    BY <2>1 DEF Held
<1>5. CASE ~(s < HeadSeq(conn))
  <2>1. s \in HeadSeq(conn)..(conn.seq - 1)
    BY <1>2, <1>5, SMT
  <2>2. QED
    BY <1>3, <2>1 DEF Held
<1>6. QED
  BY <1>4, <1>5

\* A message of the receiver is handled soundly when what it acknowledges has
\* arrived and what it calls consumed was.
LEMMA AckInv ==
    ASSUME UdpInv, UNCHANGED <<pc, sndSeq, receiver>>,
           NEW acked \in SUBSET unackQueue, NEW cap \in Nat,
           NEW rest \in SUBSET net, NEW resent \in SUBSET {Data(t) : t \in 1..Sent},
           AfterAck(acked, cap, rest, resent),
           consumedSeq' \in 0..Packets, stopRequested' \in BOOLEAN,
           Live => /\ \A s \in acked : Held(s)
                   /\ consumedSeq' <= conn.extraSeq
                   /\ cap = capacity + (consumedSeq' - consumedSeq)
                   /\ ~stopRequested'
    PROVE  UdpInv'
<1>1. TypeInv /\ QueueInv /\ ReceiverInv /\ WindowInv
  BY DEF UdpInv
<1>2. UNCHANGED <<pc, sndSeq>> /\ UNCHANGED receiver
  OBVIOUS
<1>3. /\ QueueInv' /\ sndQueue' \in Seq(Seq1) /\ unackQueue' \in SUBSET Seq1
      /\ capacity' \in Nat /\ net' \subseteq Message
      /\ receivedAckSeq' \in 0..Packets /\ started' \in BOOLEAN
      /\ \E k \in Nat : SentMore(unackQueue \ acked, cap, k)
  BY <1>1, <1>2, AckStep
<1>4. PICK k \in Nat : SentMore(unackQueue \ acked, cap, k)
  BY <1>3
<1>5. consumedSeq' \in Nat
  BY SMT
<1>6. WindowInv'
  BY <1>1, <1>2, <1>4, <1>5, SenderWindow
<1>7. TypeInv'
  <2>1. UNCHANGED <<main, conn, cache, reached, delivered>>
    BY <1>2 DEF receiver
  <2>2. QED
    BY <1>1, <1>2, <1>3, <2>1 DEF TypeInv
<1>8. ReceiverInv'
  BY <1>1, <1>2, SenderReceiver
<1>9. QED
  BY <1>3, <1>6, <1>7, <1>8 DEF UdpInv

LEMMA HandleAcksInv ==
    ASSUME UdpInv, NEW m \in net, NEW rest \in SUBSET net, HandleAcks(m, rest)
    PROVE  UdpInv'
<1>1. TypeInv /\ QueueInv /\ ReceiverInv /\ WindowInv
  BY DEF UdpInv
<1>2. /\ UNCHANGED <<pc, sndSeq, receiver>>
      /\ HandleAck(m, rest) \/ HandleDupAck(m, rest) \/ HandleDisorderAck(m, rest)
  BY DEF HandleAcks
<1>3. /\ Sent \in Nat /\ unackQueue \in SUBSET Seq1 /\ capacity \in Nat /\ consumedSeq \in Nat
      /\ consumedSeq \in 0..Packets /\ stopRequested \in BOOLEAN /\ m \in Message
  BY <1>1, SenderFields DEF TypeInv
<1>4. Live => MsgOf(m) /\ ~stopRequested /\ consumedSeq <= conn.extraSeq
  BY <1>1 DEF WindowInv
<1>5. \A s \in Seq1 : s \in Nat \ {0}
  BY SMT DEF Seq1
<1>6. Live => \A s \in Seq1 : s < conn.seq => Held(s)
  BY <1>1, <1>5, HeldBelow
<1>7. conn.seq \in Nat /\ conn.extraSeq \in Nat
  <2>1. conn \in ConnType
    BY <1>1 DEF TypeInv
  <2>2. QED
    BY <2>1, ConnFields
<1>8. \A s \in Seq1 : \A n \in Nat : s <= n /\ n < conn.seq => s < conn.seq
  BY <1>5, <1>7, SMT
<1>9. {} \in SUBSET unackQueue /\ {} \in SUBSET {Data(t) : t \in 1..Sent}
  OBVIOUS
<1>10. capacity = capacity + (consumedSeq - consumedSeq)
  BY <1>3, SMT
<1>11. CASE HandleAck(m, rest)
  <2> DEFINE cap == capacity + Larger(0, m.extraSeq - consumedSeq)
             acked == {s \in unackQueue : s <= m.seq /\ m.seq > receivedAckSeq}
  <2>1. /\ m.type = "ack"
        /\ consumedSeq' = Larger(consumedSeq, m.extraSeq)
        /\ stopRequested' = (stopRequested \/ (m.stop /\ m.seq >= receivedAckSeq))
        /\ AfterAck(acked, cap, rest, {})
    BY <1>11 DEF HandleAck
  <2>2. m.seq \in Nat /\ m.extraSeq \in Nat /\ m.extraSeq \in 0..Packets
    <3>1. m.seq \in 0..Packets /\ m.extraSeq \in 0..Packets
      BY <1>3, <2>1, MessageFields
    <3>2. QED
      BY <3>1, SMT
  <2>3. cap \in Nat /\ cap = capacity + (consumedSeq' - consumedSeq)
    BY <1>3, <2>1, <2>2, SMT DEF Larger
  <2>4. consumedSeq' \in 0..Packets /\ consumedSeq' \in {consumedSeq, m.extraSeq}
    BY <1>3, <2>1, <2>2 DEF Larger
  <2>5. Live => ~m.stop /\ m.seq < conn.seq /\ m.extraSeq <= conn.extraSeq
    BY <1>4, <2>1 DEF MsgOf
  <2>6. stopRequested' \in BOOLEAN /\ (Live => ~stopRequested')
    BY <1>4, <2>1, <2>5
  <2>7. Live => consumedSeq' <= conn.extraSeq
    BY <1>4, <2>4, <2>5
  <2>8. Live => \A s \in acked : Held(s)
    BY <1>3, <1>6, <1>8, <2>2, <2>5
  <2>9. acked \in SUBSET unackQueue
    OBVIOUS
  <2> HIDE DEF acked, cap
  <2>10. QED
    BY <1>2, <1>9, <2>1, <2>3, <2>4, <2>6, <2>7, <2>8, <2>9, AckInv
<1>12. CASE HandleDupAck(m, rest)
  <2> DEFINE acked == {s \in unackQueue : s <= m.extraSeq \/ s = m.seq}
  <2>1. m.type = "dup" /\ AfterAck(acked, capacity, rest, {})
        /\ consumedSeq' = consumedSeq /\ stopRequested' = stopRequested
    BY <1>12 DEF HandleDupAck
  <2>2. m.extraSeq \in Nat
    <3>1. m.extraSeq \in 0..Packets
      BY <1>3, <2>1, MessageFields
    <3>2. QED
      BY <3>1, SMT
  <2>3. Live => Held(m.seq) /\ m.extraSeq < conn.seq
    BY <1>4, <2>1 DEF MsgOf
  <2>4. Live => \A s \in acked : Held(s)
    BY <1>3, <1>6, <1>8, <2>2, <2>3
  <2>5. acked \in SUBSET unackQueue
    OBVIOUS
  <2> HIDE DEF acked
  <2>6. QED
    BY <1>2, <1>3, <1>4, <1>9, <1>10, <2>1, <2>4, <2>5, AckInv
<1>13. CASE HandleDisorderAck(m, rest)
  <2> DEFINE before == {s \in unackQueue : s < m.seq}
             last == Max(before \cup {0})
             acked == {s \in before : s \notin m.lost /\ \E l \in m.lost : l > s}
                    \cup {s \in unackQueue : s = m.seq /\ \E l \in m.lost : l > last}
             resent == {Data(s) : s \in before \cap m.lost}
  <2>1. /\ m.type = "disorder" /\ consumedSeq' = consumedSeq /\ stopRequested' = stopRequested
        /\ AfterAck(acked, capacity, rest, resent) \/ AfterAck({}, capacity, rest, {})
    BY <1>13 DEF HandleDisorderAck
  <2>2. CASE AfterAck({}, capacity, rest, {})
    <3>1. \A s \in {} : Held(s)
      OBVIOUS
    <3>2. QED
      BY <1>2, <1>3, <1>4, <1>9, <1>10, <2>1, <2>2, <3>1, AckInv
  <2>3. CASE AfterAck(acked, capacity, rest, resent)
    <3>1. m.seq \in Nat
      <4>1. m.seq \in Seq1
        BY <1>3, <2>1, MessageFields
      <4>2. QED
        BY <1>5, <4>1
    <3>2. \A s \in Seq1 : s < m.seq => s \in 1..(m.seq - 1)
      BY <3>1, SMT DEF Seq1
    <3>3. Live => Held(m.seq) /\ \A t \in 1..(m.seq - 1) : t \notin m.lost => Held(t)
      BY <1>4, <2>1 DEF MsgOf
    <3>4. Live => \A s \in acked : Held(s)
      BY <1>3, <3>2, <3>3
    <3>5. acked \in SUBSET unackQueue
      OBVIOUS
    <3>6. resent \in SUBSET {Data(t) : t \in 1..Sent}
      BY <1>1 DEF QueueInv
    <3> HIDE DEF acked, resent
    <3>7. QED
      BY <1>2, <1>3, <1>4, <1>10, <2>1, <2>3, <3>4, <3>5, <3>6, AckInv
  <2>4. QED
    BY <2>1, <2>2, <2>3
<1>14. QED
  BY <1>2, <1>11, <1>12, <1>13

LEMMA SendPacketInv ==
    ASSUME UdpInv, SendPacket
    PROVE  UdpInv'
<1>1. TypeInv /\ QueueInv /\ ReceiverInv /\ WindowInv
  BY DEF UdpInv
<1>2. /\ pc = "run" /\ sndSeq' = sndSeq + 1
      /\ pc' = IF IsEos(sndSeq) THEN "eos" ELSE "wait"
      /\ SendBuffers(Append(sndQueue, sndSeq), unackQueue, capacity, started, net, {})
      /\ UNCHANGED <<consumedSeq, receivedAckSeq, started, stopRequested>> /\ UNCHANGED receiver
  BY DEF SendPacket
<1>3. /\ Sent \in Nat /\ Sent <= Packets /\ Sent = sndSeq - 1 - Len(sndQueue)
      /\ sndQueue \in Seq(Seq1) /\ Len(sndQueue) \in Nat
      /\ sndSeq \in Nat /\ 1 <= sndSeq
      /\ unackQueue \in SUBSET Seq1 /\ Cardinality(unackQueue) \in Nat
      /\ capacity \in Nat /\ consumedSeq \in Nat /\ Packets \in Nat /\ MaxSndBuffers \in Nat
  BY <1>1, SenderFields, DepthAssumption, MaxBuffers
<1>4. /\ Len(sndQueue) + Cardinality(unackQueue) < MaxSndBuffers /\ sndSeq <= Packets
      /\ \A i \in 1..Len(sndQueue) : sndQueue[i] = Sent + i
  BY <1>1, <1>2 DEF QueueInv
<1> DEFINE snd == Append(sndQueue, sndSeq)
<1>5. sndSeq \in Seq1
  BY <1>3, <1>4, SMT DEF Seq1
<1>6. /\ snd \in Seq(Seq1) /\ Len(snd) = Len(sndQueue) + 1 /\ snd[Len(sndQueue) + 1] = sndSeq
      /\ \A i \in 1..Len(sndQueue) : snd[i] = sndQueue[i]
  BY <1>3, <1>5, SMT
<1> HIDE DEF snd
<1>7. \A i \in 1..Len(snd) : snd[i] = Sent + i
  <2> TAKE i \in 1..Len(snd)
  <2>1. CASE i = Len(sndQueue) + 1
    <3>1. sndSeq = Sent + (Len(sndQueue) + 1)
      BY <1>3, SMT
    <3>2. QED
      BY <1>6, <2>1, <3>1
  <2>2. CASE i # Len(sndQueue) + 1
    <3>1. i \in 1..Len(sndQueue)
      BY <1>3, <1>6, <2>2, SMT
    <3>2. QED
      BY <1>4, <1>6, <3>1
  <2>3. QED
    BY <2>1, <2>2
<1>8. Len(snd) + Cardinality(unackQueue) <= MaxSndBuffers /\ sndSeq' - 1 - Len(snd) = Sent
      /\ sndSeq' \in 1..(Packets + 1)
  BY <1>2, <1>3, <1>4, <1>6, SMT
<1>9. pc' # "run" /\ (pc' \in {"run", "wait"} => sndSeq' <= Packets) /\ pc' \in {"eos", "wait"}
  <2>1. sndSeq # Packets => sndSeq + 1 <= Packets
    BY <1>3, <1>4, SMT
  <2>2. QED
    BY <1>2, <2>1 DEF IsEos
<1>10. unackQueue \in SUBSET unackQueue /\ net \in SUBSET net /\ {} \in SUBSET {Data(t) : t \in 1..Sent}
  OBVIOUS
<1>11. SendBuffers(snd, unackQueue, capacity, started, net, {})
  BY <1>2 DEF snd
<1>12. /\ QueueInv' /\ sndQueue' \in Seq(Seq1) /\ unackQueue' \in SUBSET Seq1
       /\ capacity' \in Nat /\ net' \subseteq Message
       /\ \E k \in Nat : SentMore(unackQueue, capacity, k)
  BY <1>1, <1>3, <1>6, <1>7, <1>8, <1>9, <1>10, <1>11, SendStep
<1>13. PICK k \in Nat : SentMore(unackQueue \ {}, capacity, k)
  <2>1. unackQueue = unackQueue \ {}
    OBVIOUS
  <2>2. QED
    BY <1>12, <2>1
<1>14. capacity = capacity + (consumedSeq - consumedSeq) /\ \A s \in {} : Held(s)
  BY <1>3, SMT
<1>15. Live => consumedSeq <= conn.extraSeq /\ ~stopRequested
  BY <1>1 DEF WindowInv
<1>16. WindowInv'
  BY <1>1, <1>2, <1>3, <1>13, <1>14, <1>15, SenderWindow
<1>17. TypeInv'
  <2>1. UNCHANGED <<main, conn, cache, reached, delivered>>
    BY <1>2 DEF receiver
  <2>2. QED
    BY <1>1, <1>2, <1>8, <1>9, <1>12, <2>1 DEF TypeInv
<1>18. ReceiverInv'
  BY <1>1, <1>2, SenderReceiver
<1>19. QED
  BY <1>12, <1>16, <1>17, <1>18 DEF UdpInv

\* Packets that were sent are sent again, or a status query is.
LEMMA ResendInv ==
    ASSUME UdpInv, UNCHANGED sender, UNCHANGED receiver,
           \A m \in net' : m \in net \/ (\E t \in 1..Sent : m = Data(t)) \/ (\E t \in Seq1 : m = Query(t))
    PROVE  UdpInv'
<1>1. TypeInv /\ QueueInv /\ ReceiverInv /\ WindowInv
  BY DEF UdpInv
<1>2. /\ UNCHANGED <<pc, sndSeq, sndQueue, unackQueue, capacity, consumedSeq,
                     receivedAckSeq, started, stopRequested>>
      /\ UNCHANGED <<main, conn, cache, reached, delivered>>
  BY DEF sender, receiver
<1>3. Sent' = Sent
  BY <1>2 DEF Sent
<1>4. QueueInv'
  BY <1>1, <1>2, <1>3 DEF QueueInv
<1>5. 1..Sent \subseteq Seq1 /\ \A t \in 1..Sent : t <= Sent
  <2>1. Sent \in Nat /\ Sent <= Packets /\ Packets \in Nat
    BY <1>1, SenderFields, DepthAssumption
  <2>2. QED
    BY <2>1, SMT DEF Seq1
<1>6. net' \subseteq Message
  <2>1. net \subseteq Message
    BY <1>1 DEF TypeInv
  <2>2. QED
    BY <1>5, <2>1, MessageTypes
<1>7. TypeInv'
  BY <1>1, <1>2, <1>6 DEF TypeInv
<1>8. ReceiverInv'
  BY <1>1, SenderReceiver
<1>9. (\A s : Held(s)' <=> Held(s)) /\ (Live' <=> Live)
  BY <1>2 DEF Held, Live
<1>10. ASSUME Live, NEW m \in net' PROVE MsgOf(m)'
  <2>1. CASE m \in net
    <3>1. MsgOf(m)
      BY <1>1, <1>10, <2>1 DEF WindowInv
    <3>2. QED
      BY <1>2, <1>3, <1>9, <3>1 DEF MsgOf
  <2>2. CASE \E t \in 1..Sent : m = Data(t)
    <3>1. PICK t \in 1..Sent : m = Data(t)
      BY <2>2
    <3>2. m.type = "data" /\ m.seq = t
      BY <3>1 DEF Data
    <3>3. QED
      BY <1>3, <1>5, <3>2 DEF MsgOf
  <2>3. CASE \E t \in Seq1 : m = Query(t)
    <3>1. PICK t \in Seq1 : m = Query(t)
      BY <2>3
    <3>2. m.type = "query"
      BY <3>1 DEF Query
    <3>3. QED
      BY <3>2 DEF MsgOf
  <2>4. QED
    BY <2>1, <2>2, <2>3
<1>11. WindowInv'
  BY <1>1, <1>2, <1>3, <1>9, <1>10 DEF WindowInv
<1>12. QED
  BY <1>4, <1>7, <1>8, <1>11 DEF UdpInv

\* The other steps of the sender.
LEMMA SenderInv ==
    ASSUME UdpInv, GetSndBuffer \/ HandleStopMsgs \/ EosSent \/ CheckDeadlock \/ \E s \in Seq1 : Resend(s)
    PROVE  UdpInv'
<1>1. TypeInv /\ QueueInv /\ ReceiverInv /\ WindowInv
  BY DEF UdpInv
<1>2. /\ Sent \in Nat /\ Sent <= Packets /\ Sent = sndSeq - 1 - Len(sndQueue)
      /\ sndQueue \in Seq(Seq1) /\ Len(sndQueue) \in Nat /\ sndSeq \in Nat /\ 1 <= sndSeq
      /\ sndSeq <= Packets + 1 /\ Packets \in Nat /\ MaxSndBuffers \in Nat
      /\ Cardinality(unackQueue) \in Nat
  BY <1>1, SenderFields, DepthAssumption, MaxBuffers
<1>3. CASE (GetSndBuffer \/ EosSent)
  <2>1. /\ UNCHANGED <<net, sndSeq, sndQueue, unackQueue, capacity, consumedSeq,
                       receivedAckSeq, started, stopRequested, receiver>>
        /\ \/ pc' = "run" /\ pc = "wait" /\ Len(sndQueue) + Cardinality(unackQueue) < MaxSndBuffers
           \/ pc' = "closed"
    BY <1>3 DEF GetSndBuffer, EosSent, SndBuffers
  <2>2. UNCHANGED <<main, conn, cache, reached, delivered>> /\ Sent' = Sent
    BY <2>1 DEF receiver, Sent
  <2>3. QueueInv'
    <3>1. pc' = "run" => Len(sndQueue) + Cardinality(unackQueue) < MaxSndBuffers
      BY <2>1
    <3>2. pc' \in {"run", "wait"} => sndSeq <= Packets
      BY <1>1, <2>1 DEF QueueInv
    <3>3. QED
      BY <1>1, <2>1, <2>2, <3>1, <3>2 DEF QueueInv
  <2>4. TypeInv'
    BY <1>1, <2>1, <2>2 DEF TypeInv
  <2>5. ReceiverInv'
    BY <1>1, <2>1, SenderReceiver
  <2>6. (\A s : Held(s)' <=> Held(s)) /\ (Live' <=> Live)
    BY <2>2 DEF Held, Live
  <2>7. \A m : MsgOf(m)' <=> MsgOf(m)
    BY <2>2, <2>6 DEF MsgOf
  <2>8. WindowInv'
    BY <1>1, <2>1, <2>2, <2>6, <2>7 DEF WindowInv
  <2>9. QED
    BY <2>3, <2>4, <2>5, <2>8 DEF UdpInv
<1>4. CASE HandleStopMsgs
  <2>1. /\ stopRequested /\ pc' = "closed" /\ sndQueue' = <<>> /\ unackQueue' = {}
        /\ stopRequested' = FALSE
        /\ UNCHANGED <<net, sndSeq, capacity, consumedSeq, receivedAckSeq, started, receiver>>
    BY <1>4 DEF HandleStopMsgs
  <2>2. UNCHANGED <<main, conn, cache, reached, delivered>>
    BY <2>1 DEF receiver
  <2>3. ~Live'
    BY <1>1, <2>1, <2>2 DEF WindowInv, Live
  <2>4. WindowInv'
    BY <2>3 DEF WindowInv
  <2>5. sndQueue' \in Seq(Seq1) /\ Len(sndQueue') = 0
    BY <2>1, SMT
  <2>6. Cardinality(unackQueue') = 0
    BY <2>1, FS_EmptySet
  <2>7. Sent' = sndSeq - 1 /\ Sent' \in 0..Packets
    <3>1. Sent' = sndSeq - 1 - 0
      BY <2>1, <2>5 DEF Sent
    <3>2. QED
      BY <1>2, <3>1, SMT
  <2>8. QueueInv'
    <3>1. Len(sndQueue') + Cardinality(unackQueue') <= MaxSndBuffers
      BY <1>2, <2>5, <2>6, SMT
    <3>2. \A i \in 1..Len(sndQueue') : sndQueue'[i] = Sent' + i
      <4>1. 1..0 = {}
        BY SMT
      <4>2. QED
        BY <2>5, <4>1
    <3>3. unackQueue' \subseteq 1..Sent'
      BY <2>1
    <3>4. QED
      BY <2>1, <2>7, <3>1, <3>2, <3>3 DEF QueueInv
  <2>9. TypeInv'
    BY <1>1, <2>1, <2>2, <2>5 DEF TypeInv
  <2>10. ReceiverInv'
    BY <1>1, <2>1, SenderReceiver
  <2>11. QED
    BY <2>4, <2>8, <2>9, <2>10 DEF UdpInv
<1>5. CASE CheckDeadlock
  <2>1. sndQueue # <<>> /\ Transmit(net, {Query(sndSeq - 1)}) /\ UNCHANGED <<sender, receiver>>
    BY <1>5 DEF CheckDeadlock
  <2>2. sndSeq - 1 \in Seq1
    <3>1. Len(sndQueue) # 0
      BY <1>2, <2>1, SMT
    <3>2. QED
      BY <1>2, <3>1, SMT DEF Seq1
  <2>3. net' \subseteq net \cup {Query(sndSeq - 1)}
    BY <2>1, NetSubset
  <2>4. QED
    BY <2>1, <2>2, <2>3, ResendInv
<1>6. CASE \E s \in Seq1 : Resend(s)
  <2>1. PICK s \in unackQueue : Transmit(net, {Data(s)}) /\ UNCHANGED <<sender, receiver>>
    BY <1>6 DEF Resend
  <2>2. s \in 1..Sent
    BY <1>1 DEF QueueInv
  <2>3. net' \subseteq net \cup {Data(s)}
    BY <2>1, NetSubset
  <2>4. QED
    BY <2>1, <2>2, <2>3, ResendInv
<1>7. QED
  BY <1>3, <1>4, <1>5, <1>6

-----------------------------------------------------------------------------
(* The receiver.                                                            *)

\* A step of the receiver keeps what WindowInv says when what has arrived stays
\* so and what it tells the sender is true.
LEMMA ReceiverWindow ==
    ASSUME TypeInv, WindowInv, UNCHANGED sender,
           Live' => Live,
           Live' => /\ \A s \in Seq1 : Held(s) => Held(s)'
                    /\ conn.seq <= conn'.seq /\ conn.extraSeq <= conn'.extraSeq
                    /\ conn' \in ConnType
                    /\ \A m \in net' : m \in net \/ MsgOf(m)'
                    /\ cache' \subseteq 1..Sent,
           Sent \in 0..Packets
    PROVE  WindowInv'
<1> SUFFICES ASSUME Live' PROVE WindowInv'
  BY DEF WindowInv
<1>1. /\ UNCHANGED <<pc, sndSeq, sndQueue, unackQueue, capacity, consumedSeq,
                     receivedAckSeq, started, stopRequested>>
      /\ Sent' = Sent
  BY DEF sender, Sent
<1>2. /\ \A m \in net : MsgOf(m)
      /\ ~stopRequested /\ consumedSeq <= conn.extraSeq
      /\ capacity = QueueDepth + consumedSeq - Sent
      /\ \A s \in 1..Sent : s \in unackQueue \/ Held(s)
  BY DEF WindowInv
<1>3. conn \in ConnType /\ conn' \in ConnType
  BY DEF TypeInv
<1>4. /\ conn.seq \in Nat /\ conn'.seq \in Nat /\ conn.extraSeq \in Nat /\ conn'.extraSeq \in Nat
      /\ Packets \in Nat
  BY <1>3, ConnFields, DepthAssumption
<1>5. 1..Sent \subseteq Seq1
  BY <1>4, SMT DEF Seq1
<1>6. consumedSeq \in Nat
  <2>1. consumedSeq \in 0..Packets
    BY DEF TypeInv
  <2>2. QED
    BY <2>1, SMT
<1>7. \A m \in net' : MsgOf(m)'
  <2> SUFFICES ASSUME NEW m \in net', m \in net PROVE MsgOf(m)'
    OBVIOUS
  <2>1. MsgOf(m) /\ m \in Message
    BY <1>2 DEF TypeInv
  <2>2. /\ m.type = "ack" => m.seq \in Nat /\ m.extraSeq \in Nat
        /\ m.type = "dup" => m.seq \in Seq1 /\ m.extraSeq \in Nat
        /\ m.type = "disorder" => m.seq \in Seq1
    <3>1. /\ m.type = "ack" => m.seq \in 0..Packets /\ m.extraSeq \in 0..Packets
          /\ m.type = "dup" => m.seq \in Seq1 /\ m.extraSeq \in 0..Packets
          /\ m.type = "disorder" => m.seq \in Seq1
      BY <2>1, MessageFields
    <3>2. \A n \in 0..Packets : n \in Nat
      BY SMT
    <3>3. QED
      BY <3>1, <3>2
  <2>3. /\ \A n \in Nat : n < conn.seq => n < conn'.seq
        /\ \A n \in Nat : n <= conn.extraSeq => n <= conn'.extraSeq
    BY <1>4, SMT
  <2>4. m.type = "data" => m.seq <= Sent'
    BY <1>1, <2>1 DEF MsgOf
  <2>5. m.type = "ack" => ~m.stop /\ m.seq < conn'.seq /\ m.extraSeq <= conn'.extraSeq
    BY <2>1, <2>2, <2>3 DEF MsgOf
  <2>6. m.type = "dup" => Held(m.seq)' /\ m.extraSeq < conn'.seq
    BY <2>1, <2>2, <2>3 DEF MsgOf
  <2>7. m.type = "disorder" => Held(m.seq)' /\ \A t \in 1..(m.seq - 1) : t \notin m.lost => Held(t)'
    <3>1. m.type = "disorder" => 1..(m.seq - 1) \subseteq Seq1
      BY <1>4, <2>2, SMT DEF Seq1
    <3>2. QED
      BY <2>1, <2>2, <3>1 DEF MsgOf
  <2>8. QED
    BY <2>4, <2>5, <2>6, <2>7 DEF MsgOf
<1>8. consumedSeq <= conn'.extraSeq
  BY <1>2, <1>4, <1>6, SMT
<1>9. \A s \in 1..Sent : s \in unackQueue \/ Held(s)'
  BY <1>2, <1>5
<1>10. QED
  BY <1>1, <1>2, <1>7, <1>8, <1>9 DEF WindowInv

\* Packets of the window are at their places.
LEMMA RingPlace ==
    ASSUME NEW c \in ConnType, RingInv(c), NEW t \in Int, HeadSeq(c) <= t,
           t - HeadSeq(c) < QueueDepth, c.q[PosOf(t)] # NoPacket
    PROVE  c.q[PosOf(t)] = t
<1>1. HeadSeq(c) \in Int /\ QueueDepth \in Nat
  BY ConnFields, DepthAssumption
<1>2. PosOf(t) \in Pos
  BY PosFacts
<1>3. c.q[PosOf(t)] \in HeadSeq(c)..(HeadSeq(c) + QueueDepth - 1) /\ PosOf(c.q[PosOf(t)]) = PosOf(t)
  BY <1>2 DEF RingInv
<1>4. t \in HeadSeq(c)..(HeadSeq(c) + QueueDepth - 1)
  BY <1>1, SMT
<1>5. c.q[PosOf(t)] \in Int
  BY <1>1, <1>3, SMT
<1>6. QED
  BY <1>3, <1>4, <1>5, WindowPlaces

\* A packet that was sent is within the window: the sender does not overrun the
\* ring.
LEMMA WithinWindow ==
    ASSUME TypeInv, QueueInv, ReceiverInv, WindowInv, Live
    PROVE  \A s \in Int : s <= Sent => s - HeadSeq(conn) < QueueDepth
<1>1. capacity = QueueDepth + consumedSeq - Sent /\ consumedSeq <= conn.extraSeq
  BY DEF WindowInv
<1>2. capacity \in Nat /\ consumedSeq \in Nat /\ Sent \in Nat
  BY SenderFields
<1>3. conn.extraSeq \in Nat /\ HeadSeq(conn) \in Int /\ QueueDepth \in Nat
  <2>1. conn \in ConnType
    BY DEF TypeInv
  <2>2. QED
    BY <2>1, ConnFields, DepthAssumption
<1>4. conn.extraSeq = HeadSeq(conn) - 1
  BY DEF ReceiverInv, RingInv
<1>5. QED
  BY <1>1, <1>2, <1>3, <1>4, SMT

\* Noting the address of the sender changes nothing else.
NotePeer(c, s) == [c EXCEPT !.peer = @ \/ s <= QueueDepth]

LEMMA PeerFacts ==
    ASSUME NEW c0 \in ConnType, NEW s
    PROVE  LET c == NotePeer(c0, s)
           IN
           /\ c \in ConnType /\ HeadSeq(c) = HeadSeq(c0) /\ (RingInv(c0) => RingInv(c))
           /\ c.seq = c0.seq /\ c.extraSeq = c0.extraSeq /\ c.q = c0.q /\ c.head = c0.head
           /\ c.tail = c0.tail /\ c.size = c0.size /\ c.eos = c0.eos /\ c.stop = c0.stop
           /\ c.active = c0.active
<1> DEFINE c == NotePeer(c0, s)
<1>1. (c0.peer \/ s <= QueueDepth) \in BOOLEAN
  OBVIOUS
<1>2. PICK b \in BOOLEAN : c = [c0 EXCEPT !.peer = b]
  BY <1>1 DEF NotePeer
<1> HIDE DEF c
<1>3. c \in ConnType
  BY <1>2 DEF ConnType
<1>4. /\ c.seq = c0.seq /\ c.extraSeq = c0.extraSeq /\ c.q = c0.q /\ c.head = c0.head
      /\ c.tail = c0.tail /\ c.size = c0.size /\ c.eos = c0.eos /\ c.stop = c0.stop
      /\ c.active = c0.active
  BY <1>2 DEF ConnType
<1>5. HeadSeq(c) = HeadSeq(c0)
  BY <1>4 DEF HeadSeq
<1>6. RingInv(c0) => RingInv(c)
  BY <1>4, <1>5 DEF RingInv
<1>7. QED
  BY <1>3, <1>4, <1>5, <1>6 DEF c

\* A data packet that comes to a receiver that has stopped: it is acknowledged,
\* and never stored.
LEMMA StoppedData ==
    ASSUME TypeInv, ReceiverInv, main = "stopped", NEW s \in Seq1, NEW rest \in SUBSET net,
           HandleDataPacket(conn, s, rest)
    PROVE  /\ conn' \in ConnType /\ net' \subseteq Message /\ reached' \in BOOLEAN
           /\ conn'.stop \/ ~conn'.active
<1> DEFINE c == [conn EXCEPT !.peer = @ \/ s <= QueueDepth]
<1>1. conn \in ConnType /\ (conn.stop \/ ~conn.active) /\ reached \in BOOLEAN /\ net \subseteq Message
  BY DEF TypeInv, ReceiverInv
<1>2. \/ /\ c.stop /\ c.active
         /\ conn' = [c EXCEPT !.eos = @ \/ IsEos(s), !.seq = Larger(@, s), !.active = ~IsEos(s)]
         /\ Transmit(rest, {Ack(s, s, TRUE)}) /\ reached' = reached
      \/ /\ conn' = c
         /\ Transmit(rest, {Ack(c.seq - 1, c.extraSeq, c.stop)}) /\ reached' = reached
      \/ /\ ~c.active /\ conn' = [c EXCEPT !.seq = s]
         /\ Transmit(rest, {Ack(s, s, TRUE)}) /\ reached' = reached
      \/ ~c.stop /\ c.active
  BY DEF HandleDataPacket
<1>3. c = NotePeer(conn, s)
  BY DEF NotePeer
<1> HIDE DEF c
<1>4. /\ c \in ConnType /\ c.stop = conn.stop /\ c.active = conn.active
  BY <1>1, <1>3, PeerFacts
<1>5. /\ c.seq \in Nat /\ 1 <= c.seq /\ c.seq <= Packets + 1 /\ c.extraSeq \in 0..Packets
      /\ c.eos \in BOOLEAN /\ c.stop \in BOOLEAN /\ c.active \in BOOLEAN /\ Packets \in Nat
      /\ c.seq \in 1..(Packets + 1)
  BY <1>4, ConnFields, DepthAssumption DEF ConnType
<1>6. s \in 0..Packets /\ s \in 1..(Packets + 1) /\ c.seq - 1 \in 0..Packets
  BY <1>5, SMT DEF Seq1
<1>7. {Ack(s, s, TRUE)} \in SUBSET Message /\ {Ack(c.seq - 1, c.extraSeq, c.stop)} \in SUBSET Message
  <2>1. TRUE \in BOOLEAN
    OBVIOUS
  <2>2. Ack(s, s, TRUE) \in Message /\ Ack(c.seq - 1, c.extraSeq, c.stop) \in Message
    BY <1>5, <1>6, <2>1, MessageTypes
  <2>3. QED
    BY <2>2
<1>8. Transmit(rest, {Ack(s, s, TRUE)}) \/ Transmit(rest, {Ack(c.seq - 1, c.extraSeq, c.stop)})
        => net' \subseteq Message
  BY <1>1, <1>7, NetTyped
<1>9. CASE /\ c.stop /\ c.active
           /\ conn' = [c EXCEPT !.eos = @ \/ IsEos(s), !.seq = Larger(@, s), !.active = ~IsEos(s)]
           /\ Transmit(rest, {Ack(s, s, TRUE)}) /\ reached' = reached
  <2>1. Larger(c.seq, s) \in 1..(Packets + 1) /\ (c.eos \/ IsEos(s)) \in BOOLEAN /\ (~IsEos(s)) \in BOOLEAN
    BY <1>5, <1>6 DEF Larger
  <2>2. conn' \in ConnType
    BY <1>4, <1>9, <2>1 DEF ConnType
  <2>3. conn'.stop = c.stop
    BY <1>4, <1>9 DEF ConnType
  <2>4. QED
    BY <1>1, <1>8, <1>9, <2>2, <2>3
<1>10. CASE /\ conn' = c
            /\ Transmit(rest, {Ack(c.seq - 1, c.extraSeq, c.stop)}) /\ reached' = reached
  BY <1>1, <1>4, <1>8, <1>10
<1>11. CASE /\ ~c.active /\ conn' = [c EXCEPT !.seq = s]
            /\ Transmit(rest, {Ack(s, s, TRUE)}) /\ reached' = reached
  <2>1. conn' \in ConnType /\ conn'.active = c.active
    BY <1>4, <1>6, <1>11 DEF ConnType
  <2>2. QED
    BY <1>1, <1>8, <1>11, <2>1
<1>12. QED
  BY <1>1, <1>2, <1>4, <1>9, <1>10, <1>11

\* A data packet that was sent comes to a receiver that reads.
LEMMA LiveData ==
    ASSUME UdpInv, Live, NEW s \in Seq1, s <= Sent, NEW rest \in SUBSET net,
           UNCHANGED <<sender, main, delivered>>,
           HandleDataPacket(conn, s, rest)
    PROVE  /\ conn' \in ConnType /\ RingInv(conn') /\ HeadSeq(conn') = HeadSeq(conn)
           /\ ~conn'.stop /\ (conn'.active \/ conn'.seq = Packets + 1)
           /\ conn.seq <= conn'.seq /\ conn'.extraSeq = conn.extraSeq
           /\ conn.size > 0 => conn'.size > 0
           /\ reached' \in BOOLEAN /\ (reached' <=> main = "wait" /\ conn'.size > 0)
           /\ \A t \in Seq1 : Held(t) => Held(t)'
           /\ net' \subseteq Message /\ \A m \in net' : m \in net \/ MsgOf(m)'
<1> DEFINE c == [conn EXCEPT !.peer = @ \/ s <= QueueDepth]
<1>1. TypeInv /\ QueueInv /\ ReceiverInv /\ WindowInv
  BY DEF UdpInv
<1>2. \/ c.stop
      \/ /\ conn' = c /\ reached' = reached
         /\ Transmit(rest, {Ack(c.seq - 1, c.extraSeq, c.stop)})
      \/ ~c.active /\ s >= c.seq
      \/ /\ s >= c.seq /\ c.q[PosOf(s)] = NoPacket
         /\ conn' = StorePacket(c, s)
         /\ Transmit(rest, IF PosOf(s) = c.tail
                           THEN {Ack(conn'.seq - 1, c.extraSeq, FALSE)}
                           ELSE {DisorderAck(s, {t \in c.seq..(s - 1) : c.q[PosOf(t)] = NoPacket})})
         /\ reached' = (reached \/ (main = "wait" /\ PosOf(s) = c.head))
      \/ /\ s >= c.seq /\ c.q[PosOf(s)] # NoPacket
         /\ conn' = c /\ reached' = reached
         /\ Transmit(rest, {DupAck(s, c.seq - 1)})
  BY DEF HandleDataPacket
<1>3. c = NotePeer(conn, s)
  BY DEF NotePeer
<1> HIDE DEF c
<1>4. /\ conn \in ConnType /\ net \subseteq Message /\ reached \in BOOLEAN
      /\ delivered' = delivered /\ main' = main
  BY <1>1 DEF TypeInv
<1>5. /\ RingInv(conn) /\ ~conn.stop /\ (conn.active \/ conn.seq = Packets + 1)
      /\ (reached <=> main = "wait" /\ conn.size > 0)
      /\ Len(delivered) = HeadSeq(conn) \/ Len(delivered) = HeadSeq(conn) - 1
  BY <1>1 DEF ReceiverInv
<1>6. /\ c \in ConnType /\ HeadSeq(c) = HeadSeq(conn) /\ RingInv(c)
      /\ c.seq = conn.seq /\ c.extraSeq = conn.extraSeq /\ c.q = conn.q /\ c.head = conn.head
      /\ c.tail = conn.tail /\ c.size = conn.size /\ c.stop = conn.stop
      /\ c.active = conn.active
  BY <1>3, <1>4, <1>5, PeerFacts
<1>7. /\ c.seq \in Nat /\ 1 <= c.seq /\ c.seq <= Packets + 1 /\ c.extraSeq \in Nat
      /\ c.extraSeq <= Packets /\ HeadSeq(c) \in Int /\ c.size \in Nat
      /\ c.q \in [Pos -> 0..Packets] /\ QueueDepth \in Nat /\ Packets \in Nat /\ Sent \in Nat
  BY <1>1, <1>6, ConnFields, SenderFields, DepthAssumption
<1>8. s \in Int /\ s \in Nat /\ 1 <= s /\ s <= Packets /\ PosOf(s) \in Pos
  <2>1. s \in Int /\ s \in Nat /\ 1 <= s /\ s <= Packets
    BY <1>7, SMT DEF Seq1
  <2>2. QED
    BY <2>1, PosFacts
<1>9. s - HeadSeq(c) < QueueDepth
  BY <1>1, <1>6, <1>8, WithinWindow
<1>10. c.seq - 1 \in 0..Packets /\ c.extraSeq \in 0..Packets /\ c.seq - 1 < c.seq
       /\ c.extraSeq <= c.extraSeq /\ c.seq <= c.seq
  BY <1>7, SMT
<1>11. Sent' = Sent
  BY DEF Sent, sender
<1>12. CASE /\ conn' = c /\ reached' = reached
            /\ \E m \in Message : MsgOf(m)' /\ Transmit(rest, {m})
  <2>1. PICK m \in Message : MsgOf(m)' /\ Transmit(rest, {m})
    BY <1>12
  <2>2. net' \subseteq rest \cup {m}
    BY <2>1, NetSubset
  <2>3. net' \subseteq Message /\ \A x \in net' : x \in net \/ MsgOf(x)'
    BY <1>4, <2>1, <2>2
  <2>4. conn.size > 0 => conn'.size > 0
    BY <1>6, <1>12
  <2>5. \A t \in Seq1 : Held(t) => Held(t)'
    BY <1>4, <1>6, <1>12 DEF Held
  <2>6. QED
    BY <1>4, <1>5, <1>6, <1>10, <1>12, <2>3, <2>4, <2>5
<1>13. CASE /\ conn' = c /\ reached' = reached
            /\ Transmit(rest, {Ack(c.seq - 1, c.extraSeq, c.stop)})
  <2>0. PICK m : m = Ack(c.seq - 1, c.extraSeq, FALSE)
    OBVIOUS
  <2>1. m \in Message
    BY <1>10, <2>0, MessageTypes
  <2>2. /\ m.type = "ack" /\ m.seq = c.seq - 1 /\ m.extraSeq = c.extraSeq /\ m.stop = FALSE
    BY <2>0 DEF Ack
  <2>3. c.stop = FALSE
    BY <1>4, <1>5, <1>6 DEF ConnType
  <2>4. Transmit(rest, {m})
    BY <1>13, <2>0, <2>3
  <2>5. MsgOf(m)'
    BY <1>10, <1>13, <2>2 DEF MsgOf
  <2>6. QED
    BY <1>12, <1>13, <2>1, <2>4, <2>5
<1>14. CASE ~c.active /\ s >= c.seq
  BY <1>5, <1>6, <1>7, <1>8, <1>14, SMTT(30)
<1>15. CASE /\ s >= c.seq /\ c.q[PosOf(s)] # NoPacket
            /\ conn' = c /\ reached' = reached
            /\ Transmit(rest, {DupAck(s, c.seq - 1)})
  <2>0. PICK m : m = DupAck(s, c.seq - 1)
    OBVIOUS
  <2>1. m \in Message
    BY <1>10, <2>0, MessageTypes
  <2>2. m.type = "dup" /\ m.seq = s /\ m.extraSeq = c.seq - 1
    BY <2>0 DEF DupAck
  <2>3. Transmit(rest, {m})
    BY <1>15, <2>0
  <2>4. HeadSeq(c) <= s
    BY <1>7, <1>8, <1>15, SMTT(30) DEF HeadSeq
  <2>5. c.q[PosOf(s)] = s
    BY <1>6, <1>8, <1>9, <1>15, <2>4, RingPlace
  <2>6. MsgOf(m)'
    BY <1>10, <1>15, <2>2, <2>5 DEF MsgOf, Held
  <2>7. QED
    BY <1>12, <1>15, <2>1, <2>3, <2>6
<1>16. CASE /\ s >= c.seq /\ c.q[PosOf(s)] = NoPacket
            /\ conn' = StorePacket(c, s)
            /\ Transmit(rest, IF PosOf(s) = c.tail
                              THEN {Ack(conn'.seq - 1, c.extraSeq, FALSE)}
                              ELSE {DisorderAck(s, {t \in c.seq..(s - 1) : c.q[PosOf(t)] = NoPacket})})
            /\ reached' = (reached \/ (main = "wait" /\ PosOf(s) = c.head))
  <2>1. PICK d : d = StorePacket(c, s) /\ d = conn'
    BY <1>16
  <2>2. /\ d \in ConnType /\ RingInv(d) /\ HeadSeq(d) = HeadSeq(c)
        /\ c.seq <= d.seq /\ c.size <= d.size
        /\ d.extraSeq = c.extraSeq /\ d.head = c.head
        /\ d.stop = c.stop /\ d.active = c.active
        /\ \A p \in Pos : c.q[p] # NoPacket => d.q[p] = c.q[p]
        /\ d.q[PosOf(s)] = s
        /\ PosOf(s) = c.tail <=> s = c.seq
        /\ s = c.seq => 0 < d.size
        /\ s # c.seq => d.size = c.size
    <3>1. Stored(c, s, d)
      BY <1>6, <1>9, <1>16, <2>1, StoreFacts
    <3>2. QED
      BY <3>1 DEF Stored
  <2>3. d.seq \in Nat /\ d.seq - 1 \in 0..Packets /\ d.seq - 1 < d.seq /\ d.size \in Nat
    <3>1. d.seq \in Nat /\ 1 <= d.seq /\ d.seq <= Packets + 1 /\ d.size \in Nat
      BY <2>2, ConnFields
    <3>2. QED
      BY <1>7, <3>1, SMTT(30)
  <2>4. ASSUME NEW t \in Seq1, Held(t) PROVE Held(t)'
    <3>1. t \in Int /\ t # NoPacket
      BY <1>7, SMT DEF Seq1, NoPacket
    <3>2. PosOf(t) \in Pos
      BY <3>1, PosFacts
    <3>3. CASE t <= Len(delivered)
      BY <1>4, <3>3 DEF Held
    <3>4. CASE conn.q[PosOf(t)] = t
      <4>1. d.q[PosOf(t)] = t
        BY <1>6, <2>2, <3>1, <3>2, <3>4
      <4>2. QED
        BY <2>1, <4>1 DEF Held
    <3>5. QED
      BY <2>4, <3>3, <3>4 DEF Held
  <2>5. c.active \/ d.seq = Packets + 1
    BY <1>5, <1>6, <1>7, <1>8, <1>16, SMTT(30)
  <2>6. /\ conn.size > 0 => d.size > 0
        /\ reached' \in BOOLEAN /\ (reached' <=> main = "wait" /\ d.size > 0)
    <3>1. c.size > 0 => d.size > 0
      BY <1>7, <2>2, <2>3, SMTT(30)
    <3>2. d.size > 0 /\ s # c.seq => c.size > 0
      BY <2>2
    <3>3. ASSUME ~(c.size > 0) PROVE c.head = c.tail
      <4>1. HeadSeq(c) = c.seq
        BY <1>7, <3>3, SMT DEF HeadSeq
      <4>2. QED
        BY <1>6, <4>1 DEF RingInv
    <3>4. s = c.seq => d.size > 0
      BY <2>2, <2>3, SMTT(30)
    <3>5. PosOf(s) = c.head /\ ~(c.size > 0) => s = c.seq
      BY <2>2, <3>3
    <3>6. s = c.seq /\ ~(c.size > 0) => PosOf(s) = c.head
      BY <2>2, <3>3
    <3>7. reached' \in BOOLEAN /\ reached' = (reached \/ (main = "wait" /\ PosOf(s) = c.head))
      BY <1>4, <1>16
    <3>8. QED
      BY <1>4, <1>5, <1>6, <3>1, <3>2, <3>4, <3>5, <3>6, <3>7
  <2>7. \E m \in Message : MsgOf(m)' /\ Transmit(rest, {m})
    <3>1. CASE PosOf(s) = c.tail
      <4>0. PICK m : m = Ack(d.seq - 1, c.extraSeq, FALSE)
        OBVIOUS
      <4>1. m \in Message
        BY <1>10, <2>3, <4>0, MessageTypes
      <4>2. m.type = "ack" /\ m.seq = d.seq - 1 /\ m.extraSeq = c.extraSeq /\ m.stop = FALSE
        BY <4>0 DEF Ack
      <4>3. Transmit(rest, {m})
        BY <1>16, <2>1, <3>1, <4>0
      <4>4. MsgOf(m)'
        BY <1>10, <2>1, <2>2, <2>3, <4>2 DEF MsgOf
      <4>5. QED
        BY <4>1, <4>3, <4>4
    <3>2. CASE PosOf(s) # c.tail
      <4>0. PICK m, lost : /\ lost = {t \in c.seq..(s - 1) : c.q[PosOf(t)] = NoPacket}
                           /\ m = DisorderAck(s, lost)
        OBVIOUS
      <4>1. c.seq..(s - 1) \subseteq Seq1
        BY <1>7, <1>8, SMTT(30) DEF Seq1
      <4>2. m \in Message
        BY <4>0, <4>1, MessageTypes
      <4>3. m.type = "disorder" /\ m.seq = s /\ m.lost = lost
        BY <4>0 DEF DisorderAck
      <4>4. Transmit(rest, {m})
        BY <1>16, <3>2, <4>0
      <4>5. ASSUME NEW t \in 1..(s - 1), t \notin lost PROVE Held(t)'
        <5>1. t \in Seq1 /\ t \in Nat \ {0} /\ t \in Int /\ t < s
          BY <1>7, <1>8, SMTT(30) DEF Seq1
        <5>2. CASE t < c.seq
          <6>1. Held(t)
            BY <1>1, <1>6, <5>1, <5>2, HeldBelow
          <6>2. QED
            BY <2>4, <5>1, <6>1
        <5>3. CASE ~(t < c.seq)
          <6>1. t \in c.seq..(s - 1)
            BY <1>7, <1>8, <5>1, <5>3, SMTT(30)
          <6>2. c.q[PosOf(t)] # NoPacket
            BY <4>0, <4>5, <6>1
          <6>3. HeadSeq(c) <= t /\ t - HeadSeq(c) < QueueDepth
            <7>1. HeadSeq(c) <= c.seq
              BY <1>7, SMT DEF HeadSeq
            <7>2. QED
              BY <1>7, <1>8, <1>9, <5>1, <5>3, <7>1, SMTT(30)
          <6>4. c.q[PosOf(t)] = t
            BY <1>6, <5>1, <6>2, <6>3, RingPlace
          <6>5. Held(t)
            BY <1>6, <6>4 DEF Held
          <6>6. QED
            BY <2>4, <5>1, <6>5
        <5>4. QED
          BY <5>2, <5>3
      <4>6. Held(s)'
        BY <2>1, <2>2 DEF Held
      <4>7. MsgOf(m)'
        BY <4>3, <4>5, <4>6 DEF MsgOf
      <4>8. QED
        BY <4>2, <4>4, <4>7
    <3>3. QED
      BY <3>1, <3>2
  <2>8. PICK m \in Message : MsgOf(m)' /\ Transmit(rest, {m})
    BY <2>7
  <2>9. net' \subseteq rest \cup {m}
    BY <2>8, NetSubset
  <2>10. net' \subseteq Message /\ \A x \in net' : x \in net \/ MsgOf(x)'
    BY <1>4, <2>8, <2>9
  <2>11. QED
    BY <1>5, <1>6, <2>1, <2>2, <2>4, <2>5, <2>6, <2>10
<1>17. QED
  BY <1>2, <1>5, <1>6, <1>13, <1>14, <1>15, <1>16

\* What is left to show of a step of the receiver.
LEMMA ReceiverRest ==
    ASSUME UdpInv, UNCHANGED sender, conn' \in ConnType, net' \subseteq Message, reached' \in BOOLEAN,
           main' \in {"setup", "cached", "idle", "wait", "read", "eos", "stopped", "torn"},
           cache' \in SUBSET (1..QueueDepth), delivered' \in Seq(Seq1), ReceiverInv',
           Live' => Live,
           Live' => /\ \A s \in Seq1 : Held(s) => Held(s)'
                    /\ conn.seq <= conn'.seq /\ conn.extraSeq <= conn'.extraSeq
                    /\ \A m \in net' : m \in net \/ MsgOf(m)'
                    /\ cache' \subseteq 1..Sent
    PROVE  UdpInv'
<1>1. TypeInv /\ QueueInv /\ ReceiverInv /\ WindowInv
  BY DEF UdpInv
<1>2. /\ UNCHANGED <<pc, sndSeq, sndQueue, unackQueue, capacity, consumedSeq,
                     receivedAckSeq, started, stopRequested>>
      /\ Sent' = Sent
  BY DEF sender, Sent
<1>3. TypeInv'
  BY <1>1, <1>2 DEF TypeInv
<1>4. QueueInv'
  BY <1>1, <1>2 DEF QueueInv
<1>5. Sent \in 0..Packets
  BY <1>1 DEF QueueInv
<1>6. WindowInv'
  BY <1>1, <1>5, ReceiverWindow
<1>7. QED
  BY <1>3, <1>4, <1>6 DEF UdpInv

LEMMA DataInv ==
    ASSUME UdpInv, NEW s \in Seq1, NEW rest \in SUBSET net, HandleDataPacket(conn, s, rest),
           UNCHANGED sender, UNCHANGED <<main, delivered>>, main \notin {"setup", "torn"},
           Live => s <= Sent /\ cache' \subseteq 1..Sent,
           cache' \in SUBSET (1..QueueDepth)
    PROVE  UdpInv'
<1>1. TypeInv /\ QueueInv /\ ReceiverInv /\ WindowInv
  BY DEF UdpInv
<1>2. /\ main' = main /\ delivered' = delivered /\ (Live' <=> Live)
      /\ main' \in {"setup", "cached", "idle", "wait", "read", "eos", "stopped", "torn"}
      /\ delivered' \in Seq(Seq1)
  BY <1>1 DEF TypeInv, Live
<1>3. CASE Live
  <2>1. UNCHANGED <<sender, main, delivered>>
    BY <1>2
  <2>2. /\ conn' \in ConnType /\ RingInv(conn') /\ HeadSeq(conn') = HeadSeq(conn)
        /\ ~conn'.stop /\ (conn'.active \/ conn'.seq = Packets + 1)
        /\ conn.seq <= conn'.seq /\ conn'.extraSeq = conn.extraSeq
        /\ conn.size > 0 => conn'.size > 0
        /\ reached' \in BOOLEAN /\ (reached' <=> main = "wait" /\ conn'.size > 0)
        /\ \A t \in Seq1 : Held(t) => Held(t)'
        /\ net' \subseteq Message /\ \A m \in net' : m \in net \/ MsgOf(m)'
    BY <1>3, <2>1, LiveData
  <2>3. ReceiverInv'
    <3>1. /\ \A i \in 1..Len(delivered') : delivered'[i] = i
          /\ Len(delivered) = IF main \in {"read", "eos"} THEN HeadSeq(conn) ELSE HeadSeq(conn) - 1
          /\ main \in {"read", "eos"} => conn.size > 0
      BY <1>1, <1>2, <1>3 DEF ReceiverInv
    <3>2. RingInv(conn)' /\ HeadSeq(conn)' = HeadSeq(conn)
      BY <2>2 DEF RingInv, HeadSeq
    <3>3. Len(delivered') = IF main' \in {"read", "eos"} THEN HeadSeq(conn)' ELSE HeadSeq(conn)' - 1
      BY <1>2, <3>1, <3>2
    <3>4. main' # "setup" /\ main' # "stopped"
      BY <1>2, <1>3 DEF Live
    <3>5. QED
      BY <1>2, <2>2, <3>1, <3>2, <3>3, <3>4 DEF ReceiverInv
  <2>4. conn.extraSeq <= conn'.extraSeq
    <3>1. conn.extraSeq \in Nat
      <4>1. conn \in ConnType
        BY <1>1 DEF TypeInv
      <4>2. QED
        BY <4>1, ConnFields
    <3>2. QED
      BY <2>2, <3>1, SMTT(30)
  <2>5. QED
    BY <1>2, <1>3, <2>2, <2>3, <2>4, ReceiverRest
<1>4. CASE ~Live
  <2>1. main = "stopped"
    BY <1>4 DEF Live
  <2>2. /\ conn' \in ConnType /\ net' \subseteq Message /\ reached' \in BOOLEAN
        /\ conn'.stop \/ ~conn'.active
    BY <1>1, <2>1, StoppedData
  <2>3. ReceiverInv'
    BY <1>1, <1>2, <1>4, <2>2 DEF ReceiverInv
  <2>4. QED
    BY <1>2, <1>4, <2>2, <2>3, ReceiverRest
<1>5. QED
  BY <1>3, <1>4

\* A step that leaves the connection alone, and the main thread where it was.
LEMMA SameConn ==
    ASSUME UdpInv, UNCHANGED sender, UNCHANGED <<main, conn, reached, delivered>>,
           net' \subseteq Message, cache' \in SUBSET (1..QueueDepth),
           Live => /\ \A m \in net' : m \in net \/ MsgOf(m)'
                   /\ cache' \subseteq 1..Sent
    PROVE  UdpInv'
<1>1. TypeInv /\ QueueInv /\ ReceiverInv /\ WindowInv
  BY DEF UdpInv
<1>2. main' = main /\ conn' = conn /\ reached' = reached /\ delivered' = delivered
  OBVIOUS
<1>3. /\ conn \in ConnType /\ reached \in BOOLEAN /\ delivered \in Seq(Seq1)
      /\ main \in {"setup", "cached", "idle", "wait", "read", "eos", "stopped", "torn"}
  BY <1>1 DEF TypeInv
<1>4. ReceiverInv'
  BY <1>1, SameReceiver
<1>5. (\A s : Held(s) <=> Held(s)') /\ (Live' <=> Live)
  BY <1>2 DEF Held, Live
<1>6. conn.seq <= conn.seq /\ conn.extraSeq <= conn.extraSeq
  <2>1. conn.seq \in Nat /\ conn.extraSeq \in Nat
    BY <1>3, ConnFields
  <2>2. QED
    BY <2>1, SMT
<1>7. QED
  BY <1>2, <1>3, <1>4, <1>5, <1>6, ReceiverRest

LEMMA RxThreadInv ==
    ASSUME UdpInv, NEW m \in net, NEW rest \in SUBSET net, RxThread(m, rest)
    PROVE  UdpInv'
<1>1. TypeInv /\ QueueInv /\ ReceiverInv /\ WindowInv
  BY DEF UdpInv
<1>2. UNCHANGED sender /\ UNCHANGED <<main, delivered>>
  BY DEF RxThread
<1>3. /\ m \in Message /\ net \subseteq Message /\ cache \in SUBSET (1..QueueDepth) /\ conn \in ConnType
      /\ Live => MsgOf(m) /\ cache \subseteq 1..Sent
  BY <1>1 DEF TypeInv, WindowInv
<1>4. /\ conn.seq \in Nat /\ 1 <= conn.seq /\ conn.seq <= Packets + 1 /\ conn.extraSeq \in Nat
      /\ conn.extraSeq <= Packets /\ conn.stop \in BOOLEAN /\ Packets \in Nat /\ Sent \in Nat
      /\ QueueDepth \in Nat
  BY <1>1, <1>3, ConnFields, SenderFields, DepthAssumption
<1>5. CASE CacheFuturePacket(m, rest)
  <2>1. /\ m.type = "data" /\ net' = rest /\ UNCHANGED <<conn, reached>>
        /\ cache' = IF m.seq <= QueueDepth THEN cache \cup {m.seq} ELSE cache
    BY <1>5 DEF CacheFuturePacket
  <2>2. m.seq \in Seq1
    BY <1>3, <2>1, MessageFields
  <2>3. m.seq <= QueueDepth => m.seq \in 1..QueueDepth
    BY <1>4, <2>2, SMT DEF Seq1
  <2>4. m.seq <= Sent => m.seq \in 1..Sent
    BY <1>4, <2>2, SMT DEF Seq1
  <2>5. Live => m.seq \in 1..Sent
    BY <1>3, <2>1, <2>4 DEF MsgOf
  <2>6. cache' \in SUBSET (1..QueueDepth) /\ (Live => cache' \subseteq 1..Sent)
    BY <1>3, <2>1, <2>3, <2>5
  <2>7. net' \subseteq Message /\ \A x \in net' : x \in net
    BY <1>3, <2>1
  <2>8. QED
    BY <1>2, <2>1, <2>6, <2>7, SameConn
<1>6. CASE AckThePast(m, rest)
  <2>1. /\ main = "torn" /\ m.type \in {"data", "query"} /\ Transmit(rest, {Ack(m.seq, m.seq, TRUE)})
        /\ UNCHANGED <<cache, conn, reached>>
    BY <1>6 DEF AckThePast
  <2>2. m.seq \in Seq1
    BY <1>3, <2>1, MessageFields
  <2>3. m.seq \in 0..Packets
    BY <1>4, <2>2, SMT DEF Seq1
  <2>4. {Ack(m.seq, m.seq, TRUE)} \in SUBSET Message
    <3>1. TRUE \in BOOLEAN
      OBVIOUS
    <3>2. Ack(m.seq, m.seq, TRUE) \in Message
      BY <2>3, <3>1, MessageTypes
    <3>3. QED
      BY <3>2
  <2>5. net' \subseteq Message
    BY <1>3, <2>1, <2>4, NetTyped
  <2>6. ~Live
    BY <2>1 DEF Live
  <2>7. QED
    BY <1>2, <1>3, <2>1, <2>5, <2>6, SameConn
<1>7. CASE /\ main \notin {"setup", "cached", "torn"}
           /\ m.type = "data" /\ HandleDataPacket(conn, m.seq, rest) /\ UNCHANGED cache
  <2>1. m.seq \in Seq1
    BY <1>3, <1>7, MessageFields
  <2>2. Live => m.seq <= Sent
    BY <1>3, <1>7 DEF MsgOf
  <2>3. QED
    BY <1>2, <1>3, <1>7, <2>1, <2>2, DataInv
<1>8. CASE /\ main \notin {"setup", "cached", "torn"}
           /\ HandleQuery(m, rest) /\ UNCHANGED cache
  <2>1. PICK e : e = IF conn.stop THEN conn.seq - 1 ELSE conn.extraSeq
    OBVIOUS
  <2>2. PICK x : x = Ack(conn.seq - 1, e, conn.stop)
    OBVIOUS
  <2>3. Transmit(rest, {x}) /\ UNCHANGED <<conn, reached>>
    BY <1>8, <2>1, <2>2 DEF HandleQuery
  <2>4. conn.seq - 1 \in 0..Packets /\ conn.extraSeq \in 0..Packets /\ conn.seq - 1 < conn.seq
        /\ conn.extraSeq <= conn.extraSeq
    BY <1>4, SMT
  <2>5. e \in 0..Packets
    BY <2>1, <2>4
  <2>6. x \in Message
    BY <1>4, <2>2, <2>4, <2>5, MessageTypes
  <2>7. x.type = "ack" /\ x.seq = conn.seq - 1 /\ x.extraSeq = e /\ x.stop = conn.stop
    BY <2>2 DEF Ack
  <2>8. ASSUME Live PROVE MsgOf(x)'
    <3>1. ~conn.stop
      BY <1>1, <2>8 DEF ReceiverInv
    <3>2. x.extraSeq = conn.extraSeq
      BY <2>1, <2>7, <3>1
    <3>3. x.seq < conn'.seq /\ x.extraSeq <= conn'.extraSeq /\ ~x.stop
      BY <2>3, <2>4, <2>7, <3>1, <3>2
    <3>4. QED
      BY <2>7, <3>3 DEF MsgOf
  <2>9. net' \subseteq rest \cup {x}
    BY <2>3, NetSubset
  <2>10. net' \subseteq Message /\ (Live => \A y \in net' : y \in net \/ MsgOf(y)')
    BY <1>3, <2>6, <2>8, <2>9
  <2>11. QED
    BY <1>2, <1>3, <1>8, <2>3, <2>10, SameConn
<1>9. QED
  BY <1>5, <1>6, <1>7, <1>8 DEF RxThread

LEMMA HandleCachedPacketsInv ==
    ASSUME UdpInv, HandleCachedPackets
    PROVE  UdpInv'
<1>1. TypeInv /\ QueueInv /\ ReceiverInv /\ WindowInv
  BY DEF UdpInv
<1>2. main = "cached" /\ UNCHANGED sender /\ UNCHANGED delivered
  BY DEF HandleCachedPackets
<1>3. Live /\ main \notin {"setup", "torn"}
  BY <1>2 DEF Live
<1>4. cache \in SUBSET (1..QueueDepth) /\ cache \subseteq 1..Sent
  BY <1>1, <1>3 DEF TypeInv, WindowInv
<1>5. Sent \in Nat /\ Sent <= Packets /\ Packets \in Nat
  BY <1>1, SenderFields, DepthAssumption
<1>6. CASE cache # {} /\ HandleDataPacket(conn, Min(cache), net) /\ cache' = cache \ {Min(cache)} /\ UNCHANGED main
  <2>1. cache \in SUBSET Nat
    <3>1. \A s \in 1..Sent : s \in Nat
      BY <1>5, SMT
    <3>2. QED
      BY <1>4, <3>1
  <2>2. Min(cache) \in 1..Sent
    BY <1>4, <1>6, <2>1, MinFacts
  <2>3. Min(cache) \in Seq1 /\ Min(cache) <= Sent
    <3>1. \A s \in 1..Sent : s \in Seq1 /\ s <= Sent
      BY <1>5, SMT DEF Seq1
    <3>2. QED
      BY <2>2, <3>1
  <2>4. cache' \in SUBSET (1..QueueDepth) /\ cache' \subseteq 1..Sent
    BY <1>4, <1>6
  <2>5. net \in SUBSET net /\ UNCHANGED <<main, delivered>>
    BY <1>2, <1>6
  <2>6. QED
    BY <1>2, <1>3, <1>6, <2>3, <2>4, <2>5, DataInv
<1>7. CASE main' = "idle" /\ UNCHANGED <<net, conn, cache, reached>>
  <2>1. net' = net /\ conn' = conn /\ cache' = cache /\ reached' = reached /\ delivered' = delivered
    BY <1>2, <1>7
  <2>2. /\ conn \in ConnType /\ reached \in BOOLEAN /\ delivered \in Seq(Seq1) /\ net \subseteq Message
    BY <1>1 DEF TypeInv
  <2>3. ReceiverInv'
    <3>1. ~reached
      BY <1>1, <1>2, <1>3 DEF ReceiverInv
    <3>2. reached' <=> main' = "wait" /\ conn.size > 0
      <4>1. ~reached'
        BY <2>1, <3>1
      <4>2. main' # "wait"
        BY <1>7
      <4>3. QED
        BY <4>1, <4>2
    <3>3. main \notin {"read", "eos"} /\ main' \in {"cached", "idle", "wait"}
      BY <1>2, <1>7
    <3>4. QED
      BY <1>1, <1>3, <2>1, <3>2, <3>3, MainMoves
  <2>4. (\A s : Held(s) <=> Held(s)') /\ Live'
    BY <1>7, <2>1 DEF Held, Live
  <2>5. conn.seq <= conn.seq /\ conn.extraSeq <= conn.extraSeq
    <3>1. conn.seq \in Nat /\ conn.extraSeq \in Nat
      BY <2>2, ConnFields
    <3>2. QED
      BY <3>1, SMT
  <2>6. QED
    BY <1>2, <1>3, <1>4, <1>7, <2>1, <2>2, <2>3, <2>4, <2>5, ReceiverRest
<1>8. QED
  BY <1>6, <1>7 DEF HandleCachedPackets

LEMMA PosWrap ==
    ASSUME NEW s \in Int
    PROVE  PosOf(s + QueueDepth) = PosOf(s)
<1>1. QueueDepth \in Int /\ QueueDepth > 0 /\ s - 1 \in Int /\ s + QueueDepth - 1 \in Int
      /\ s + QueueDepth - 1 = s - 1 + QueueDepth
  BY DepthAssumption, SMT
<1>2. PICK x \in Int : x = (s - 1) % QueueDepth /\ 0 <= x /\ x < QueueDepth
  BY <1>1, ModFacts
<1>3. PICK y \in Int : y = (s + QueueDepth - 1) % QueueDepth /\ 0 <= y /\ y < QueueDepth
  BY <1>1, ModFacts
<1>4. PICK j \in Int : s - 1 = QueueDepth * j + x
  BY <1>1, <1>2, ModFacts
<1>5. PICK k \in Int : s + QueueDepth - 1 = QueueDepth * k + y
  BY <1>1, <1>3, ModFacts
<1>6. PICK d \in Int : d = QueueDepth /\ d > 0
  BY <1>1
<1>7. y - x = d * (j + 1 - k)
  BY <1>4, <1>5, <1>6, SMT
<1>8. j + 1 - k >= 1 => d * (j + 1 - k) >= d
  BY <1>6, SMT
<1>9. j + 1 - k <= -1 => d * (j + 1 - k) <= -d
  BY <1>6, SMT
<1>10. j + 1 - k = 0
  BY <1>2, <1>3, <1>6, <1>7, <1>8, <1>9, SMT
<1>11. d * (j + 1 - k) = 0
  BY <1>10, SMT
<1>12. y = x
  BY <1>7, <1>11, SMT
<1>13. PosOf(s) = x /\ PosOf(s + QueueDepth) = y
  <2>1. PosOf(s) = (s - 1) % QueueDepth /\ PosOf(s + QueueDepth) = (s + QueueDepth - 1) % QueueDepth
    BY <1>1, SMT DEF PosOf
  <2>2. QED
    BY <1>2, <1>3, <2>1
<1>14. QED
  BY <1>12, <1>13

\* putRxBufferAndSendAck() takes the head out of the ring.
LEMMA PutFacts ==
    ASSUME NEW c \in ConnType, RingInv(c), c.size > 0, NEW d, d = PutRxBuffer(c)
    PROVE  /\ d \in ConnType /\ RingInv(d) /\ HeadSeq(d) = HeadSeq(c) + 1
           /\ d.seq = c.seq /\ d.extraSeq = HeadSeq(c)
           /\ d.stop = c.stop /\ d.active = c.active
           /\ c.q[c.head] = HeadSeq(c) /\ HeadSeq(c) \in Seq1 /\ HeadSeq(c) < c.seq
           /\ \A t \in Int : c.q[PosOf(t)] = t /\ t # HeadSeq(c) => d.q[PosOf(t)] = t
<1> DEFINE q2 == [c.q EXCEPT ![c.head] = NoPacket]
           H == HeadSeq(c)
<1>1. /\ c.seq \in Nat /\ 1 <= c.seq /\ c.seq <= Packets + 1 /\ c.size \in Nat /\ c.size <= QueueDepth
      /\ c.q \in [Pos -> 0..Packets] /\ c.head \in Pos /\ c.tail \in Pos /\ H \in Int
      /\ QueueDepth \in Nat /\ Packets \in Nat
  BY ConnFields, DepthAssumption
<1>2. /\ H >= 1 /\ c.head = PosOf(H) /\ c.tail = PosOf(c.seq)
      /\ \A t \in H..(c.seq - 1) : c.q[PosOf(t)] = t
      /\ \A p \in Pos : c.q[p] # NoPacket => c.q[p] \in H..(H + QueueDepth - 1) /\ PosOf(c.q[p]) = p
      /\ c.size < QueueDepth => c.q[c.tail] = NoPacket
  BY DEF RingInv
<1>3. H = c.seq - c.size
  BY DEF HeadSeq
<1> HIDE DEF H
<1>4. H \in H..(c.seq - 1) /\ H < c.seq /\ H \in 1..Packets /\ H \in 0..Packets
  BY <1>1, <1>2, <1>3, SMTT(30)
<1>5. c.q[c.head] = H
  BY <1>2, <1>4
<1>6. PosOf(H + 1) \in Pos /\ (c.head + 1) % QueueDepth = PosOf(H + 1)
  <2>1. H + 1 \in Int /\ 1 \in Int
    BY <1>1, SMTT(30)
  <2>2. H \in Int /\ c.head = PosOf(H)
    BY <1>1, <1>2
  <2>3. PosOf(H + 1) \in Pos
    BY <2>1, PosFacts
  <2>4. (PosOf(H) + 1) % QueueDepth = PosOf(H + 1)
    BY <2>1, <2>2, PosFacts
  <2>5. QED
    BY <2>2, <2>3, <2>4
<1>7. q2 \in [Pos -> 0..Packets] /\ q2[c.head] = NoPacket /\ \A p \in Pos : p # c.head => q2[p] = c.q[p]
  <2>1. NoPacket \in 0..Packets
    BY <1>1, SMT DEF NoPacket
  <2>2. QED
    BY <1>1, <2>1
<1>8. c.size - 1 \in 0..QueueDepth
  BY <1>1, SMT
<1>9. d = [c EXCEPT !.q = q2, !.head = PosOf(H + 1), !.size = c.size - 1, !.extraSeq = H]
  BY <1>5, <1>6 DEF PutRxBuffer
<1> HIDE DEF q2
<1>10. d \in ConnType
  BY <1>4, <1>6, <1>7, <1>8, <1>9 DEF ConnType
<1>11. /\ d.q = q2 /\ d.head = PosOf(H + 1) /\ d.size = c.size - 1 /\ d.extraSeq = H
       /\ d.seq = c.seq /\ d.tail = c.tail /\ d.stop = c.stop /\ d.active = c.active
  BY <1>9 DEF ConnType
<1>12. HeadSeq(d) = H + 1
  BY <1>1, <1>3, <1>11, SMTT(30) DEF HeadSeq
<1>13. ASSUME NEW t \in Int, c.q[PosOf(t)] = t, t # H PROVE q2[PosOf(t)] = t
  <2>1. PosOf(t) \in Pos
    BY PosFacts
  <2>2. PosOf(t) # c.head
    BY <1>5, <1>13
  <2>3. QED
    BY <1>7, <1>13, <2>1, <2>2
<1>14. ASSUME NEW t \in (H + 1)..(c.seq - 1) PROVE q2[PosOf(t)] = t
  <2>1. t \in H..(c.seq - 1) /\ t \in Int /\ t # H
    BY <1>1, SMT
  <2>2. QED
    BY <1>2, <1>13, <2>1
<1>15. ASSUME NEW p \in Pos, q2[p] # NoPacket
       PROVE  q2[p] \in (H + 1)..(H + 1 + QueueDepth - 1) /\ PosOf(q2[p]) = p
  <2>1. p # c.head /\ q2[p] = c.q[p]
    BY <1>7, <1>15
  <2>2. c.q[p] \in H..(H + QueueDepth - 1) /\ PosOf(c.q[p]) = p
    BY <1>2, <1>15, <2>1
  <2>3. c.q[p] # H
    BY <1>2, <2>1, <2>2
  <2>4. c.q[p] \in (H + 1)..(H + 1 + QueueDepth - 1)
    BY <1>1, <2>2, <2>3, SMTT(30)
  <2>5. QED
    BY <2>1, <2>2, <2>4
<1>16. q2[c.tail] = NoPacket
  <2>1. CASE c.size < QueueDepth
    BY <1>1, <1>2, <1>7, <2>1
  <2>2. CASE ~(c.size < QueueDepth)
    <3>1. c.seq = H + QueueDepth
      BY <1>1, <1>3, <2>2, SMT
    <3>2. c.tail = c.head
      BY <1>1, <1>2, <3>1, PosWrap
    <3>3. QED
      BY <1>7, <3>2
  <2>3. QED
    BY <2>1, <2>2
<1>17. RingInv(d)
  <2>1. H + 1 >= 1 /\ H = H + 1 - 1
    BY <1>1, <1>2, SMTT(30)
  <2>2. /\ HeadSeq(d) >= 1 /\ d.head = PosOf(HeadSeq(d)) /\ d.tail = PosOf(d.seq)
        /\ d.extraSeq = HeadSeq(d) - 1
    <3>1. d.head = PosOf(HeadSeq(d)) /\ d.tail = PosOf(d.seq)
      BY <1>2, <1>11, <1>12
    <3>2. HeadSeq(d) >= 1 /\ d.extraSeq = HeadSeq(d) - 1
      BY <1>1, <1>11, <1>12, <2>1, SMTT(30)
    <3>3. QED
      BY <3>1, <3>2
  <2>3. \A t \in HeadSeq(d)..(d.seq - 1) : d.q[PosOf(t)] = t
    BY <1>11, <1>12, <1>14
  <2>4. \A p \in Pos : d.q[p] # NoPacket =>
           d.q[p] \in HeadSeq(d)..(HeadSeq(d) + QueueDepth - 1) /\ PosOf(d.q[p]) = p
    BY <1>11, <1>12, <1>15
  <2>5. d.q[d.tail] = NoPacket
    BY <1>11, <1>16
  <2>6. QED
    BY <2>2, <2>3, <2>4, <2>5 DEF RingInv
<1>18. QED
  BY <1>4, <1>5, <1>10, <1>11, <1>12, <1>13, <1>17 DEF H, Seq1

\* The steps of the main thread.
LEMMA ReadHeadInv ==
    ASSUME UdpInv, main \in {"idle", "wait"}, conn.size > 0, ReadHead
    PROVE  UdpInv'
<1>1. TypeInv /\ QueueInv /\ ReceiverInv /\ WindowInv
  BY DEF UdpInv
<1>2. /\ main' = "read" /\ delivered' = Append(delivered, conn.q[conn.head]) /\ reached' = FALSE
      /\ net' = net /\ conn' = conn /\ cache' = cache /\ UNCHANGED sender
  BY DEF ReadHead
<1>3. Live /\ Live'
  BY <1>2 DEF Live
<1>4. /\ conn \in ConnType /\ delivered \in Seq(Seq1) /\ net \subseteq Message
      /\ cache \in SUBSET (1..QueueDepth)
  BY <1>1 DEF TypeInv
<1>5. /\ RingInv(conn) /\ ~conn.stop /\ (conn.active \/ conn.seq = Packets + 1)
      /\ Len(delivered) = HeadSeq(conn) - 1
      /\ \A i \in 1..Len(delivered) : delivered[i] = i
  BY <1>1, <1>3 DEF ReceiverInv
<1>6. PICK h \in Seq1 : h = HeadSeq(conn) /\ conn.q[conn.head] = h
  <2>1. PICK d : d = PutRxBuffer(conn)
    OBVIOUS
  <2>2. conn.q[conn.head] = HeadSeq(conn) /\ HeadSeq(conn) \in Seq1
    BY <1>4, <1>5, <2>1, PutFacts
  <2>3. QED
    BY <2>2
<1>7. h \in Nat /\ Len(delivered) \in Nat /\ Len(delivered) = h - 1
  <2>1. h \in Nat /\ Len(delivered) \in Nat
    BY <1>4, SMT DEF Seq1
  <2>2. QED
    BY <1>5, <1>6, <2>1
<1>8. delivered' = Append(delivered, h)
  BY <1>2, <1>6
<1>9. /\ delivered' \in Seq(Seq1) /\ Len(delivered') = h
      /\ \A i \in 1..h : delivered'[i] = IF i = h THEN h ELSE delivered[i]
  BY <1>4, <1>7, <1>8, SMT
<1>10. \A i \in 1..Len(delivered') : delivered'[i] = i
  <2> SUFFICES ASSUME NEW i \in 1..h PROVE delivered'[i] = i
    BY <1>9
  <2>1. i # h => i \in 1..Len(delivered)
    BY <1>7, SMT
  <2>2. QED
    BY <1>5, <1>9, <2>1
<1>11. ReceiverInv'
  <2>1. HeadSeq(conn)' = HeadSeq(conn)
    BY <1>2 DEF HeadSeq
  <2>2. RingInv(conn)'
    BY <1>2, <1>5, <2>1 DEF RingInv
  <2>3. Len(delivered') = HeadSeq(conn)'
    BY <1>6, <1>9, <2>1
  <2>4. main' \notin {"stopped", "setup", "wait"} /\ main' \in {"read", "eos"} /\ ~reached'
    BY <1>2
  <2>5. conn'.size > 0 /\ ~conn'.stop /\ (conn'.active \/ conn'.seq = Packets + 1)
    BY <1>2, <1>5
  <2>6. QED
    BY <1>3, <1>10, <2>2, <2>3, <2>4, <2>5 DEF ReceiverInv
<1>12. ASSUME NEW s \in Seq1, Held(s) PROVE Held(s)'
  <2>1. s <= Len(delivered) => s <= Len(delivered')
    BY <1>7, <1>9, SMT DEF Seq1
  <2>2. QED
    BY <1>2, <1>12, <2>1 DEF Held
<1>13. conn.seq <= conn.seq /\ conn.extraSeq <= conn.extraSeq
  <2>1. conn.seq \in Nat /\ conn.extraSeq \in Nat
    BY <1>4, ConnFields
  <2>2. QED
    BY <2>1, SMT
<1>14. cache \subseteq 1..Sent
  BY <1>1, <1>3 DEF WindowInv
<1>15. /\ main' \in {"setup", "cached", "idle", "wait", "read", "eos", "stopped", "torn"}
       /\ reached' \in BOOLEAN /\ \A m \in net' : m \in net
  BY <1>2
<1>16. QED
  BY <1>2, <1>3, <1>4, <1>9, <1>11, <1>12, <1>13, <1>14, <1>15, ReceiverRest

LEMMA DeregisterInv ==
    ASSUME UdpInv, Deregister
    PROVE  UdpInv'
<1>1. TypeInv /\ QueueInv /\ ReceiverInv /\ WindowInv
  BY DEF UdpInv
<1>2. /\ main = "read" /\ IsEos(conn.q[conn.head]) /\ main' = "eos"
      /\ conn' = [conn EXCEPT !.active = FALSE] /\ net' = net /\ cache' = cache
      /\ reached' = reached /\ delivered' = delivered /\ UNCHANGED sender
  BY DEF Deregister
<1>3. Live /\ Live'
  BY <1>2 DEF Live
<1>4. /\ conn \in ConnType /\ delivered \in Seq(Seq1) /\ net \subseteq Message
      /\ cache \in SUBSET (1..QueueDepth) /\ reached \in BOOLEAN
  BY <1>1 DEF TypeInv
<1>5. conn' \in ConnType
  BY <1>2, <1>4 DEF ConnType
<1>6. /\ conn'.q = conn.q /\ conn'.seq = conn.seq /\ conn'.size = conn.size /\ conn'.head = conn.head
      /\ conn'.tail = conn.tail /\ conn'.extraSeq = conn.extraSeq /\ conn'.stop = conn.stop
  BY <1>2, <1>4 DEF ConnType
<1>7. /\ RingInv(conn) /\ ~conn.stop /\ Len(delivered) = HeadSeq(conn) /\ conn.size > 0 /\ ~reached
      /\ \A i \in 1..Len(delivered) : delivered[i] = i
  BY <1>1, <1>2, <1>3 DEF ReceiverInv
<1>8. conn.seq = Packets + 1
  <2>1. PICK d : d = PutRxBuffer(conn)
    OBVIOUS
  <2>2. conn.q[conn.head] = HeadSeq(conn) /\ HeadSeq(conn) < conn.seq
    BY <1>4, <1>7, <2>1, PutFacts
  <2>3. HeadSeq(conn) = Packets
    BY <1>2, <2>2 DEF IsEos
  <2>4. Packets < conn.seq
    BY <2>2, <2>3
  <2>5. conn.seq \in Nat /\ conn.seq <= Packets + 1 /\ Packets \in Nat
    BY <1>4, ConnFields, DepthAssumption
  <2>6. QED
    BY <2>4, <2>5, SMT
<1>9. ReceiverInv'
  <2>1. HeadSeq(conn)' = HeadSeq(conn)
    BY <1>6 DEF HeadSeq
  <2>2. RingInv(conn)'
    BY <1>6, <1>7, <2>1 DEF RingInv
  <2>3. Len(delivered') = HeadSeq(conn)' /\ \A i \in 1..Len(delivered') : delivered'[i] = i
    BY <1>2, <1>7, <2>1
  <2>4. main' \notin {"stopped", "setup", "wait"} /\ main' \in {"read", "eos"} /\ ~reached'
    BY <1>2, <1>7
  <2>5. conn'.size > 0 /\ ~conn'.stop /\ conn'.seq = Packets + 1
    BY <1>6, <1>7, <1>8
  <2>6. QED
    BY <1>3, <2>2, <2>3, <2>4, <2>5 DEF ReceiverInv
<1>10. \A s : Held(s) <=> Held(s)'
  BY <1>2, <1>6 DEF Held
<1>11. conn.seq <= conn'.seq /\ conn.extraSeq <= conn'.extraSeq
  <2>1. conn.seq \in Nat /\ conn.extraSeq \in Nat
    BY <1>4, ConnFields
  <2>2. QED
    BY <1>6, <2>1, SMT
<1>12. cache \subseteq 1..Sent
  BY <1>1, <1>3 DEF WindowInv
<1>13. /\ main' \in {"setup", "cached", "idle", "wait", "read", "eos", "stopped", "torn"}
       /\ reached' \in BOOLEAN /\ \A m \in net' : m \in net
  BY <1>2, <1>4
<1>14. QED
  BY <1>2, <1>3, <1>4, <1>5, <1>9, <1>10, <1>11, <1>12, <1>13, ReceiverRest

LEMMA MlPutRxBufferInv ==
    ASSUME UdpInv, MlPutRxBuffer
    PROVE  UdpInv'
<1>1. TypeInv /\ QueueInv /\ ReceiverInv /\ WindowInv
  BY DEF UdpInv
<1>2. /\ main \in {"read", "eos"} /\ main' = "idle"
      /\ conn' = PutRxBuffer(conn) /\ Transmit(net, PutRxBufferAcks(conn)) /\ cache' = cache
      /\ reached' = reached /\ delivered' = delivered /\ UNCHANGED sender
  BY DEF MlPutRxBuffer
<1>3. Live /\ Live'
  BY <1>2 DEF Live
<1>4. /\ conn \in ConnType /\ delivered \in Seq(Seq1) /\ net \subseteq Message
      /\ cache \in SUBSET (1..QueueDepth) /\ reached \in BOOLEAN
  BY <1>1 DEF TypeInv
<1>5. /\ RingInv(conn) /\ ~conn.stop /\ Len(delivered) = HeadSeq(conn) /\ conn.size > 0 /\ ~reached
      /\ (conn.active \/ conn.seq = Packets + 1)
      /\ \A i \in 1..Len(delivered) : delivered[i] = i
  BY <1>1, <1>2, <1>3 DEF ReceiverInv
<1>6. /\ conn' \in ConnType /\ RingInv(conn') /\ HeadSeq(conn') = HeadSeq(conn) + 1
      /\ conn'.seq = conn.seq /\ conn'.extraSeq = HeadSeq(conn)
      /\ conn'.stop = conn.stop /\ conn'.active = conn.active
      /\ conn.q[conn.head] = HeadSeq(conn) /\ HeadSeq(conn) \in Seq1 /\ HeadSeq(conn) < conn.seq
      /\ \A t \in Int : conn.q[PosOf(t)] = t /\ t # HeadSeq(conn) => conn'.q[PosOf(t)] = t
  <2>1. PICK d : d = PutRxBuffer(conn)
    OBVIOUS
  <2>2. /\ d \in ConnType /\ RingInv(d) /\ HeadSeq(d) = HeadSeq(conn) + 1
        /\ d.seq = conn.seq /\ d.extraSeq = HeadSeq(conn)
        /\ d.stop = conn.stop /\ d.active = conn.active
        /\ conn.q[conn.head] = HeadSeq(conn) /\ HeadSeq(conn) \in Seq1 /\ HeadSeq(conn) < conn.seq
        /\ \A t \in Int : conn.q[PosOf(t)] = t /\ t # HeadSeq(conn) => d.q[PosOf(t)] = t
    BY <1>4, <1>5, <2>1, PutFacts
  <2>3. conn' = d
    BY <1>2, <2>1
  <2>4. QED
    BY <2>2, <2>3
<1>7. PICK h \in Seq1 : h = HeadSeq(conn)
  BY <1>6
<1>8. /\ h \in Nat /\ h \in 0..Packets /\ conn.seq \in Nat /\ conn.seq - 1 \in 0..Packets
      /\ conn.seq - 1 < conn.seq /\ h <= h /\ h = h + 1 - 1 /\ conn.extraSeq \in Nat
  <2>1. conn.seq \in Nat /\ 1 <= conn.seq /\ conn.seq <= Packets + 1 /\ Packets \in Nat
        /\ conn.extraSeq \in Nat
    BY <1>4, ConnFields, DepthAssumption
  <2>2. QED
    BY <2>1, SMT DEF Seq1
<1>9. conn.extraSeq <= conn'.extraSeq /\ conn.seq <= conn'.seq
  <2>1. conn.extraSeq = h - 1
    BY <1>5, <1>7 DEF RingInv
  <2>2. QED
    BY <1>6, <1>7, <1>8, <2>1, SMTT(30)
<1>10. PICK m : m = Ack(conn.seq - 1, h, conn.stop)
  OBVIOUS
<1>11. m \in Message /\ MsgOf(m)'
  <2>1. conn.stop \in BOOLEAN
    BY <1>4, ConnFields
  <2>2. m \in Message
    BY <1>8, <1>10, <2>1, MessageTypes
  <2>3. m.type = "ack" /\ m.seq = conn.seq - 1 /\ m.extraSeq = h /\ m.stop = conn.stop
    BY <1>10 DEF Ack
  <2>4. ~m.stop /\ m.seq < conn'.seq /\ m.extraSeq <= conn'.extraSeq
    BY <1>5, <1>6, <1>7, <1>8, <2>3
  <2>5. QED
    BY <2>2, <2>3, <2>4 DEF MsgOf
<1>12. net' \subseteq net \cup {m}
  <2>1. PutRxBufferAcks(conn) \subseteq {m}
    BY <1>6, <1>7, <1>10 DEF PutRxBufferAcks
  <2>2. net' \subseteq net \cup PutRxBufferAcks(conn)
    BY <1>2, NetSubset
  <2>3. QED
    BY <2>1, <2>2
<1>13. ReceiverInv'
  <2>1. RingInv(conn)' /\ HeadSeq(conn)' = h + 1
    BY <1>6, <1>7 DEF RingInv, HeadSeq
  <2>2. Len(delivered') = HeadSeq(conn)' - 1
    <3>1. Len(delivered') = h
      BY <1>2, <1>5, <1>7
    <3>2. QED
      BY <1>8, <2>1, <3>1, SMT
  <2>3. main' \notin {"stopped", "setup", "wait", "read", "eos"} /\ ~reached'
    BY <1>2, <1>5
  <2>4. ~conn'.stop /\ (conn'.active \/ conn'.seq = Packets + 1)
    BY <1>5, <1>6
  <2>5. \A i \in 1..Len(delivered') : delivered'[i] = i
    BY <1>2, <1>5
  <2>6. QED
    BY <1>3, <2>1, <2>2, <2>3, <2>4, <2>5 DEF ReceiverInv
<1>14. ASSUME NEW s \in Seq1, Held(s) PROVE Held(s)'
  <2>1. s \in Int
    BY SMT DEF Seq1
  <2>2. CASE s = h
    <3>1. s <= Len(delivered')
      BY <1>2, <1>5, <1>7, <1>8, <2>2
    <3>2. QED
      BY <3>1 DEF Held
  <2>3. CASE s # h
    BY <1>2, <1>6, <1>7, <1>14, <2>1, <2>3 DEF Held
  <2>4. QED
    BY <2>2, <2>3
<1>15. cache \subseteq 1..Sent
  BY <1>1, <1>3 DEF WindowInv
<1>16. /\ main' \in {"setup", "cached", "idle", "wait", "read", "eos", "stopped", "torn"}
       /\ net' \subseteq Message /\ \A x \in net' : x \in net \/ MsgOf(x)'
  BY <1>2, <1>4, <1>11, <1>12
<1>17. QED
  BY <1>2, <1>3, <1>4, <1>6, <1>9, <1>13, <1>14, <1>15, <1>16, ReceiverRest

\* A receiver that stops or tears down promises no more.
LEMMA NoLongerLive ==
    ASSUME UdpInv, UNCHANGED sender, UNCHANGED delivered, conn' \in ConnType, net' \subseteq Message,
           reached' \in BOOLEAN, cache' \in SUBSET (1..QueueDepth),
           main' \in {"stopped", "torn"},
           main' = "stopped" => conn'.stop \/ ~conn'.active
    PROVE  UdpInv'
<1>1. ~Live'
  BY DEF Live
<1>2. delivered \in Seq(Seq1) /\ \A i \in 1..Len(delivered) : delivered[i] = i
  BY DEF UdpInv, TypeInv, ReceiverInv
<1>3. ReceiverInv'
  BY <1>1, <1>2 DEF ReceiverInv
<1>4. /\ main' \in {"setup", "cached", "idle", "wait", "read", "eos", "stopped", "torn"}
      /\ delivered' \in Seq(Seq1)
  BY <1>2
<1>5. QED
  BY <1>1, <1>3, <1>4, ReceiverRest

LEMMA DrainFacts ==
    ASSUME NEW c \in ConnType
    PROVE  DrainQueue(c) \in ConnType /\ DrainAcks(c) \in SUBSET Message
<1>1. /\ c.seq \in Nat /\ 1 <= c.seq /\ c.seq <= Packets + 1 /\ c.extraSeq \in 0..Packets
      /\ c.q \in [Pos -> 0..Packets] /\ c.head \in Pos /\ c.tail \in Pos
      /\ c.stop \in BOOLEAN /\ QueueDepth \in Nat /\ QueueDepth # 0 /\ Packets \in Nat
  BY ConnFields, DepthAssumption DEF ConnType
<1>2. \A i \in Int : i % QueueDepth \in Pos
  <2>1. QueueDepth \in Int /\ QueueDepth > 0
    BY <1>1, SMT
  <2>2. ASSUME NEW i \in Int PROVE i % QueueDepth \in Pos
    <3>1. i % QueueDepth \in Int /\ 0 <= i % QueueDepth /\ i % QueueDepth < QueueDepth
      BY <2>1, ModFacts
    <3>2. PICK x \in Int : x = i % QueueDepth /\ 0 <= x /\ x < QueueDepth
      BY <3>1
    <3>3. x \in 0..(QueueDepth - 1)
      BY <2>1, <3>2, SMT
    <3>4. QED
      BY <3>2, <3>3 DEF Pos
  <2>3. QED
    BY <2>2
<1>3. NoPacket \in 0..Packets /\ 0 \in 0..QueueDepth /\ c.seq - 1 \in 0..Packets
  BY <1>1, SMT DEF NoPacket
<1>4. c.q[(c.tail + QueueDepth - 1) % QueueDepth] \in 0..Packets
  <2>1. c.tail + QueueDepth - 1 \in Int
    BY <1>1, SMT DEF Pos
  <2>2. QED
    BY <1>1, <1>2, <2>1
<1>5. DrainQueue(c) \in ConnType
  <2> DEFINE q2 == [i \in Pos |-> IF c.q[i] \in Queued(c) THEN NoPacket ELSE c.q[i]]
             e == IF c.size = 0 THEN c.extraSeq ELSE c.q[(c.tail + QueueDepth - 1) % QueueDepth]
  <2>1. q2 \in [Pos -> 0..Packets]
    BY <1>1, <1>3
  <2>2. e \in 0..Packets
    BY <1>1, <1>4
  <2>3. DrainQueue(c) = [c EXCEPT !.q = q2, !.head = c.tail, !.size = 0, !.extraSeq = e]
    BY DEF DrainQueue
  <2> HIDE DEF q2, e
  <2>4. QED
    BY <1>1, <1>3, <2>1, <2>2, <2>3 DEF ConnType
<1>6. \A s \in Queued(c) : s \in 0..Packets
  <2> SUFFICES ASSUME NEW i \in 0..(c.size - 1) PROVE c.q[(c.head + i) % QueueDepth] \in 0..Packets
    BY DEF Queued
  <2>1. c.head + i \in Int
    BY <1>1, ConnFields, SMTT(30) DEF Pos
  <2>2. QED
    BY <1>1, <1>2, <2>1
<1>7. DrainAcks(c) \in SUBSET Message
  <2> SUFFICES ASSUME NEW s \in Queued(c) PROVE Ack(c.seq - 1, s, c.stop) \in Message
    BY DEF DrainAcks
  <2>1. QED
    BY <1>1, <1>3, <1>6, MessageTypes
<1>8. QED
  BY <1>5, <1>7

LEMMA StopInv ==
    ASSUME UdpInv, SendStopMessage \/ Teardown
    PROVE  UdpInv'
<1>1. TypeInv /\ QueueInv /\ ReceiverInv /\ WindowInv
  BY DEF UdpInv
<1>2. /\ conn \in ConnType /\ net \subseteq Message /\ reached \in BOOLEAN
      /\ cache \in SUBSET (1..QueueDepth)
  BY <1>1 DEF TypeInv
<1>3. DrainQueue(conn) \in ConnType /\ DrainAcks(conn) \in SUBSET Message
  BY <1>2, DrainFacts
<1>4. net \in SUBSET net
  OBVIOUS
<1>5. CASE SendStopMessage
  <2>1. /\ main' = "stopped" /\ UNCHANGED sender /\ cache' = cache /\ reached' = reached
        /\ delivered' = delivered
    BY <1>5 DEF SendStopMessage
  <2>2. CASE conn' = [DrainQueue(conn) EXCEPT !.active = FALSE] /\ Transmit(net, DrainAcks(conn))
    <3>1. PICK d \in ConnType : d = DrainQueue(conn)
      BY <1>3
    <3>2. conn' = [d EXCEPT !.active = FALSE]
      BY <2>2, <3>1
    <3>3. conn' \in ConnType /\ conn'.active = FALSE
      BY <3>2 DEF ConnType
    <3>4. net' \subseteq Message
      BY <1>2, <1>3, <1>4, <2>2, NetTyped
    <3>5. QED
      BY <1>2, <2>1, <3>3, <3>4, NoLongerLive
  <2>3. CASE /\ conn' = [conn EXCEPT !.stop = TRUE]
             /\ Transmit(net, IF conn.peer THEN {Ack(conn.seq - 1, conn.seq - 1, TRUE)} ELSE {})
    <3>1. conn' \in ConnType /\ conn'.stop = TRUE
      BY <1>2, <2>3 DEF ConnType
    <3>2. conn.seq - 1 \in 0..Packets
      <4>1. conn.seq \in Nat /\ 1 <= conn.seq /\ conn.seq <= Packets + 1 /\ Packets \in Nat
        BY <1>2, ConnFields, DepthAssumption
      <4>2. QED
        BY <4>1, SMT
    <3>3. PICK acks : acks = IF conn.peer THEN {Ack(conn.seq - 1, conn.seq - 1, TRUE)} ELSE {}
      OBVIOUS
    <3>4. acks \in SUBSET Message
      <4>1. TRUE \in BOOLEAN
        OBVIOUS
      <4>2. Ack(conn.seq - 1, conn.seq - 1, TRUE) \in Message
        BY <3>2, <4>1, MessageTypes
      <4>3. QED
        BY <3>3, <4>2
    <3>5. Transmit(net, acks)
      BY <2>3, <3>3
    <3>6. net' \subseteq Message
      BY <1>2, <1>4, <3>4, <3>5, NetTyped
    <3>7. QED
      BY <1>2, <2>1, <3>1, <3>6, NoLongerLive
  <2>4. QED
    BY <1>5, <2>2, <2>3 DEF SendStopMessage
<1>6. CASE Teardown
  <2>1. /\ main' = "torn" /\ Transmit(net, DrainAcks(conn)) /\ conn' = NewConn /\ cache' = {}
        /\ reached' = FALSE /\ UNCHANGED sender /\ delivered' = delivered
    BY <1>6 DEF Teardown
  <2>2. net' \subseteq Message
    BY <1>2, <1>3, <1>4, <2>1, NetTyped
  <2>3. conn' \in ConnType
    BY <2>1, NewConnFacts
  <2>4. QED
    BY <2>1, <2>2, <2>3, NoLongerLive
<1>7. QED
  BY <1>5, <1>6

\* The steps that only move the main thread, or lose something.
LEMMA OtherInv ==
    ASSUME UdpInv, Setup \/ WaitForChunk \/ CleanupStartupCache \/ \E m \in net : Lose(m)
    PROVE  UdpInv'
<1>1. TypeInv /\ QueueInv /\ ReceiverInv /\ WindowInv
  BY DEF UdpInv
<1>2. /\ conn \in ConnType /\ net \subseteq Message /\ reached \in BOOLEAN /\ delivered \in Seq(Seq1)
      /\ cache \in SUBSET (1..QueueDepth) /\ (Live => cache \subseteq 1..Sent)
  BY <1>1 DEF TypeInv, WindowInv
<1>3. CASE Setup \/ WaitForChunk
  <2>1. /\ main \in {"setup", "idle"} /\ main' \in {"cached", "wait"} /\ UNCHANGED sender
        /\ net' = net /\ conn' = conn /\ cache' = cache /\ delivered' = delivered
        /\ \/ main = "setup" /\ main' = "cached" /\ reached' = reached
           \/ reached' = FALSE /\ conn.size = 0
    BY <1>3 DEF Setup, WaitForChunk
  <2>2. Live /\ Live'
    BY <2>1 DEF Live
  <2>3. conn.size = 0 => ~(conn.size > 0)
    BY SMT
  <2>4. reached' \in BOOLEAN /\ (reached' <=> main' = "wait" /\ conn.size > 0)
    <3>1. CASE main = "setup" /\ main' = "cached" /\ reached' = reached
      <4>1. ~reached
        BY <1>1, <2>2, <3>1 DEF ReceiverInv
      <4>2. ~reached' /\ reached' \in BOOLEAN /\ main' # "wait"
        BY <1>2, <3>1, <4>1
      <4>3. QED
        BY <4>2
    <3>2. CASE reached' = FALSE /\ conn.size = 0
      <4>1. ~reached' /\ reached' \in BOOLEAN
        BY <3>2
      <4>2. QED
        BY <2>3, <3>2, <4>1
    <3>3. QED
      BY <2>1, <3>1, <3>2
  <2>5. main \notin {"read", "eos"} /\ main' \in {"cached", "idle", "wait"}
    BY <2>1
  <2>6. ReceiverInv'
    BY <1>1, <2>1, <2>2, <2>4, <2>5, MainMoves
  <2>7. \A s : Held(s) <=> Held(s)'
    BY <2>1 DEF Held
  <2>8. conn.seq <= conn.seq /\ conn.extraSeq <= conn.extraSeq
    <3>1. conn.seq \in Nat /\ conn.extraSeq \in Nat
      BY <1>2, ConnFields
    <3>2. QED
      BY <3>1, SMT
  <2>9. main' \in {"setup", "cached", "idle", "wait", "read", "eos", "stopped", "torn"}
    BY <2>5
  <2>10. QED
    BY <1>2, <2>1, <2>2, <2>4, <2>6, <2>7, <2>8, <2>9, ReceiverRest
<1>4. CASE CleanupStartupCache
  <2>1. /\ UNCHANGED sender /\ UNCHANGED <<main, conn, reached, delivered>> /\ net' = net /\ cache' = {}
    BY <1>4 DEF CleanupStartupCache
  <2>2. net' \subseteq Message /\ cache' \in SUBSET (1..QueueDepth) /\ cache' \subseteq 1..Sent
        /\ \A m \in net' : m \in net
    BY <1>2, <2>1
  <2>3. QED
    BY <2>1, <2>2, SameConn
<1>5. CASE \E m \in net : Lose(m)
  <2>1. /\ UNCHANGED sender /\ UNCHANGED <<main, conn, reached, delivered>> /\ cache' = cache
        /\ net' \subseteq net
    BY <1>5 DEF Lose, receiver
  <2>2. net' \subseteq Message /\ \A m \in net' : m \in net
    BY <1>2, <2>1
  <2>3. QED
    BY <1>2, <2>1, <2>2, SameConn
<1>6. QED
  BY <1>3, <1>4, <1>5

-----------------------------------------------------------------------------
(* The theorems.                                                            *)

LEMMA InitInv == Init => UdpInv
<1> SUFFICES ASSUME Init PROVE UdpInv
  OBVIOUS
<1>1. /\ net = {} /\ pc = "run" /\ sndSeq = 1 /\ sndQueue = <<>> /\ unackQueue = {}
      /\ capacity = QueueDepth /\ consumedSeq = 0 /\ receivedAckSeq = 0 /\ started = FALSE
      /\ stopRequested = FALSE /\ main = "setup" /\ conn = NewConn /\ cache = {}
      /\ reached = FALSE /\ delivered = <<>>
  BY DEF Init
<1>2. Packets \in Nat /\ Packets # 0 /\ QueueDepth \in Nat /\ MaxSndBuffers \in Nat
      /\ MaxSndBuffers # 0
  BY DepthAssumption, MaxBuffers
<1>3. /\ sndQueue \in Seq(Seq1) /\ Len(sndQueue) = 0 /\ delivered \in Seq(Seq1) /\ Len(delivered) = 0
      /\ 1..0 = {} /\ 0 \in 0..Packets /\ 1 \in 1..(Packets + 1) /\ 1 <= Packets
  BY <1>1, <1>2, SMT
<1>4. Cardinality(unackQueue) = 0
  BY <1>1, FS_EmptySet
<1>5. Sent = 0
  <2>1. Sent = 1 - 1 - 0
    BY <1>1, <1>3 DEF Sent
  <2>2. QED
    BY <2>1, SMT
<1>6. conn \in ConnType /\ RingInv(conn) /\ HeadSeq(conn) = 1
  BY <1>1, NewConnFacts
<1>7. /\ conn.stop = FALSE /\ conn.active = TRUE /\ conn.size = 0 /\ conn.extraSeq = 0
  BY <1>1 DEF NewConn
<1>8. TypeInv
  BY <1>1, <1>2, <1>3, <1>6 DEF TypeInv
<1>9. QueueInv
  <2>1. Len(sndQueue) + Cardinality(unackQueue) <= MaxSndBuffers
        /\ Len(sndQueue) + Cardinality(unackQueue) < MaxSndBuffers
    BY <1>2, <1>3, <1>4, SMT
  <2>2. QED
    BY <1>1, <1>3, <1>5, <2>1 DEF QueueInv
<1>10. ReceiverInv
  <2>1. Len(delivered) = HeadSeq(conn) - 1 /\ ~(conn.size > 0)
    BY <1>3, <1>6, <1>7, SMT
  <2>2. main \notin {"read", "eos", "wait", "stopped"} /\ ~reached
    BY <1>1
  <2>3. \A i \in 1..Len(delivered) : delivered[i] = i
    BY <1>3
  <2>4. QED
    BY <1>1, <1>6, <1>7, <2>1, <2>2, <2>3 DEF ReceiverInv
<1>11. WindowInv
  <2>1. consumedSeq <= conn.extraSeq /\ capacity = QueueDepth + consumedSeq - Sent
    BY <1>1, <1>2, <1>5, <1>7, SMT
  <2>2. \A s \in 1..Sent : FALSE
    BY <1>3, <1>5
  <2>3. QED
    BY <1>1, <2>1, <2>2 DEF WindowInv
<1>12. QED
  BY <1>8, <1>9, <1>10, <1>11 DEF UdpInv

LEMMA NextInv == UdpInv /\ [Next]_vars => UdpInv'
<1> SUFFICES ASSUME UdpInv, [Next]_vars PROVE UdpInv'
  OBVIOUS
<1>1. CASE SenderSteps \/ CheckDeadlock \/ \E s \in Seq1 : Resend(s)
  BY <1>1, SendPacketInv, SenderInv DEF SenderSteps
<1>2. CASE ReceiverSteps
  <2>1. CASE Setup \/ WaitForChunk
    BY <2>1, OtherInv
  <2>2. CASE HandleCachedPackets
    BY <2>2, HandleCachedPacketsInv
  <2>3. CASE RecvTupleChunk
    <3>1. main \in {"idle", "wait"} /\ conn.size > 0 /\ ReadHead
      BY <2>3 DEF RecvTupleChunk
    <3>2. QED
      BY <3>1, ReadHeadInv
  <2>4. CASE WakeUp
    <3>1. main = "wait" /\ reached /\ ReadHead
      BY <2>4 DEF WakeUp
    <3>2. Live
      BY <3>1 DEF Live
    <3>3. conn.size > 0
      BY <3>1, <3>2 DEF UdpInv, ReceiverInv
    <3>4. main \in {"idle", "wait"}
      BY <3>1
    <3>5. QED
      BY <3>1, <3>3, <3>4, ReadHeadInv
  <2>5. CASE Deregister
    BY <2>5, DeregisterInv
  <2>6. CASE MlPutRxBuffer
    BY <2>6, MlPutRxBufferInv
  <2>7. QED
    BY <1>2, <2>1, <2>2, <2>3, <2>4, <2>5, <2>6 DEF ReceiverSteps
<1>3. CASE SendStopMessage \/ Teardown
  BY <1>3, StopInv
<1>4. CASE CleanupStartupCache
  BY <1>4, OtherInv
<1>5. CASE \E m \in net : AtReceiver(m) \/ AtSender(m) \/ Lose(m)
  <2>1. PICK m \in net : AtReceiver(m) \/ AtSender(m) \/ Lose(m)
    BY <1>5
  <2>2. CASE AtReceiver(m) \/ AtSender(m)
    <3>1. PICK rest \in {net, net \ {m}} : RxThread(m, rest) \/ HandleAcks(m, rest)
      BY <2>2 DEF AtReceiver, AtSender
    <3>2. rest \in SUBSET net
      OBVIOUS
    <3>3. QED
      BY <3>1, <3>2, RxThreadInv, HandleAcksInv
  <2>3. CASE Lose(m)
    BY <2>3, OtherInv
  <2>4. QED
    BY <2>1, <2>2, <2>3
<1>6. CASE UNCHANGED vars
  <2>1. UNCHANGED sender /\ UNCHANGED receiver /\ net' = net
    BY <1>6 DEF vars
  <2>2. QED
    BY <2>1, ResendInv
<1>7. QED
  BY <1>1, <1>2, <1>3, <1>4, <1>5, <1>6 DEF Next, Terminated

LEMMA UdpInvariant == Spec => []UdpInv
<1>1. Init => UdpInv
  BY InitInv
<1>2. UdpInv /\ [Next]_vars => UdpInv'
  BY NextInv
<1>3. QED
  BY <1>1, <1>2, PTL DEF Spec

\* Every variable keeps its type, the receiver's ring stays within its depth and
\* the sender's queues within what getSndBuffer() allows one connection: the send
\* queue depth with capacity based flow control, with loss based flow control the
\* pool that the connections share, whatever the depths and their number.
THEOREM TypeCorrect == Spec => []TypeOK
<1>1. UdpInv => TypeOK
  <2> SUFFICES ASSUME UdpInv PROVE TypeOK
    OBVIOUS
  <2>1. TypeInv /\ QueueInv
    BY DEF UdpInv
  <2>2. sndQueue \in Seq(Seq1) /\ unackQueue \in SUBSET Seq1 /\ delivered \in Seq(Seq1)
    BY <2>1 DEF TypeInv
  <2>3. Range(sndQueue) \subseteq Seq1 /\ Range(delivered) \subseteq Seq1
    BY <2>2, SMT DEF Range
  <2>4. QED
    BY <2>1, <2>2, <2>3 DEF TypeOK, TypeInv, QueueInv, ConnType, SndBuffers
<1>2. QED
  BY <1>1, UdpInvariant, PTL

\* However packets are lost, copied and reordered the executor gets them in the
\* order they were sent in, none twice and none left out (handleDataPacket, the
\* ring pkt_q), for a stream and a ring of any length.
THEOREM DeliveredInOrder == Spec => []InOrder
<1>1. UdpInv => InOrder
  <2> SUFFICES ASSUME UdpInv PROVE InOrder
    OBVIOUS
  <2>1. delivered \in Seq(Seq1) /\ \A i \in 1..Len(delivered) : delivered[i] = i
    BY DEF UdpInv, TypeInv, ReceiverInv
  <2>2. DOMAIN delivered = 1..Len(delivered)
    BY <2>1, SMT
  <2>3. QED
    BY <2>1, <2>2 DEF InOrder
<1>2. QED
  BY <1>1, UdpInvariant, PTL

\* The sender gives back the buffer of a packet only after it has arrived
\* (handleAcks, handleAckForDuplicatePkt, handleAckForDisorderPkt).
THEOREM AckedArrived == Spec => []AckedIsHeld
<1>1. UdpInv => AckedIsHeld
  <2> SUFFICES ASSUME UdpInv, main \notin {"stopped", "torn"}, NEW s \in 1..(sndSeq - 1)
               PROVE  \/ s \in Range(sndQueue) \cup unackQueue
                      \/ s <= Len(delivered)
                      \/ conn.q[PosOf(s)] = s
    BY DEF AckedIsHeld
  <2>1. TypeInv /\ QueueInv /\ WindowInv /\ Live
    BY DEF UdpInv, Live
  <2>2. /\ Sent \in Nat /\ Sent = sndSeq - 1 - Len(sndQueue) /\ sndQueue \in Seq(Seq1)
        /\ Len(sndQueue) \in Nat /\ sndSeq \in Nat
    BY <2>1, SenderFields
  <2>3. CASE s \in 1..Sent
    <3>1. s \in unackQueue \/ Held(s)
      BY <2>1, <2>3 DEF WindowInv
    <3>2. QED
      BY <3>1 DEF Held
  <2>4. CASE s \notin 1..Sent
    <3>1. s - Sent \in 1..Len(sndQueue) /\ Sent + (s - Sent) = s
      BY <2>2, <2>4, SMT
    <3>2. sndQueue[s - Sent] = s
      BY <2>1, <3>1 DEF QueueInv
    <3>3. DOMAIN sndQueue = 1..Len(sndQueue)
      BY <2>2, SMT
    <3>4. QED
      BY <3>1, <3>2, <3>3 DEF Range
  <2>5. QED
    BY <2>3, <2>4
<1>2. QED
  BY <1>1, UdpInvariant, PTL

\* The sender never overruns the ring: no packet in flight meets the branch
\* "received a packet when the queue is full" of handleDataPacket.
THEOREM RingNeverOverrun == Spec => []NoOverrun
<1>1. UdpInv => NoOverrun
  <2> SUFFICES ASSUME UdpInv, NEW m \in net, m.type = "data", main \notin {"setup", "torn"},
                      conn.active, ~conn.stop, m.seq >= conn.seq
               PROVE  conn.size < QueueDepth /\ m.seq - (conn.seq - conn.size) < QueueDepth
    BY DEF NoOverrun
  <2>1. TypeInv /\ QueueInv /\ ReceiverInv /\ WindowInv
    BY DEF UdpInv
  <2>2. Live
    BY <2>1 DEF ReceiverInv, Live
  <2>3. m \in Message /\ MsgOf(m) /\ conn \in ConnType
    BY <2>1, <2>2 DEF TypeInv, WindowInv
  <2>4. m.seq <= Sent /\ m.seq \in Seq1
    BY <2>3, MessageFields DEF MsgOf
  <2>5. m.seq \in Int
    BY <2>4, SMT DEF Seq1
  <2>6. m.seq - HeadSeq(conn) < QueueDepth
    BY <2>1, <2>2, <2>4, <2>5, WithinWindow
  <2>7. conn.seq \in Nat /\ conn.size \in Nat /\ QueueDepth \in Nat
    BY <2>3, ConnFields, DepthAssumption
  <2>8. QED
    BY <2>5, <2>6, <2>7, SMT DEF HeadSeq
<1>2. QED
  BY <1>1, UdpInvariant, PTL

\* A main thread that waits is told of the packet it waits for: reachRoute is set
\* whenever there is something in the ring (receiveChunksUDPIFC).
THEOREM WakeupNotLost == Spec => []NoLostWakeup
<1>1. UdpInv => NoLostWakeup
  <2> SUFFICES ASSUME UdpInv, main = "wait", conn.size > 0 PROVE reached
    BY DEF NoLostWakeup
  <2>1. Live
    BY DEF Live
  <2>2. QED
    BY <2>1 DEF UdpInv, ReceiverInv
<1>2. QED
  BY <1>1, UdpInvariant, PTL

=============================================================================
